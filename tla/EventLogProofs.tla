--------------------------- MODULE EventLogProofs ---------------------------
(***************************************************************************)
(* Proofs about EventLog, for every set of instances and resources, every  *)
(* configuration and all bounds.                                           *)
(***************************************************************************)
EXTENDS EventLog, UpEventsProofs

-----------------------------------------------------------------------------
(* What one append does to one history.                                    *)

(* A well-formed history stays well formed, and an empty one becomes so.   *)
LEMMA AppendUpEventWellFormed ==
    ASSUME NEW rec \in Seq(UpEvent), NEW event \in UpEvent,
           rec = << >> \/ WellFormed(rec),
           event.ExpectedDown => ~event.Up
    PROVE  WellFormed(AppendUpEvent(rec, event))
<1>. DEFINE first == [event EXCEPT !.Up = FALSE]
            started == IF rec = << >> THEN <<first>> ELSE rec
<1>1. first \in UpEvent /\ ~first.Up
    BY DEF UpEvent
<1>2. started \in Seq(UpEvent) /\ Len(started) \in Nat /\ WellFormed(started)
    <2>1. CASE rec = << >>
        <3>1. started = <<first>>
            BY <2>1
        <3>. HIDE DEF first, started
        <3>2. <<first>> \in Seq(UpEvent) /\ Len(<<first>>) = 1 /\ <<first>>[1] = first
            BY <1>1
        <3>. QED
            BY <1>1, <3>1, <3>2 DEF WellFormed
    <2>2. CASE rec # << >>
        BY <2>2
    <2>. QED
        BY <2>1, <2>2
<1>. HIDE DEF started
<1>3. AppendUpEvent(rec, event) = IF SameCondition(started[Len(started)], event)
                                  THEN started ELSE Append(started, event)
    BY DEF AppendUpEvent, started
<1>4. CASE SameCondition(started[Len(started)], event)
    BY <1>2, <1>3, <1>4
<1>5. CASE ~SameCondition(started[Len(started)], event)
    <2>. DEFINE h == Append(started, event)
    <2>1. AppendUpEvent(rec, event) = h
        BY <1>3, <1>5
    <2>2. Len(started) >= 1
        BY <1>2 DEF WellFormed
    <2>3. /\ h \in Seq(UpEvent) /\ Len(h) = Len(started) + 1
          /\ \A j \in 1..Len(started) : h[j] = started[j]
          /\ h[Len(started) + 1] = event
        BY <1>2
    <2>. HIDE DEF h
    <2>4. h # << >> /\ ~h[1].Up
        BY <1>2, <2>2, <2>3 DEF WellFormed
    <2>5. ASSUME NEW j \in 1..Len(h) PROVE h[j].ExpectedDown => ~h[j].Up
        BY <1>2, <2>3 DEF WellFormed
    <2>6. ASSUME NEW j \in 2..Len(h) PROVE ~SameCondition(h[j-1], h[j])
        BY <1>2, <1>5, <2>2, <2>3 DEF WellFormed
    <2>. QED
        BY <2>1, <2>4, <2>5, <2>6 DEF WellFormed
<1>. QED
    BY <1>4, <1>5

(* What one append does to the stored events of a key: each observed       *)
(* resource gets its history extended.                                     *)
LEMMA AppendStateChangeEventsType ==
    ASSUME NEW now \in Nat, NEW k \in Keys, NEW ups, NEW events,
           IsMapTo(ups, Upnesses[k]), IsMapTo(events, Seq(UpEvent))
    PROVE  LET recs == AppendStateChangeEvents(now, ups, events) IN
           /\ IsMapTo(recs, Seq(UpEvent))
           /\ DOMAIN recs = DOMAIN ups
           /\ \A r \in DOMAIN ups :
                /\ EventOf(ups[r], now) \in UpEvent
                /\ HistoryOf(events, r) \in Seq(UpEvent)
                /\ recs[r] = AppendUpEvent(HistoryOf(events, r), EventOf(ups[r], now))
<1>. DEFINE recs == AppendStateChangeEvents(now, ups, events)
<1>0. \A r \in DOMAIN ups : ups[r] \in Upness
    BY EventLogAssumption DEF IsMapTo
<1>1. /\ \A r \in DOMAIN ups : EventOf(ups[r], now) \in UpEvent
      /\ \A r \in DOMAIN events : events[r] \in Seq(UpEvent)
    BY <1>0, EventOfType DEF IsMapTo
<1>2. recs = [r \in DOMAIN ups |-> recs[r]]
    BY DEF AppendStateChangeEvents
<1>. HIDE DEF recs
<1>3. /\ DOMAIN recs = DOMAIN ups
      /\ \A r \in DOMAIN ups :
           /\ EventOf(ups[r], now) \in UpEvent
           /\ HistoryOf(events, r) \in Seq(UpEvent)
           /\ recs[r] = AppendUpEvent(HistoryOf(events, r), EventOf(ups[r], now))
           /\ recs[r] \in Seq(UpEvent)
    BY <1>1, AppendStateChangeEventsExtends DEF recs
<1>4. recs \in [DOMAIN ups -> Seq(UpEvent)]
    BY <1>2, <1>3
<1>. QED
    BY <1>3, <1>4 DEF IsMapTo, recs

-----------------------------------------------------------------------------
(* Type correctness.                                                       *)

(* A writer's keys are keys of the bucket.                                 *)
LEMMA KeysOfSubset ==
    ASSUME NEW o \in Observers PROVE KeysOf(o) \subseteq Keys
BY DEF Observers, KeysOf, Keys, ObjectKinds

(* Going idle keeps a writer well typed.                                   *)
LEMMA NoRunType ==
    /\ DOMAIN NoRun = {"now", "ups", "todo", "key", "recs"}
    /\ NoRun.now \in Nat /\ NoRun.todo = {}
BY DEF NoRun

(* A step of writer w leaves the other writers alone.                      *)
LEMMA OneWriterMoves ==
    ASSUME TypeOK, NEW w \in Writers, NEW label, NEW knows,
           pc' = [pc EXCEPT ![w] = label],
           run' = [run EXCEPT ![w] = knows],
           label \in Labels,
           RunTypeOK(w)'
    PROVE  /\ pc' \in [Writers -> Labels]
           /\ DOMAIN run' = Writers /\ \A v \in Writers : RunTypeOK(v)'
<1>1. DOMAIN run' = Writers
    BY DEF TypeOK
<1>2. ASSUME NEW v \in Writers, v # w PROVE RunTypeOK(v)'
    <2>1. run'[v] = run[v] /\ pc'[v] = pc[v]
        BY <1>2 DEF TypeOK
    <2>. QED
        BY <2>1 DEF TypeOK, RunTypeOK
<1>. QED
    BY <1>1, <1>2 DEF TypeOK

(* A writer that returns, with or without an error, is well typed.         *)
LEMMA ReturnType ==
    ASSUME TypeOK, NEW w \in Writers, Return(w)
    PROVE  /\ pc' \in [Writers -> Labels]
           /\ DOMAIN run' = Writers /\ \A v \in Writers : RunTypeOK(v)'
<1>1. pc'[w] = "idle" /\ run'[w] = NoRun
    BY DEF TypeOK, Return, Goto
<1>2. RunTypeOK(w)'
    BY <1>1, NoRunType DEF RunTypeOK
<1>. QED
    BY <1>2, OneWriterMoves DEF Return, Goto, Labels

(* The environment keeps the types.                                        *)
LEMMA EnvironmentType ==
    ASSUME TypeOK, Environment PROVE TypeOK'
<1>1. CASE Tick
    BY <1>1, EventLogAssumption DEF Tick, TypeOK, RunTypeOK
<1>2. ASSUME NEW kind \in ObjectKinds, NEW r \in Resources,
             NEW up \in {f \in [kind -> UNION {Upnesses[k] : k \in kind}] :
                           \A k \in kind : f[k] \in Upnesses[k]},
             ObjectChanges(kind, r, up)
      PROVE  TypeOK'
    <2>1. ASSUME NEW k \in Keys PROVE IsMapTo(cluster'[k], Upnesses[k])
        <3>1. CASE k \in kind
            <4>. DEFINE f == [s \in DOMAIN cluster[k] \cup {r} |->
                                IF s = r THEN up[k] ELSE cluster[k][s]]
            <4>1. cluster'[k] = f
                BY <1>2, <3>1 DEF ObjectChanges
            <4>2. up[k] \in Upnesses[k]
                BY <3>1
            <4>3. IsMapTo(cluster[k], Upnesses[k])
                BY DEF TypeOK
            <4>. QED
                BY <4>1, <4>2, <4>3 DEF IsMapTo
        <3>2. CASE k \notin kind
            BY <1>2, <3>2 DEF ObjectChanges, TypeOK
        <3>. QED
            BY <3>1, <3>2
    <2>2. DOMAIN cluster' = Keys
        BY <1>2 DEF ObjectChanges
    <2>3. dirty' \in [Instances -> BOOLEAN]
        BY <1>2 DEF ObjectChanges, Notify, TypeOK
    <2>4. spent' \in [Events -> Nat]
        BY <1>2 DEF ObjectChanges, Spend, TypeOK, Events
    <2>. QED
        BY <1>2, <2>1, <2>2, <2>3, <2>4 DEF ObjectChanges, TypeOK, RunTypeOK
<1>3. ASSUME NEW kind \in ObjectKinds, NEW r \in Resources, ObjectDeleted(kind, r)
      PROVE  TypeOK'
    <2>1. ASSUME NEW k \in Keys PROVE IsMapTo(cluster'[k], Upnesses[k])
        <3>1. CASE k \in kind
            <4>1. cluster'[k] = [s \in DOMAIN cluster[k] \ {r} |-> cluster[k][s]]
                BY <1>3, <3>1 DEF ObjectDeleted
            <4>2. IsMapTo(cluster[k], Upnesses[k])
                BY DEF TypeOK
            <4>. QED
                BY <4>1, <4>2 DEF IsMapTo
        <3>2. CASE k \notin kind
            BY <1>3, <3>2 DEF ObjectDeleted, TypeOK
        <3>. QED
            BY <3>1, <3>2
    <2>2. DOMAIN cluster' = Keys
        BY <1>3 DEF ObjectDeleted
    <2>3. dirty' \in [Instances -> BOOLEAN]
        BY <1>3 DEF ObjectDeleted, Notify, TypeOK
    <2>4. spent' \in [Events -> Nat]
        BY <1>3 DEF ObjectDeleted, Spend, TypeOK, Events
    <2>. QED
        BY <1>3, <2>1, <2>2, <2>3, <2>4 DEF ObjectDeleted, TypeOK, RunTypeOK
<1>4. ASSUME NEW i \in Instances, Restart(i) PROVE TypeOK'
    <2>1. ASSUME NEW w \in Writers PROVE RunTypeOK(w)'
        <3>1. CASE w[1] = i
            <4>1. pc'[w] = "idle" /\ run'[w] = NoRun
                BY <1>4, <3>1 DEF Restart
            <4>. QED
                BY <4>1, NoRunType DEF RunTypeOK
        <3>2. CASE w[1] # i
            <4>1. pc'[w] = pc[w] /\ run'[w] = run[w]
                BY <1>4, <3>2 DEF Restart
            <4>. QED
                BY <4>1 DEF TypeOK, RunTypeOK
        <3>. QED
            BY <3>1, <3>2
    <2>2. pc' \in [Writers -> Labels]
        BY <1>4 DEF Restart, TypeOK, Labels
    <2>3. DOMAIN run' = Writers
        BY <1>4 DEF Restart
    <2>4. /\ DOMAIN observed' = Instances
          /\ \A j \in Instances : /\ DOMAIN observed'[j] \subseteq Keys
                                  /\ \A k \in DOMAIN observed'[j] :
                                       IsMapTo(observed'[j][k], Upnesses[k])
        BY <1>4 DEF Restart, TypeOK, EmptyMap
    <2>5. dirty' \in [Instances -> BOOLEAN]
        <3>1. WatchEnqueues \in BOOLEAN
            BY DEF WatchEnqueues
        <3>. QED
            BY <1>4, <3>1 DEF Restart, TypeOK
    <2>6. spent' \in [Events -> Nat]
        BY <1>4 DEF Restart, Spend, TypeOK, Events
    <2>. QED
        BY <1>4, <2>1, <2>2, <2>3, <2>4, <2>5, <2>6 DEF Restart, TypeOK
<1>. QED
    BY <1>1, <1>2, <1>3, <1>4 DEF Environment, World

(* The steps of a writer keep the types.                                   *)
LEMMA ProgressType ==
    ASSUME TypeOK, NEW w \in Writers, Progress(w) PROVE TypeOK'
<1>. USE DEF Labels
<1>. w[1] \in Instances /\ w[2] \in Observers
    BY DEF Writers
<1>0. KeysOf(w[2]) \subseteq Keys
    BY KeysOfSubset
<1>1. CASE StartReconcile(w)
    <2>1. RunTypeOK(w)'
        BY <1>1 DEF StartReconcile, Goto, List, TypeOK, RunTypeOK
    <2>2. /\ pc' \in [Writers -> Labels]
          /\ DOMAIN run' = Writers /\ \A v \in Writers : RunTypeOK(v)'
        BY <1>1, <2>1, OneWriterMoves DEF StartReconcile, Goto
    <2>. QED
        BY <1>1, <2>2 DEF StartReconcile, TypeOK
<1>2. CASE ListWorkloads(w)
    <2>1. RunTypeOK(w)'
        BY <1>2, <1>0 DEF ListWorkloads, Goto, List, TypeOK, RunTypeOK
    <2>2. /\ pc' \in [Writers -> Labels]
          /\ DOMAIN run' = Writers /\ \A v \in Writers : RunTypeOK(v)'
        BY <1>2, <2>1, OneWriterMoves DEF ListWorkloads, Goto
    <2>. QED
        BY <1>2, <2>2 DEF ListWorkloads, TypeOK
<1>3. CASE PollResources(w)
    <2>1. RunTypeOK(w)'
        BY <1>3, <1>0 DEF PollResources, Goto, List, TypeOK, RunTypeOK
    <2>2. /\ pc' \in [Writers -> Labels]
          /\ DOMAIN run' = Writers /\ \A v \in Writers : RunTypeOK(v)'
        BY <1>3, <2>1, OneWriterMoves DEF PollResources, Goto
    <2>. QED
        BY <1>3, <2>2 DEF PollResources, TypeOK
<1>4. CASE StampPoll(w)
    <2>1. RunTypeOK(w)'
        BY <1>4 DEF StampPoll, Goto, List, TypeOK, RunTypeOK
    <2>2. /\ pc' \in [Writers -> Labels]
          /\ DOMAIN run' = Writers /\ \A v \in Writers : RunTypeOK(v)'
        BY <1>4, <2>1, OneWriterMoves DEF StampPoll, Goto
    <2>. QED
        BY <1>4, <2>2 DEF StampPoll, TypeOK
<1>5. CASE UpdateObserved(w)
    <2>1. RunTypeOK(w)'
        BY <1>5 DEF UpdateObserved, Goto, TypeOK, RunTypeOK
    <2>2. /\ pc' \in [Writers -> Labels]
          /\ DOMAIN run' = Writers /\ \A v \in Writers : RunTypeOK(v)'
        BY <1>5, <2>1, OneWriterMoves DEF UpdateObserved, Goto
    <2>3. ASSUME NEW j \in Instances
          PROVE  /\ DOMAIN observed'[j] \subseteq Keys
                 /\ \A k \in DOMAIN observed'[j] : IsMapTo(observed'[j][k], Upnesses[k])
        <3>1. DOMAIN run[w].ups = KeysOf(w[2])
            BY <1>5 DEF UpdateObserved, TypeOK, RunTypeOK
        <3>2. \A k \in KeysOf(w[2]) : IsMapTo(run[w].ups[k], Upnesses[k])
            BY <1>5 DEF UpdateObserved, TypeOK, RunTypeOK
        <3>. QED
            BY <1>0, <1>5, <3>1, <3>2 DEF UpdateObserved, TypeOK
    <2>. QED
        BY <1>5, <2>2, <2>3 DEF UpdateObserved, TypeOK
<1>6. ASSUME NEW k \in Keys, GetRecords(w, k) PROVE TypeOK'
    <2>. DEFINE recs == AppendStateChangeEvents(run[w].now, run[w].ups[k], store[k])
                todo == run[w].todo \ {k}
    <2>1. /\ k \in KeysOf(w[2]) /\ todo \subseteq KeysOf(w[2])
          /\ IsMapTo(recs, Seq(UpEvent))
        BY <1>6, AppendStateChangeEventsType DEF GetRecords, TypeOK, RunTypeOK
    <2>. HIDE DEF recs, todo
    <2>2. /\ pc' \in [Writers -> Labels]
          /\ DOMAIN run' = Writers /\ \A v \in Writers : RunTypeOK(v)'
        <3>1. CASE /\ run' = [run EXCEPT ![w].recs = recs, ![w].key = k, ![w].todo = todo]
                   /\ Goto(w, "put")
            <4>1. RunTypeOK(w)'
                BY <1>6, <2>1, <3>1 DEF GetRecords, Goto, TypeOK, RunTypeOK
            <4>. QED
                BY <3>1, <4>1, OneWriterMoves DEF Goto
        <3>2. CASE run' = [run EXCEPT ![w].todo = todo] /\ UNCHANGED pc
            <4>1. RunTypeOK(w)'
                BY <1>6, <2>1, <3>2 DEF GetRecords, TypeOK, RunTypeOK
            <4>2. pc' = [pc EXCEPT ![w] = pc[w]]
                BY <3>2 DEF TypeOK
            <4>. QED
                BY <3>2, <4>1, <4>2, OneWriterMoves DEF TypeOK
        <3>3. CASE Return(w)
            BY <3>3, ReturnType
        <3>. QED
            BY <1>6, <3>1, <3>2, <3>3 DEF GetRecords, recs, todo
    <2>. QED
        BY <1>6, <2>2 DEF GetRecords, TypeOK
<1>7. CASE PutRecords(w)
    <2>1. /\ DOMAIN store' = Keys
          /\ \A k \in Keys : IsMapTo(store'[k], Seq(UpEvent))
        BY <1>7 DEF PutRecords, WriteObject, TypeOK, RunTypeOK
    <2>2. /\ pc' \in [Writers -> Labels]
          /\ DOMAIN run' = Writers /\ \A v \in Writers : RunTypeOK(v)'
        <3>1. CASE Return(w)
            BY <3>1, ReturnType
        <3>2. CASE /\ Goto(w, "get")
                   /\ run' = [run EXCEPT ![w].recs = EmptyMap, ![w].key = "none"]
            <4>1. RunTypeOK(w)'
                BY <1>7, <3>2 DEF PutRecords, Goto, TypeOK, RunTypeOK
            <4>. QED
                BY <3>2, <4>1, OneWriterMoves DEF Goto
        <3>. QED
            BY <1>7, <3>1, <3>2 DEF PutRecords
    <2>. QED
        BY <1>7, <2>1, <2>2 DEF PutRecords, TypeOK
<1>. QED
    BY <1>1, <1>2, <1>3, <1>4, <1>5, <1>6, <1>7 DEF Progress

(* So do its failures.                                                     *)
LEMMA FailureType ==
    ASSUME TypeOK, NEW w \in Writers, Failure(w) PROVE TypeOK'
<1>. w[1] \in Instances
    BY DEF Writers
<1>1. /\ pc' \in [Writers -> Labels]
      /\ DOMAIN run' = Writers /\ \A v \in Writers : RunTypeOK(v)'
    BY ReturnType DEF Failure, ListFails, GetFails, PutFails, ReturnError
<1>2. dirty' \in [Instances -> BOOLEAN]
    BY DEF Failure, ListFails, GetFails, PutFails, ReturnError, TypeOK
<1>3. spent' \in [Events -> Nat]
    BY DEF Failure, ListFails, GetFails, PutFails, Spend, TypeOK, Events
<1>4. DOMAIN store' = Keys /\ \A k \in Keys : IsMapTo(store'[k], Seq(UpEvent))
    BY DEF Failure, ListFails, GetFails, PutFails, WriteObject, TypeOK, RunTypeOK
<1>. QED
    BY <1>1, <1>2, <1>3, <1>4 DEF Failure, ListFails, GetFails, PutFails, TypeOK

(* The program starts well typed.                                          *)
LEMMA InitType == Init => TypeOK
<1>. SUFFICES ASSUME Init PROVE TypeOK
    OBVIOUS
<1>1. \A k \in Keys : IsMapTo(EmptyMap, Upnesses[k]) /\ IsMapTo(EmptyMap, Seq(UpEvent))
    BY DEF IsMapTo, EmptyMap
<1>2. \A w \in Writers : RunTypeOK(w)
    BY NoRunType DEF Init, RunTypeOK
<1>. QED
    BY <1>1, <1>2, EventLogAssumption DEF Init, TypeOK, EmptyMap, Labels

(* Every state of the system is well typed: in particular a writer only    *)
(* ever puts records of a key it owns.                                     *)
THEOREM TypeCorrect == Spec => []TypeOK
<1>1. TypeOK /\ [Next]_vars => TypeOK'
    <2>. SUFFICES ASSUME TypeOK, [Next]_vars PROVE TypeOK'
        OBVIOUS
    <2>1. CASE UNCHANGED vars
        BY <2>1 DEF vars, TypeOK, RunTypeOK
    <2>2. CASE Next
        BY <2>2, EnvironmentType, ProgressType, FailureType DEF Next
    <2>. QED
        BY <2>1, <2>2
<1>. QED
    BY <1>1, InitType, PTL DEF Spec

-----------------------------------------------------------------------------
(* How a step can change the bucket and what writers know.                 *)

Stamped == {"list", "update", "get", "put"}

(* Only a put changes the bucket, and the writer is done with it then.     *)
LEMMA StoreStep ==
    ASSUME TypeOK, Next
    PROVE  \/ UNCHANGED store
           \/ \E w \in Writers : /\ pc[w] = "put" /\ pc'[w] # "put"
                                 /\ WriteObject(w)
                                 /\ UNCHANGED clock
                                 /\ \A v \in Writers \ {w} : UNCHANGED <<pc[v], run[v]>>
<1>1. CASE Environment
    BY <1>1 DEF Environment, World, Tick, ObjectChanges, ObjectDeleted, Restart
<1>2. ASSUME NEW w \in Writers, Progress(w)
      PROVE  \/ UNCHANGED store
             \/ /\ pc[w] = "put" /\ pc'[w] # "put" /\ WriteObject(w)
                /\ UNCHANGED clock
                /\ \A v \in Writers \ {w} : UNCHANGED <<pc[v], run[v]>>
    <2>1. CASE PutRecords(w)
        BY <2>1 DEF PutRecords, Return, Goto, TypeOK
    <2>2. CASE ~PutRecords(w)
        BY <1>2, <2>2 DEF Progress, StartReconcile, ListWorkloads, PollResources,
                          StampPoll, UpdateObserved, GetRecords
    <2>. QED
        BY <2>1, <2>2
<1>3. ASSUME NEW w \in Writers, Failure(w)
      PROVE  \/ UNCHANGED store
             \/ /\ pc[w] = "put" /\ pc'[w] # "put" /\ WriteObject(w)
                /\ UNCHANGED clock
                /\ \A v \in Writers \ {w} : UNCHANGED <<pc[v], run[v]>>
    <2>1. CASE PutFails(w)
        BY <2>1 DEF PutFails, ReturnError, Return, Goto, TypeOK
    <2>2. CASE ~PutFails(w)
        BY <1>3, <2>2 DEF Failure, ListFails, GetFails
    <2>. QED
        BY <2>1, <2>2
<1>. QED
    BY <1>1, <1>2, <1>3 DEF Next

(* Time does not run backwards, and only the environment advances it.      *)
LEMMA ClockStep ==
    ASSUME TypeOK, Next
    PROVE  clock \in Nat /\ clock' \in Nat /\ clock' >= clock
<1>0. clock \in Nat
    BY EventLogAssumption DEF TypeOK
<1>1. CASE Environment
    BY <1>0, <1>1 DEF Environment, World, Tick, ObjectChanges, ObjectDeleted, Restart
<1>2. ASSUME NEW w \in Writers, Progress(w) \/ Failure(w) PROVE UNCHANGED clock
    BY <1>2 DEF Progress, StartReconcile, ListWorkloads, PollResources, StampPoll,
                UpdateObserved, GetRecords, PutRecords, Failure, ListFails, GetFails, PutFails
<1>. QED
    BY <1>0, <1>1, <1>2 DEF Next

(* A writer that is stamped after a step either was so before it and keeps *)
(* its time stamp, or has just taken the time.                             *)
LEMMA StampStep ==
    ASSUME TypeOK, Next, NEW v \in Writers, pc'[v] \in Stamped
    PROVE  \/ pc[v] \in Stamped /\ run'[v].now = run[v].now
           \/ run'[v].now = clock /\ UNCHANGED <<clock, store>>
<1>. USE DEF Stamped
<1>1. CASE Environment
    BY <1>1 DEF Environment, World, Tick, ObjectChanges, ObjectDeleted, Restart
<1>3. ASSUME NEW w \in Writers, w # v, Progress(w) \/ Failure(w)
      PROVE  pc'[v] = pc[v] /\ run'[v] = run[v]
    BY <1>3 DEF Progress, StartReconcile, ListWorkloads, PollResources, StampPoll,
                UpdateObserved, GetRecords, PutRecords, Failure, ListFails, GetFails,
                PutFails, ReturnError, Return, Goto, TypeOK
<1>4. CASE Failure(v)
    BY <1>4 DEF Failure, ListFails, GetFails, PutFails, ReturnError, Return, Goto, TypeOK
<1>5. CASE Progress(v)
    <2>. RunTypeOK(v)
        BY DEF TypeOK
    <2>1. CASE StartReconcile(v) \/ StampPoll(v)
        BY <2>1 DEF StartReconcile, StampPoll, Goto, TypeOK, RunTypeOK
    <2>2. CASE ListWorkloads(v) \/ PollResources(v) \/ UpdateObserved(v)
        BY <2>2 DEF ListWorkloads, PollResources, UpdateObserved, Goto, TypeOK, RunTypeOK
    <2>3. ASSUME NEW k \in Keys, GetRecords(v, k)
          PROVE  pc[v] \in Stamped /\ run'[v].now = run[v].now
        BY <2>3 DEF GetRecords, Return, Goto, TypeOK, RunTypeOK
    <2>4. CASE PutRecords(v)
        BY <2>4 DEF PutRecords, Return, Goto, TypeOK, RunTypeOK
    <2>. QED
        BY <1>5, <2>1, <2>2, <2>3, <2>4 DEF Progress
<1>. QED
    BY <1>1, <1>3, <1>4, <1>5 DEF Next

(* A writer that is about to put after a step either was so before it, or  *)
(* has just read the object and appended its observation to it.            *)
LEMMA PutStep ==
    ASSUME TypeOK, Next, NEW v \in Writers, pc'[v] = "put"
    PROVE  \/ pc[v] = "put" /\ run'[v] = run[v]
           \/ /\ UNCHANGED store
              /\ pc[v] = "get" /\ run'[v].key \in KeysOf(v[2])
              /\ run'[v].now = run[v].now /\ run'[v].ups = run[v].ups
              /\ run'[v].recs = AppendStateChangeEvents(run[v].now,
                                   run[v].ups[run'[v].key], store[run'[v].key])
<1>1. CASE Environment
    BY <1>1 DEF Environment, World, Tick, ObjectChanges, ObjectDeleted, Restart
<1>2. ASSUME NEW w \in Writers, w # v, Progress(w) \/ Failure(w)
      PROVE  pc'[v] = pc[v] /\ run'[v] = run[v]
    BY <1>2 DEF Progress, StartReconcile, ListWorkloads, PollResources, StampPoll,
                UpdateObserved, GetRecords, PutRecords, Failure, ListFails, GetFails,
                PutFails, ReturnError, Return, Goto, TypeOK
<1>3. ASSUME NEW k \in Keys, GetRecords(v, k)
      PROVE  /\ UNCHANGED store
             /\ pc[v] = "get" /\ run'[v].key \in KeysOf(v[2])
             /\ run'[v].now = run[v].now /\ run'[v].ups = run[v].ups
             /\ run'[v].recs = AppendStateChangeEvents(run[v].now,
                                  run[v].ups[run'[v].key], store[run'[v].key])
    <2>. DEFINE recs == AppendStateChangeEvents(run[v].now, run[v].ups[k], store[k])
                todo == run[v].todo \ {k}
    <2>1. run' = [run EXCEPT ![v].recs = recs, ![v].key = k, ![v].todo = todo]
        BY <1>3 DEF GetRecords, Return, Goto, TypeOK
    <2>2. pc[v] = "get" /\ k \in KeysOf(v[2]) /\ UNCHANGED store
        BY <1>3 DEF GetRecords, TypeOK, RunTypeOK
    <2>. HIDE DEF recs, todo
    <2>3. /\ run'[v].key = k /\ run'[v].recs = recs
          /\ run'[v].now = run[v].now /\ run'[v].ups = run[v].ups
        BY <2>1 DEF TypeOK, RunTypeOK
    <2>. QED
        BY <2>2, <2>3 DEF recs
<1>4. ASSUME Progress(v) \/ Failure(v), \A k \in Keys : ~GetRecords(v, k) PROVE FALSE
    BY <1>4 DEF Progress, StartReconcile, ListWorkloads, PollResources, StampPoll,
                UpdateObserved, PutRecords, Failure, ListFails, GetFails,
                PutFails, ReturnError, Return, Goto, TypeOK
<1>. QED
    BY <1>1, <1>2, <1>3, <1>4 DEF Next

-----------------------------------------------------------------------------
(* Well-formed histories, for any number of overlapping instances.         *)

(* Appending an observation to well-formed histories leaves them so.       *)
LEMMA AppendKeepsWellFormed ==
    ASSUME NEW now \in Nat, NEW k \in Keys, NEW ups, NEW events,
           IsMapTo(ups, Upnesses[k]), IsMapTo(events, Seq(UpEvent)),
           \A r \in DOMAIN events : WellFormed(events[r])
    PROVE  LET recs == AppendStateChangeEvents(now, ups, events)
           IN  \A r \in DOMAIN recs : WellFormed(recs[r])
<1>. DEFINE recs == AppendStateChangeEvents(now, ups, events)
<1>. SUFFICES ASSUME NEW r \in DOMAIN recs PROVE WellFormed(recs[r])
    OBVIOUS
<1>1. /\ r \in DOMAIN ups
      /\ EventOf(ups[r], now) \in UpEvent
      /\ HistoryOf(events, r) \in Seq(UpEvent)
      /\ recs[r] = AppendUpEvent(HistoryOf(events, r), EventOf(ups[r], now))
    BY AppendStateChangeEventsType
<1>2. ups[r] \in Upness
    BY <1>1, EventLogAssumption DEF IsMapTo
<1>3. EventOf(ups[r], now).ExpectedDown => ~EventOf(ups[r], now).Up
    BY <1>2, EventOfType
<1>4. HistoryOf(events, r) = << >> \/ WellFormed(HistoryOf(events, r))
    BY DEF HistoryOf
<1>. HIDE DEF recs
<1>. QED
    BY <1>1, <1>3, <1>4, AppendUpEventWellFormed

(* A step leaves what is stored, and what is about to be, well formed.     *)
LEMMA WellFormedStep ==
    ASSUME TypeOK, HistoriesWellFormed, PendingWellFormed, Next
    PROVE  HistoriesWellFormed' /\ PendingWellFormed'
<1>1. HistoriesWellFormed'
    <2>1. CASE UNCHANGED store
        BY <2>1 DEF HistoriesWellFormed
    <2>2. ASSUME NEW w \in Writers, pc[w] = "put", WriteObject(w)
          PROVE  HistoriesWellFormed'
        <3>1. /\ run[w].key \in DOMAIN store
              /\ \A r \in DOMAIN run[w].recs : WellFormed(run[w].recs[r])
            BY <2>2, KeysOfSubset DEF TypeOK, RunTypeOK, PendingWellFormed, Writers
        <3>2. store' = [store EXCEPT ![run[w].key] = run[w].recs]
            BY <2>2 DEF WriteObject
        <3>. QED
            BY <3>1, <3>2 DEF HistoriesWellFormed, TypeOK
    <2>. QED
        BY <2>1, <2>2, StoreStep
<1>2. ASSUME NEW v \in Writers, pc'[v] = "put"
      PROVE  \A r \in DOMAIN run'[v].recs : WellFormed(run'[v].recs[r])
    <2>1. CASE pc[v] = "put" /\ run'[v] = run[v]
        BY <2>1 DEF PendingWellFormed
    <2>2. CASE ~(pc[v] = "put" /\ run'[v] = run[v])
        <3>. DEFINE k == run'[v].key
        <3>1. /\ pc[v] = "get" /\ k \in KeysOf(v[2])
              /\ run'[v].recs = AppendStateChangeEvents(run[v].now,
                                    run[v].ups[k], store[k])
            BY <1>2, <2>2, PutStep
        <3>2. k \in Keys
            BY <3>1, KeysOfSubset DEF Writers
        <3>. HIDE DEF k
        <3>3. /\ run[v].now \in Nat /\ IsMapTo(run[v].ups[k], Upnesses[k])
              /\ IsMapTo(store[k], Seq(UpEvent))
              /\ \A r \in DOMAIN store[k] : WellFormed(store[k][r])
            BY <3>1, <3>2 DEF TypeOK, RunTypeOK, HistoriesWellFormed
        <3>. QED
            BY <3>1, <3>2, <3>3, AppendKeepsWellFormed
    <2>. QED
        BY <2>1, <2>2
<1>. QED
    BY <1>1, <1>2 DEF PendingWellFormed

(* Nothing is stored at first, and nothing is about to be.                 *)
LEMMA InitWellFormed == Init => HistoriesWellFormed /\ PendingWellFormed
BY DEF Init, HistoriesWellFormed, PendingWellFormed, EmptyMap

(* Retries, failures, restarts and overlapping instances never leave a     *)
(* malformed history in the bucket.                                        *)
THEOREM HistoriesStayWellFormed == Spec => []HistoriesWellFormed
<1>1. TypeOK /\ HistoriesWellFormed /\ PendingWellFormed /\ [Next]_vars
        => HistoriesWellFormed' /\ PendingWellFormed'
    BY WellFormedStep DEF vars, HistoriesWellFormed, PendingWellFormed
<1>. QED
    BY <1>1, InitWellFormed, TypeCorrect, PTL DEF Spec

-----------------------------------------------------------------------------
(* A single instance: a read, an append and a put are one step of the log. *)

(* An observation stamped no earlier than the events of a key extends its  *)
(* histories in order.                                                     *)
LEMMA AppendKeepsOrder ==
    ASSUME NEW now \in Nat, NEW k \in Keys, NEW ups, NEW events,
           IsMapTo(ups, Upnesses[k]), IsMapTo(events, Seq(UpEvent)),
           Log!NotBefore(now, events),
           \A r \in DOMAIN events : InOrder(events[r])
    PROVE  LET recs == AppendStateChangeEvents(now, ups, events)
           IN  /\ Log!NotBefore(now, recs)
               /\ \A r \in DOMAIN recs : InOrder(recs[r])
               /\ \A r \in DOMAIN recs \cap DOMAIN events :
                    IsPrefix(events[r], recs[r])
<1>. DEFINE recs == AppendStateChangeEvents(now, ups, events)
<1>1. ASSUME NEW r \in DOMAIN recs
      PROVE  /\ InOrder(recs[r])
             /\ \A j \in 1..Len(recs[r]) : recs[r][j].Timestamp <= now
             /\ r \in DOMAIN events => IsPrefix(events[r], recs[r])
    <2>. DEFINE rec == HistoryOf(events, r)
                h == recs[r]
    <2>1. /\ r \in DOMAIN ups
          /\ EventOf(ups[r], now) \in UpEvent
          /\ rec \in Seq(UpEvent)
          /\ h = AppendUpEvent(rec, EventOf(ups[r], now))
        BY AppendStateChangeEventsType
    <2>2. EventOf(ups[r], now).Timestamp = now
        BY DEF EventOf
    <2>3. /\ r \in DOMAIN events => rec = events[r]
          /\ r \notin DOMAIN events => rec = << >>
        BY DEF HistoryOf
    <2>4. /\ InOrder(rec)
          /\ \A j \in 1..Len(rec) : rec[j].Timestamp <= now
        BY <2>3 DEF InOrder, Log!NotBefore
    <2>. HIDE DEF rec, h
    <2>5. /\ h \in Seq(UpEvent) /\ Len(h) >= Len(rec)
          /\ \A j \in 1..Len(rec) : h[j] = rec[j]
          /\ \A j \in (Len(rec) + 1)..Len(h) : h[j].Timestamp = now
        BY <2>1, <2>2, AppendUpEventExtends
    <2>6. \A j \in 1..Len(h) : h[j].Timestamp \in Nat /\ h[j].Timestamp <= now
        <3>. SUFFICES ASSUME NEW j \in 1..Len(h)
                      PROVE  h[j].Timestamp \in Nat /\ h[j].Timestamp <= now
            OBVIOUS
        <3>1. h[j] \in UpEvent
            BY <2>5
        <3>2. h[j].Timestamp \in Nat
            BY <3>1 DEF UpEvent
        <3>. QED
            BY <2>1, <2>4, <2>5, <3>2
    <2>7. InOrder(h)
        <3>. SUFFICES ASSUME NEW m \in 1..Len(h), NEW n \in 1..Len(h), m <= n
                      PROVE  h[m].Timestamp <= h[n].Timestamp
            BY DEF InOrder
        <3>1. CASE n \in 1..Len(rec)
            <4>1. m \in 1..Len(rec)
                BY <2>1, <3>1
            <4>. QED
                BY <2>4, <2>5, <3>1, <4>1 DEF InOrder
        <3>2. CASE n \notin 1..Len(rec)
            <4>1. h[n].Timestamp = now
                BY <2>1, <2>5, <3>2
            <4>. QED
                BY <2>6, <4>1
        <3>. QED
            BY <3>1, <3>2
    <2>8. IsPrefix(rec, h)
        <3>1. SubSeq(rec, 1, Len(rec)) = SubSeq(h, 1, Len(rec))
            BY <2>1, <2>5
        <3>. QED
            BY <2>5, <3>1 DEF IsPrefix
    <2>. QED
        BY <2>3, <2>6, <2>7, <2>8 DEF h
<1>. HIDE DEF recs
<1>2. Log!NotBefore(now, recs)
    BY <1>1 DEF Log!NotBefore
<1>. QED
    BY <1>1, <1>2 DEF recs

(* All writers that are at work belong to one instance: there is only one, *)
(* or something, like a lease, keeps the others from writing.              *)
OneAtWork ==
    \A v, w \in Writers : pc[v] # "idle" /\ pc[w] # "idle" => v[1] = w[1]

(* A single instance is at work alone.                                     *)
LEMMA SingleAtWork == SingleInstance => OneAtWork
BY DEF SingleInstance, OneAtWork, Writers

(* Different writers of one instance own different keys.                   *)
LEMMA WritersOwnTheirKeys ==
    ASSUME NEW v \in Writers, NEW w \in Writers, v # w, v[1] = w[1]
    PROVE  KeysOf(v[2]) \cap KeysOf(w[2]) = {}
<1>1. v[2] # w[2] /\ v[2] \in Observers /\ w[2] \in Observers
    BY DEF Writers
<1>. QED
    BY <1>1 DEF KeysOf, Observers

(* What a put does then: it appends an observation to the object.          *)
LEMMA PutAppends ==
    ASSUME TypeOK, TimesOrdered, PendingFresh,
           NEW w \in Writers, pc[w] = "put", WriteObject(w)
    PROVE  LET k == run[w].key IN
           /\ k \in Keys /\ k \in KeysOf(w[2])
           /\ run[w].now \in Nat /\ run[w].now <= clock
           /\ IsMapTo(run[w].ups[k], Upnesses[k])
           /\ Log!NotBefore(run[w].now, store[k])
           /\ store' = [store EXCEPT ![k] =
                AppendStateChangeEvents(run[w].now, run[w].ups[k], store[k])]
           /\ Log!NotBefore(run[w].now, store'[k])
           /\ \A r \in DOMAIN store'[k] : InOrder(store'[k][r])
           /\ \A r \in DOMAIN store[k] \cap DOMAIN store'[k] :
                IsPrefix(store[k][r], store'[k][r])
<1>. DEFINE k == run[w].key
            recs == AppendStateChangeEvents(run[w].now, run[w].ups[k], store[k])
<1>1. k \in KeysOf(w[2]) /\ k \in Keys
    BY KeysOfSubset DEF TypeOK, RunTypeOK, Writers
<1>2. run[w].recs = recs
    BY DEF PendingFresh
<1>3. store' = [store EXCEPT ![k] = recs] /\ store'[k] = recs
    BY <1>1, <1>2 DEF WriteObject, TypeOK
<1>4. /\ run[w].now \in Nat /\ run[w].now <= clock
      /\ IsMapTo(run[w].ups[k], Upnesses[k])
      /\ Log!NotBefore(run[w].now, store[k])
    BY <1>1 DEF TypeOK, RunTypeOK, PendingFresh
<1>5. IsMapTo(store[k], Seq(UpEvent)) /\ \A r \in DOMAIN store[k] : InOrder(store[k][r])
    BY <1>1 DEF TypeOK, TimesOrdered
<1>6. /\ Log!NotBefore(run[w].now, recs)
      /\ \A r \in DOMAIN recs : InOrder(recs[r])
      /\ \A r \in DOMAIN recs \cap DOMAIN store[k] : IsPrefix(store[k][r], recs[r])
    BY <1>1, <1>4, <1>5, AppendKeepsOrder
<1>. HIDE DEF k, recs
<1>. QED
    BY <1>1, <1>3, <1>4, <1>6 DEF k, recs

FreshInv == TypeOK /\ TimesOrdered /\ PendingFresh

(* The strengthened invariant holds when the program starts.               *)
LEMMA InitFresh == Init => FreshInv
<1>. SUFFICES ASSUME Init PROVE TimesOrdered /\ PendingFresh
    BY InitType DEF FreshInv
<1>. QED
    BY DEF Init, TimesOrdered, PendingFresh, EmptyMap

(* A step keeps the stored events in order: a put appends to what is       *)
(* stored, with a time stamp no earlier.                                   *)
LEMMA TimesOrderedStep ==
    ASSUME FreshInv, Next PROVE TimesOrdered'
<1>. USE DEF FreshInv
<1>1. CASE UNCHANGED store
    <2>1. clock' >= clock /\ clock \in Nat /\ clock' \in Nat
        BY ClockStep
    <2>. SUFFICES ASSUME NEW k \in Keys, NEW r \in DOMAIN store[k],
                         NEW n \in 1..Len(store[k][r])
                  PROVE  store[k][r][n].Timestamp <= clock'
        BY <1>1 DEF TimesOrdered
    <2>2. store[k][r] \in Seq(UpEvent)
        BY DEF TypeOK, IsMapTo
    <2>3. store[k][r][n] \in UpEvent
        BY <2>2
    <2>4. store[k][r][n].Timestamp \in Nat /\ store[k][r][n].Timestamp <= clock
        BY <2>3 DEF TimesOrdered, UpEvent
    <2>. QED
        BY <2>1, <2>4
<1>2. ASSUME NEW w \in Writers, pc[w] = "put", WriteObject(w), UNCHANGED clock, TypeOK'
      PROVE  TimesOrdered'
    <2>. SUFFICES ASSUME NEW k \in Keys, NEW r \in DOMAIN store'[k]
                  PROVE  /\ InOrder(store'[k][r])
                         /\ \A n \in 1..Len(store'[k][r]) :
                              store'[k][r][n].Timestamp <= clock'
        BY DEF TimesOrdered
    <2>1. CASE k # run[w].key
        <3>1. store'[k] = store[k]
            BY <1>2, <2>1 DEF WriteObject, TypeOK
        <3>. QED
            BY <1>2, <3>1 DEF TimesOrdered
    <2>2. CASE k = run[w].key
        <3>1. /\ run[w].now \in Nat /\ run[w].now <= clock
              /\ InOrder(store'[k][r])
              /\ Log!NotBefore(run[w].now, store'[k])
            BY <1>2, <2>2, PutAppends
        <3>2. store'[k][r] \in Seq(UpEvent)
            BY <1>2 DEF TypeOK, IsMapTo
        <3>3. ASSUME NEW n \in 1..Len(store'[k][r])
              PROVE  store'[k][r][n].Timestamp \in Nat
            <4>1. store'[k][r][n] \in UpEvent
                BY <3>2
            <4>. QED
                BY <4>1 DEF UpEvent
        <3>4. clock' = clock /\ clock \in Nat
            BY <1>2, EventLogAssumption DEF TypeOK
        <3>5. ASSUME NEW n \in 1..Len(store'[k][r])
              PROVE  store'[k][r][n].Timestamp <= clock'
            <4>1. store'[k][r][n].Timestamp <= run[w].now
                BY <3>1 DEF Log!NotBefore
            <4>. QED
                BY <3>1, <3>3, <3>4, <4>1
        <3>. QED
            BY <3>1, <3>5
    <2>. QED
        BY <2>1, <2>2
<1>3. TypeOK'
    BY EnvironmentType, ProgressType, FailureType DEF Next
<1>. QED
    BY <1>1, <1>2, <1>3, StoreStep

(* A step keeps pending writes fresh: nobody else writes the keys of a     *)
(* writer at work, and nobody's clock goes back.                           *)
LEMMA PendingFreshStep ==
    ASSUME OneAtWork, FreshInv, Next PROVE PendingFresh'
<1>. USE DEF FreshInv
<1>0. TypeOK'
    BY EnvironmentType, ProgressType, FailureType DEF Next
<1>. DEFINE Unmoved(v) == \A k \in KeysOf(v[2]) : store'[k] = store[k]
<1>1. ASSUME NEW v \in Writers, pc[v] # "idle"
      PROVE  \/ Unmoved(v)
             \/ /\ pc[v] = "put" /\ pc'[v] # "put" /\ WriteObject(v)
    <2>1. CASE UNCHANGED store
        BY <2>1
    <2>2. ASSUME NEW w \in Writers, pc[w] = "put", w # v, WriteObject(w)
          PROVE  Unmoved(v)
        <3>0. v[1] = w[1]
            BY <1>1, <2>2 DEF OneAtWork
        <3>1. run[w].key \in KeysOf(w[2]) /\ run[w].key \notin KeysOf(v[2])
            BY <2>2, <3>0, WritersOwnTheirKeys DEF TypeOK, RunTypeOK
        <3>2. KeysOf(v[2]) \subseteq Keys
            BY KeysOfSubset DEF Writers
        <3>. QED
            BY <2>2, <3>1, <3>2 DEF WriteObject, TypeOK
    <2>. QED
        BY <2>1, <2>2, StoreStep
<1>2. ASSUME NEW v \in Writers, pc'[v] \in Stamped
      PROVE  /\ run'[v].now <= clock'
             /\ \A k \in KeysOf(v[2]) : Log!NotBefore(run'[v].now, store'[k])
    <2>1. /\ clock \in Nat /\ clock' \in Nat /\ clock' >= clock
          /\ run[v].now \in Nat /\ run'[v].now \in Nat
        BY <1>0, ClockStep DEF TypeOK, RunTypeOK
    <2>2. CASE run'[v].now = clock /\ UNCHANGED <<clock, store>>
        <3>1. KeysOf(v[2]) \subseteq Keys
            BY KeysOfSubset DEF Writers
        <3>. QED
            BY <2>1, <2>2, <3>1 DEF TimesOrdered, Log!NotBefore
    <2>3. CASE pc[v] \in Stamped /\ run'[v].now = run[v].now
        <3>1. /\ run[v].now <= clock
              /\ \A k \in KeysOf(v[2]) : Log!NotBefore(run[v].now, store[k])
            BY <2>3 DEF PendingFresh, Stamped
        <3>2. CASE Unmoved(v)
            BY <2>1, <2>3, <3>1, <3>2
        <3>3. CASE pc[v] = "put" /\ WriteObject(v)
            <4>1. ASSUME NEW k \in KeysOf(v[2]) PROVE Log!NotBefore(run[v].now, store'[k])
                <5>1. k \in Keys
                    BY KeysOfSubset DEF Writers
                <5>2. CASE k = run[v].key
                    BY <3>3, <5>2, PutAppends
                <5>3. CASE k # run[v].key
                    <6>1. store'[k] = store[k]
                        BY <3>3, <5>1, <5>3 DEF WriteObject, TypeOK
                    <6>. QED
                        BY <3>1, <6>1
                <5>. QED
                    BY <5>2, <5>3
            <4>. QED
                BY <2>1, <2>3, <3>1, <4>1
        <3>. QED
            BY <1>1, <2>3, <3>2, <3>3 DEF Stamped
    <2>. QED
        BY <1>2, <2>2, <2>3, StampStep
<1>3. ASSUME NEW v \in Writers, pc'[v] = "put"
      PROVE  run'[v].recs = AppendStateChangeEvents(run'[v].now,
                              run'[v].ups[run'[v].key], store'[run'[v].key])
    <2>1. CASE pc[v] = "put" /\ run'[v] = run[v]
        <3>1. run[v].key \in KeysOf(v[2])
            BY <2>1 DEF TypeOK, RunTypeOK
        <3>2. store'[run[v].key] = store[run[v].key]
            BY <1>1, <1>3, <2>1, <3>1
        <3>. QED
            BY <2>1, <3>2 DEF PendingFresh
    <2>2. CASE ~(pc[v] = "put" /\ run'[v] = run[v])
        BY <1>3, <2>2, PutStep
    <2>. QED
        BY <2>1, <2>2
<1>. QED
    BY <1>2, <1>3 DEF PendingFresh, Stamped

(* With a single instance the time stamps of every history are in order,   *)
(* and a pending write is always up to date.                               *)
THEOREM TimesStayOrdered ==
    ASSUME SingleInstance PROVE Spec => [](TimesOrdered /\ PendingFresh)
<1>1. FreshInv /\ [Next]_vars => FreshInv'
    <2>. SUFFICES ASSUME FreshInv, [Next]_vars PROVE FreshInv'
        OBVIOUS
    <2>1. CASE UNCHANGED vars
        BY <2>1 DEF vars, FreshInv, TypeOK, RunTypeOK, TimesOrdered, PendingFresh
    <2>2. CASE Next
        <3>1. TypeOK'
            BY <2>2, EnvironmentType, ProgressType, FailureType DEF Next, FreshInv
        <3>. QED
            BY <2>2, <3>1, SingleAtWork, TimesOrderedStep, PendingFreshStep DEF FreshInv
    <2>. QED
        BY <2>1, <2>2
<1>2. FreshInv => TimesOrdered /\ PendingFresh
    BY DEF FreshInv
<1>. QED
    BY <1>1, <1>2, InitFresh, PTL DEF Spec

(* With a single instance no writer ever works on a stale read: until it   *)
(* has put it, what it is about to put is the append of its observation to *)
(* what the object holds.                                                  *)
THEOREM PendingStaysFresh ==
    ASSUME SingleInstance PROVE Spec => []PendingFresh
BY TimesStayOrdered, PTL

(* With a single instance the past of an observed resource is never        *)
(* rewritten, whatever fails and whenever the instance restarts.           *)
THEOREM HistoriesGrow ==
    ASSUME SingleInstance PROVE Spec => HistoriesOnlyGrow
<1>. DEFINE Grow == \A k \in Keys : \A r \in DOMAIN store[k] \cap DOMAIN store'[k] :
                       IsPrefix(store[k][r], store'[k][r])
<1>1. TypeOK /\ TimesOrdered /\ PendingFresh /\ [Next]_vars => [Grow]_vars
    <2>. SUFFICES ASSUME TypeOK, TimesOrdered, PendingFresh, Next PROVE Grow
        OBVIOUS
    <2>. SUFFICES ASSUME NEW k \in Keys, NEW r \in DOMAIN store[k] \cap DOMAIN store'[k]
                  PROVE  IsPrefix(store[k][r], store'[k][r])
        OBVIOUS
    <2>1. CASE store'[k] = store[k]
        <3>1. store[k][r] \in Seq(UpEvent)
            BY DEF TypeOK, IsMapTo
        <3>. QED
            BY <2>1, <3>1 DEF IsPrefix
    <2>2. ASSUME NEW w \in Writers, pc[w] = "put", WriteObject(w), k = run[w].key
          PROVE  IsPrefix(store[k][r], store'[k][r])
        BY <2>2, PutAppends
    <2>. QED
        BY <2>1, <2>2, StoreStep DEF WriteObject, TypeOK
<1>. QED
    BY <1>1, TypeCorrect, TimesStayOrdered, PTL DEF Spec, HistoriesOnlyGrow

(* As long as pending writes are fresh, a put of an object is a step of    *)
(* the log, and every other step leaves the log alone.                     *)
LEMMA LogStep ==
    ASSUME TypeOK, TimesOrdered, PendingFresh, [Next]_vars
    PROVE  [Log!Next]_store
<1>1. ASSUME NEW t, NEW ups, NEW events
      PROVE  Log!AppendStateChangeEvents(t, ups, events)
               = AppendStateChangeEvents(t, ups, events)
    BY DEF Log!AppendStateChangeEvents, AppendStateChangeEvents,
           Log!HistoryOf, HistoryOf, Log!AppendUpEvent, AppendUpEvent,
           Log!SameCondition, SameCondition, Log!EventOf, EventOf, Log!Up, Up,
           Log!RoundToEven, RoundToEven
<1>. SUFFICES ASSUME Next, store' # store PROVE Log!Next
    BY DEF vars
<1>2. PICK w \in Writers : pc[w] = "put" /\ WriteObject(w)
    BY StoreStep
<1>. DEFINE k == run[w].key
            t == run[w].now
            ups == run[w].ups[k]
<1>3. /\ k \in Keys /\ t \in Nat /\ t <= clock
      /\ IsMapTo(ups, Upnesses[k])
      /\ Log!NotBefore(t, store[k])
      /\ store' = [store EXCEPT ![k] = AppendStateChangeEvents(t, ups, store[k])]
    BY <1>2, PutAppends
<1>. HIDE DEF k, t, ups
<1>4. Log!Record(k, t, ups)
    BY <1>1, <1>3 DEF Log!Record
<1>5. t \in 0..MaxTime
    BY <1>3, EventLogAssumption DEF TypeOK
<1>6. ups \in MapsTo(Upnesses[k])
    BY <1>3 DEF IsMapTo, MapsTo
<1>. QED
    BY <1>3, <1>4, <1>5, <1>6 DEF Log!Next

(* With a single instance the observers, the Event Log and the bucket      *)
(* together implement the log of StateChangeLog.                           *)
THEOREM LogImplemented ==
    ASSUME SingleInstance PROVE Spec => ImplementsLog
<1>1. Init => Log!Init
    BY DEF Init, Log!Init, EmptyMap
<1>. QED
    BY <1>1, LogStep, TypeCorrect, TimesStayOrdered, PTL
    DEF Spec, ImplementsLog, Log!Spec

-----------------------------------------------------------------------------
(* A single instance without slices: the log of a resting reconciler.      *)

(* After an append the log says of each resource what was observed.        *)
LEMMA AppendAgrees ==
    ASSUME NEW now \in Nat, NEW k \in Keys, NEW ups, NEW events,
           IsMapTo(ups, Upnesses[k]), IsMapTo(events, Seq(UpEvent))
    PROVE  Agrees(AppendStateChangeEvents(now, ups, events), ups)
<1>. DEFINE recs == AppendStateChangeEvents(now, ups, events)
<1>1. DOMAIN recs = DOMAIN ups
    BY AppendStateChangeEventsType
<1>2. ASSUME NEW r \in DOMAIN ups
      PROVE  SameCondition(recs[r][Len(recs[r])], EventOf(ups[r], 0))
    <2>1. /\ EventOf(ups[r], now) \in UpEvent
          /\ HistoryOf(events, r) \in Seq(UpEvent)
          /\ recs[r] = AppendUpEvent(HistoryOf(events, r), EventOf(ups[r], now))
        BY AppendStateChangeEventsType
    <2>. HIDE DEF recs
    <2>2. SameCondition(recs[r][Len(recs[r])], EventOf(ups[r], now))
        BY <2>1, AppendUpEventExtends
    <2>. QED
        BY <2>2 DEF SameCondition, EventOf
<1>. HIDE DEF recs
<1>3. Agrees(recs, ups)
    BY <1>1, <1>2 DEF Agrees
<1>. QED
    BY <1>3 DEF recs

(* How far the reconciler of instance i has got.  Unless a request is      *)
(* queued, what it listed is still true, and the keys it is done with      *)
(* agree with it.                                                          *)
ReconcileOK(i) ==
    LET w == <<i, "workload">>
        current(k) == Agrees(store[k], cluster[k])
    IN  /\ pc[w] # "stamp"
        /\ ~dirty[i] =>
             /\ pc[w] = "idle" => \A k \in KeysOf("workload") : current(k)
             /\ pc[w] \in {"update", "get", "put"} =>
                  \A k \in KeysOf("workload") : run[w].ups[k] = cluster[k]
             /\ pc[w] = "get" => \A k \in KeysOf("workload") \ run[w].todo : current(k)
             /\ pc[w] = "put" =>
                  /\ \A k \in KeysOf("workload") \ (run[w].todo \cup {run[w].key}) : current(k)
                  /\ Agrees(run[w].recs, cluster[run[w].key])

(* A change of a watched object, and a restart, queue a request.           *)
LEMMA ReconcileEnvironment ==
    ASSUME SingleInstance, ~SliceEnabled, TypeOK, NEW i \in Instances,
           ReconcileOK(i), Environment
    PROVE  ReconcileOK(i)'
<1>. DEFINE w == <<i, "workload">>
<1>0. w \in Writers
    BY DEF Writers, Observers
<1>1. CASE Tick
    BY <1>1 DEF Tick, ReconcileOK
<1>2. ASSUME NEW kind \in ObjectKinds,
             /\ Notify(kind) /\ UNCHANGED <<clock, store, observed, pc, run>>
             /\ \A k \in Keys \ kind : cluster'[k] = cluster[k]
      PROVE  ReconcileOK(i)'
    <2>1. CASE kind = {"node-pools"}
        <3>1. dirty' = dirty /\ \A k \in KeysOf("workload") : cluster'[k] = cluster[k]
            BY <1>2, <2>1 DEF Notify, KeysOf
        <3>2. pc[w] = "put" => run[w].key \in KeysOf("workload")
            BY <1>0 DEF TypeOK, RunTypeOK
        <3>. QED
            BY <1>2, <3>1, <3>2 DEF ReconcileOK
    <2>2. CASE kind # {"node-pools"}
        <3>1. dirty'[i] = TRUE
            BY <1>2, <2>2 DEF Notify
        <3>. QED
            BY <1>2, <3>1 DEF ReconcileOK
    <2>. QED
        BY <2>1, <2>2
<1>3. ASSUME NEW kind \in ObjectKinds, NEW r \in Resources, NEW up,
             ObjectChanges(kind, r, up) \/ ObjectDeleted(kind, r)
      PROVE  ReconcileOK(i)'
    BY <1>2, <1>3 DEF ObjectChanges, ObjectDeleted
<1>4. ASSUME NEW j \in Instances, Restart(j) PROVE ReconcileOK(i)'
    <2>1. j = i
        BY DEF SingleInstance
    <2>2. dirty'[i] = TRUE /\ pc'[w] = "idle"
        BY <1>0, <1>4, <2>1 DEF Restart, WatchEnqueues, TypeOK
    <2>. QED
        BY <2>2 DEF ReconcileOK
<1>. QED
    BY <1>1, <1>3, <1>4 DEF Environment, World

(* The polling loop writes no key of the reconciler.                       *)
LEMMA ReconcilePoller ==
    ASSUME TypeOK, NEW i \in Instances, ReconcileOK(i),
           Progress(<<i, "poller">>) \/ Failure(<<i, "poller">>)
    PROVE  ReconcileOK(i)'
<1>. DEFINE w == <<i, "workload">>
            p == <<i, "poller">>
<1>0. w \in Writers /\ p \in Writers /\ p # w /\ p[2] = "poller" /\ p[1] = i
    BY DEF Writers, Observers
<1>. HIDE DEF w, p
<1>. USE DEF Progress, StartReconcile, ListWorkloads, PollResources, StampPoll,
             UpdateObserved, GetRecords, PutRecords, Failure, ListFails, GetFails, PutFails
<1>1. pc'[w] = pc[w] /\ run'[w] = run[w]
    BY <1>0 DEF p, ReturnError, Return, Goto, TypeOK
<1>2. cluster' = cluster /\ dirty' = dirty
    BY <1>0 DEF p, ReturnError
<1>3. ASSUME NEW k \in KeysOf("workload") PROVE store'[k] = store[k]
    <2>1. k \in Keys /\ k \notin KeysOf("poller")
        BY KeysOfSubset DEF KeysOf, Observers
    <2>2. UNCHANGED store \/ (pc[p] = "put" /\ WriteObject(p))
        BY DEF p
    <2>3. pc[p] = "put" => run[p].key \in KeysOf("poller")
        BY <1>0 DEF TypeOK, RunTypeOK
    <2>. QED
        BY <2>1, <2>2, <2>3 DEF WriteObject, TypeOK
<1>4. pc[w] = "put" => run[w].key \in KeysOf("workload")
    BY <1>0 DEF TypeOK, RunTypeOK, w
<1>. QED
    BY <1>1, <1>2, <1>3, <1>4 DEF ReconcileOK, w

(* The reconciler itself: it rests only when every key is done, or when it *)
(* has failed and its request is queued again.                             *)
LEMMA ReconcileWorkload ==
    ASSUME TypeOK, NEW i \in Instances, ReconcileOK(i),
           Progress(<<i, "workload">>) \/ Failure(<<i, "workload">>)
    PROVE  ReconcileOK(i)'
<1>. DEFINE w == <<i, "workload">>
            K == KeysOf("workload")
<1>0. w \in Writers /\ w[1] = i /\ w[2] = "workload" /\ K \subseteq Keys
    BY KeysOfSubset DEF Writers, Observers
<1>1. /\ pc[w] # "stamp"
      /\ ~dirty[i] =>
           /\ pc[w] = "idle" => \A k \in K : Agrees(store[k], cluster[k])
           /\ pc[w] \in {"update", "get", "put"} => \A k \in K : run[w].ups[k] = cluster[k]
           /\ pc[w] = "get" => \A k \in K \ run[w].todo : Agrees(store[k], cluster[k])
           /\ pc[w] = "put" =>
                /\ \A k \in K \ (run[w].todo \cup {run[w].key}) : Agrees(store[k], cluster[k])
                /\ Agrees(run[w].recs, cluster[run[w].key])
    BY DEF ReconcileOK
<1>2. RunTypeOK(w) /\ w \in DOMAIN run /\ w \in DOMAIN pc /\ i \in DOMAIN dirty
    BY <1>0 DEF TypeOK
<1>. SUFFICES
       /\ pc'[w] # "stamp"
       /\ ~dirty'[i] =>
            /\ pc'[w] = "idle" => \A k \in K : Agrees(store'[k], cluster'[k])
            /\ pc'[w] \in {"update", "get", "put"} => \A k \in K : run'[w].ups[k] = cluster'[k]
            /\ pc'[w] = "get" => \A k \in K \ run'[w].todo : Agrees(store'[k], cluster'[k])
            /\ pc'[w] = "put" =>
                 /\ \A k \in K \ (run'[w].todo \cup {run'[w].key}) : Agrees(store'[k], cluster'[k])
                 /\ Agrees(run'[w].recs, cluster'[run'[w].key])
    BY DEF ReconcileOK
<1>. HIDE DEF w, K
<1>3. CASE Failure(w)
    BY <1>0, <1>2, <1>3
    DEF Failure, ListFails, GetFails, PutFails, ReturnError, Return, Goto
<1>4. CASE StartReconcile(w)
    BY <1>0, <1>2, <1>4 DEF StartReconcile, Goto
<1>5. CASE ListWorkloads(w)
    <2>1. /\ pc'[w] = "update" /\ run'[w].ups = List(w)
          /\ UNCHANGED cluster
        BY <1>0, <1>2, <1>5 DEF ListWorkloads, Goto, RunTypeOK
    <2>. QED
        BY <1>0, <2>1 DEF List, K
<1>6. CASE PollResources(w) \/ StampPoll(w)
    BY <1>0, <1>1, <1>6 DEF PollResources, StampPoll
<1>7. CASE UpdateObserved(w)
    <2>1. /\ pc[w] = "update" /\ pc'[w] = "get" /\ run'[w].todo = K
          /\ run'[w].ups = run[w].ups /\ UNCHANGED <<cluster, dirty>>
        BY <1>0, <1>2, <1>7 DEF UpdateObserved, Goto, RunTypeOK, K
    <2>. QED
        BY <1>1, <2>1
<1>8. ASSUME NEW k \in Keys, GetRecords(w, k)
      PROVE  /\ pc'[w] # "stamp"
             /\ ~dirty'[i] =>
                  /\ pc'[w] = "idle" => \A x \in K : Agrees(store'[x], cluster'[x])
                  /\ pc'[w] \in {"update", "get", "put"} =>
                       \A x \in K : run'[w].ups[x] = cluster'[x]
                  /\ pc'[w] = "get" =>
                       \A x \in K \ run'[w].todo : Agrees(store'[x], cluster'[x])
                  /\ pc'[w] = "put" =>
                       /\ \A x \in K \ (run'[w].todo \cup {run'[w].key}) :
                            Agrees(store'[x], cluster'[x])
                       /\ Agrees(run'[w].recs, cluster'[run'[w].key])
    <2>. DEFINE recs == AppendStateChangeEvents(run[w].now, run[w].ups[k], store[k])
                todo == run[w].todo \ {k}
    <2>1. pc[w] = "get" /\ k \in run[w].todo /\ UNCHANGED <<store, cluster, dirty>>
        BY <1>8 DEF GetRecords
    <2>2. k \in K /\ Agrees(recs, run[w].ups[k])
        <3>1. k \in K
            BY <1>0, <1>2, <2>1 DEF RunTypeOK, K
        <3>2. /\ run[w].now \in Nat /\ IsMapTo(run[w].ups[k], Upnesses[k])
              /\ IsMapTo(store[k], Seq(UpEvent))
            BY <1>0, <1>2, <2>1, <3>1 DEF RunTypeOK, TypeOK, K
        <3>. QED
            BY <3>1, <3>2, AppendAgrees
    <2>3. \/ recs # store[k] /\ pc'[w] = "put"
             /\ run' = [run EXCEPT ![w].recs = recs, ![w].key = k, ![w].todo = todo]
          \/ recs = store[k] /\ todo # {} /\ pc'[w] = "get"
             /\ run' = [run EXCEPT ![w].todo = todo]
          \/ recs = store[k] /\ todo = {} /\ pc'[w] = "idle"
        BY <1>2, <1>8, <2>1 DEF GetRecords, Return, Goto
    <2>. HIDE DEF recs
    <2>4. CASE /\ recs # store[k] /\ pc'[w] = "put"
               /\ run' = [run EXCEPT ![w].recs = recs, ![w].key = k, ![w].todo = todo]
        <3>1. /\ run'[w].recs = recs /\ run'[w].key = k /\ run'[w].todo = todo
              /\ run'[w].ups = run[w].ups
            BY <1>2, <2>4 DEF RunTypeOK
        <3>2. run'[w].todo \cup {run'[w].key} = run[w].todo
            BY <2>1, <3>1
        <3>. QED
            BY <1>1, <2>1, <2>2, <2>4, <3>1, <3>2, ZenonT(40)
    <2>5. CASE /\ recs = store[k] /\ todo # {} /\ pc'[w] = "get"
               /\ run' = [run EXCEPT ![w].todo = todo]
        <3>1. run'[w].todo = todo /\ run'[w].ups = run[w].ups
            BY <1>2, <2>5 DEF RunTypeOK
        <3>. QED
            BY <1>1, <2>1, <2>2, <2>5, <3>1
    <2>6. CASE recs = store[k] /\ todo = {} /\ pc'[w] = "idle"
        BY <1>1, <2>1, <2>2, <2>6
    <2>. QED
        BY <2>3, <2>4, <2>5, <2>6
<1>9. CASE PutRecords(w)
    <2>. DEFINE k == run[w].key
    <2>1. /\ pc[w] = "put" /\ WriteObject(w) /\ UNCHANGED <<cluster, dirty>>
          /\ k \in K /\ k \in Keys
        BY <1>0, <1>2, <1>9 DEF PutRecords, RunTypeOK, K
    <2>2. /\ store'[k] = run[w].recs
          /\ \A x \in K \ {k} : store'[x] = store[x]
        BY <1>0, <2>1 DEF WriteObject, TypeOK
    <2>3. ASSUME ~dirty[i], NEW x \in K \ run[w].todo PROVE Agrees(store'[x], cluster[x])
        BY <1>1, <2>1, <2>2, <2>3
    <2>4. CASE run[w].todo = {}
        <3>1. pc'[w] = "idle"
            BY <1>2, <1>9, <2>4 DEF PutRecords, Return, Goto
        <3>. QED
            BY <2>1, <2>3, <2>4, <3>1
    <2>5. CASE run[w].todo # {}
        <3>1. /\ pc'[w] = "get" /\ run'[w].todo = run[w].todo
              /\ run'[w].ups = run[w].ups
            BY <1>2, <1>9, <2>5 DEF PutRecords, Goto, RunTypeOK
        <3>. QED
            BY <1>1, <2>1, <2>3, <3>1
    <2>. QED
        BY <2>4, <2>5
<1>. QED
    BY <1>3, <1>4, <1>5, <1>6, <1>7, <1>8, <1>9 DEF Progress, w

(* With a single instance and without slices, the log agrees with the      *)
(* cluster whenever the reconciler rests with nothing queued, whatever     *)
(* failed and whenever the instance was restarted.                         *)
THEOREM RestingLogStaysCurrent ==
    ASSUME SingleInstance, ~SliceEnabled PROVE Spec => []RestingLogIsCurrent
<1>. DEFINE Inv == \A i \in Instances : ReconcileOK(i)
<1>1. Init => Inv
    BY DEF Init, ReconcileOK, Writers, Observers
<1>2. TypeOK /\ Inv /\ [Next]_vars => Inv'
    <2>. SUFFICES ASSUME TypeOK, Inv, [Next]_vars, NEW i \in Instances
                  PROVE  ReconcileOK(i)'
        OBVIOUS
    <2>1. CASE UNCHANGED vars
        BY <2>1 DEF vars, ReconcileOK
    <2>2. CASE Environment
        BY <2>2, ReconcileEnvironment
    <2>3. ASSUME NEW w \in Writers, Progress(w) \/ Failure(w) PROVE ReconcileOK(i)'
        <3>1. w = <<i, "workload">> \/ w = <<i, "poller">>
            BY DEF SingleInstance, Writers, Observers
        <3>. QED
            BY <2>3, <3>1, ReconcilePoller, ReconcileWorkload
    <2>. QED
        BY <2>1, <2>2, <2>3 DEF Next
<1>3. Inv => RestingLogIsCurrent
    BY DEF ReconcileOK, RestingLogIsCurrent
<1>. QED
    BY <1>1, <1>2, <1>3, TypeCorrect, PTL DEF Spec

-----------------------------------------------------------------------------
(* The observed store.                                                     *)

(* Unless a request is queued, what the reconciler of instance i listed is *)
(* still true, and from the update on it is what the store holds.          *)
ViewOK(i) ==
    LET w == <<i, "workload">>
    IN  /\ pc[w] # "stamp"
        /\ ~dirty[i] =>
             /\ pc[w] \in {"update", "get", "put"} =>
                  \A k \in KeysOf("workload") : run[w].ups[k] = cluster[k]
             /\ pc[w] \in {"idle", "get", "put"} =>
                  \A k \in KeysOf("workload") :
                      k \in DOMAIN observed[i] /\ observed[i][k] = cluster[k]

(* The world and the restart of some instance.                             *)
LEMMA ViewEnvironment ==
    ASSUME ~SliceEnabled, TypeOK, NEW i \in Instances, ViewOK(i), Environment
    PROVE  ViewOK(i)'
<1>. DEFINE w == <<i, "workload">>
<1>0. w \in Writers /\ w[1] = i
    BY DEF Writers, Observers
<1>1. CASE Tick
    BY <1>1 DEF Tick, ViewOK
<1>2. ASSUME NEW kind \in ObjectKinds,
             /\ Notify(kind) /\ UNCHANGED <<clock, store, observed, pc, run>>
             /\ \A k \in Keys \ kind : cluster'[k] = cluster[k]
      PROVE  ViewOK(i)'
    <2>1. CASE kind = {"node-pools"}
        <3>1. dirty' = dirty /\ \A k \in KeysOf("workload") : cluster'[k] = cluster[k]
            BY <1>2, <2>1 DEF Notify, KeysOf
        <3>. QED
            BY <1>2, <3>1 DEF ViewOK
    <2>2. CASE kind # {"node-pools"}
        <3>1. dirty'[i] = TRUE
            BY <1>2, <2>2 DEF Notify
        <3>. QED
            BY <1>2, <3>1 DEF ViewOK
    <2>. QED
        BY <2>1, <2>2
<1>3. ASSUME NEW kind \in ObjectKinds, NEW r \in Resources, NEW up,
             ObjectChanges(kind, r, up) \/ ObjectDeleted(kind, r)
      PROVE  ViewOK(i)'
    BY <1>2, <1>3 DEF ObjectChanges, ObjectDeleted
<1>4. ASSUME NEW j \in Instances, Restart(j) PROVE ViewOK(i)'
    <2>1. CASE j = i
        <3>1. dirty'[i] = TRUE /\ pc'[w] = "idle"
            BY <1>0, <1>4, <2>1 DEF Restart, WatchEnqueues, TypeOK
        <3>. QED
            BY <3>1 DEF ViewOK
    <2>2. CASE j # i
        <3>1. /\ pc'[w] = pc[w] /\ run'[w] = run[w] /\ dirty'[i] = dirty[i]
              /\ observed'[i] = observed[i] /\ cluster' = cluster
            <4>. HIDE DEF w
            <4>. QED
                BY <1>0, <1>4, <2>2 DEF Restart, TypeOK
        <3>. QED
            BY <3>1 DEF ViewOK
    <2>. QED
        BY <2>1, <2>2
<1>. QED
    BY <1>1, <1>3, <1>4 DEF Environment, World

(* Another writer: one of another instance, or the polling loop, whose     *)
(* update leaves the other keys of the store alone.                        *)
LEMMA ViewOther ==
    ASSUME TypeOK, NEW i \in Instances, ViewOK(i), NEW v \in Writers, v # <<i, "workload">>,
           Progress(v) \/ Failure(v)
    PROVE  ViewOK(i)'
<1>. DEFINE w == <<i, "workload">>
<1>0. /\ w \in Writers /\ v # w /\ v[1] \in Instances /\ v[2] \in Observers
      /\ v[1] = i => v[2] = "poller"
    BY DEF Writers, Observers
<1>. HIDE DEF w
<1>. USE DEF Progress, StartReconcile, ListWorkloads, PollResources, StampPoll,
             UpdateObserved, GetRecords, PutRecords, Failure, ListFails, GetFails, PutFails
<1>1. pc'[w] = pc[w] /\ run'[w] = run[w] /\ cluster' = cluster
    BY <1>0 DEF ReturnError, Return, Goto, TypeOK
<1>2. dirty'[i] = dirty[i]
    BY <1>0 DEF ReturnError, TypeOK
<1>3. ASSUME NEW k \in KeysOf("workload"), k \in DOMAIN observed[i]
      PROVE  k \in DOMAIN observed'[i] /\ observed'[i][k] = observed[i][k]
    <2>1. CASE UNCHANGED observed
        BY <1>3, <2>1
    <2>2. CASE UpdateObserved(v)
        <3>1. CASE v[1] # i
            BY <1>0, <1>3, <2>2, <3>1 DEF TypeOK
        <3>2. CASE v[1] = i
            <4>1. k \notin DOMAIN run[v].ups
                <5>1. DOMAIN run[v].ups = KeysOf("poller")
                    BY <1>0, <2>2, <3>2 DEF TypeOK, RunTypeOK
                <5>. QED
                    BY <5>1 DEF KeysOf
            <4>2. observed'[i] = [x \in DOMAIN observed[i] \cup DOMAIN run[v].ups |->
                    IF x \in DOMAIN run[v].ups THEN run[v].ups[x] ELSE observed[i][x]]
                BY <2>2, <3>2 DEF TypeOK
            <4>. QED
                BY <1>3, <4>1, <4>2
        <3>. QED
            BY <3>1, <3>2
    <2>. QED
        BY <2>1, <2>2
<1>. QED
    BY <1>1, <1>2, <1>3 DEF ViewOK, w

(* The reconciler itself.                                                  *)
LEMMA ViewWorkload ==
    ASSUME TypeOK, NEW i \in Instances, ViewOK(i),
           Progress(<<i, "workload">>) \/ Failure(<<i, "workload">>)
    PROVE  ViewOK(i)'
<1>. DEFINE w == <<i, "workload">>
            K == KeysOf("workload")
<1>0. w \in Writers /\ w[1] = i /\ w[2] = "workload" /\ K \subseteq Keys
    BY KeysOfSubset DEF Writers, Observers
<1>1. /\ pc[w] # "stamp"
      /\ ~dirty[i] =>
           /\ pc[w] \in {"update", "get", "put"} => \A k \in K : run[w].ups[k] = cluster[k]
           /\ pc[w] \in {"idle", "get", "put"} =>
                \A k \in K : k \in DOMAIN observed[i] /\ observed[i][k] = cluster[k]
    BY DEF ViewOK
<1>2. RunTypeOK(w) /\ w \in DOMAIN run /\ w \in DOMAIN pc /\ i \in DOMAIN dirty
    BY <1>0 DEF TypeOK
<1>. SUFFICES
       /\ pc'[w] # "stamp"
       /\ ~dirty'[i] =>
            /\ pc'[w] \in {"update", "get", "put"} => \A k \in K : run'[w].ups[k] = cluster'[k]
            /\ pc'[w] \in {"idle", "get", "put"} =>
                 \A k \in K : k \in DOMAIN observed'[i] /\ observed'[i][k] = cluster'[k]
    BY DEF ViewOK
<1>. HIDE DEF w, K
<1>3. CASE Failure(w)
    BY <1>0, <1>2, <1>3
    DEF Failure, ListFails, GetFails, PutFails, ReturnError, Return, Goto
<1>4. CASE StartReconcile(w)
    BY <1>0, <1>2, <1>4 DEF StartReconcile, Goto
<1>5. CASE ListWorkloads(w)
    <2>1. pc'[w] = "update" /\ run'[w].ups = List(w) /\ UNCHANGED cluster
        BY <1>0, <1>2, <1>5 DEF ListWorkloads, Goto, RunTypeOK
    <2>. QED
        BY <1>0, <2>1 DEF List, K
<1>6. CASE PollResources(w) \/ StampPoll(w)
    BY <1>0, <1>1, <1>6 DEF PollResources, StampPoll
<1>7. CASE UpdateObserved(w)
    <2>1. /\ pc[w] = "update" /\ pc'[w] = "get" /\ run'[w].ups = run[w].ups
          /\ UNCHANGED <<cluster, dirty>>
        BY <1>0, <1>2, <1>7 DEF UpdateObserved, Goto, RunTypeOK
    <2>2. DOMAIN run[w].ups = K
        BY <1>0, <1>2, <2>1 DEF RunTypeOK, K
    <2>3. observed'[i] = [x \in DOMAIN observed[i] \cup DOMAIN run[w].ups |->
            IF x \in DOMAIN run[w].ups THEN run[w].ups[x] ELSE observed[i][x]]
        BY <1>0, <1>7 DEF UpdateObserved, TypeOK
    <2>4. \A k \in K : k \in DOMAIN observed'[i] /\ observed'[i][k] = run[w].ups[k]
        BY <2>2, <2>3
    <2>. QED
        BY <1>1, <2>1, <2>4
<1>8. ASSUME NEW k \in Keys, GetRecords(w, k)
      PROVE  /\ pc[w] = "get" /\ pc'[w] \in {"idle", "get", "put"}
             /\ pc'[w] # "idle" => run'[w].ups = run[w].ups
             /\ UNCHANGED <<cluster, dirty, observed>>
    BY <1>0, <1>2, <1>8 DEF GetRecords, Return, Goto, RunTypeOK
<1>9. ASSUME PutRecords(w)
      PROVE  /\ pc[w] = "put" /\ pc'[w] \in {"idle", "get"}
             /\ pc'[w] # "idle" => run'[w].ups = run[w].ups
             /\ UNCHANGED <<cluster, dirty, observed>>
    BY <1>0, <1>2, <1>9 DEF PutRecords, Return, Goto, RunTypeOK
<1>10. CASE (\E k \in Keys : GetRecords(w, k)) \/ PutRecords(w)
    BY <1>1, <1>8, <1>9, <1>10
<1>. QED
    BY <1>3, <1>4, <1>5, <1>6, <1>7, <1>10 DEF Progress, w

(* Without slices, the observed store of every instance is what the        *)
(* cluster shows whenever its reconciler rests with nothing queued, also   *)
(* while instances overlap.                                                *)
THEOREM RestingViewStaysCurrent ==
    ASSUME ~SliceEnabled PROVE Spec => []RestingViewIsCurrent
<1>. DEFINE Inv == \A i \in Instances : ViewOK(i)
<1>1. Init => Inv
    BY DEF Init, ViewOK, Writers, Observers
<1>2. TypeOK /\ Inv /\ [Next]_vars => Inv'
    <2>. SUFFICES ASSUME TypeOK, Inv, [Next]_vars, NEW i \in Instances
                  PROVE  ViewOK(i)'
        OBVIOUS
    <2>1. CASE UNCHANGED vars
        BY <2>1 DEF vars, ViewOK
    <2>2. CASE Environment
        BY <2>2, ViewEnvironment
    <2>3. ASSUME NEW w \in Writers, Progress(w) \/ Failure(w) PROVE ViewOK(i)'
        BY <2>3, ViewOther, ViewWorkload
    <2>. QED
        BY <2>1, <2>2, <2>3 DEF Next
<1>3. Inv => RestingViewIsCurrent
    BY DEF ViewOK, RestingViewIsCurrent
<1>. QED
    BY <1>1, <1>2, <1>3, TypeCorrect, PTL DEF Spec
=============================================================================
