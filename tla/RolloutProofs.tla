---------------------------- MODULE RolloutProofs ---------------------------
(***************************************************************************)
(* Proofs about Rollout, for every set of resources, every configuration   *)
(* and all bounds: what is proved of the writers of EventLog holds during  *)
(* a rolling update too, and with leader election, as long as no holder of *)
(* the lease is stalled, overlapping processes lose no update.             *)
(***************************************************************************)
EXTENDS Rollout, EventLogProofs

-----------------------------------------------------------------------------
(* The writers during a rolling update are writers of EventLog.            *)

(* Every step is one of EventLog: what starts or ends a process restarts   *)
(* its instance, everything else a process does leaves the writers alone.  *)
LEMMA RolloutStep ==
    ASSUME [RolloutNext]_allVars PROVE [Next]_vars
<1>1. CASE UNCHANGED allVars
    BY <1>1 DEF allVars
<1>2. CASE World /\ UNCHANGED podVars
    BY <1>2 DEF Next, Environment
<1>3. ASSUME NEW w \in Writers, WriterProgress(w) \/ WriterFails(w) PROVE Next
    BY <1>3 DEF Next, WriterProgress, WriterFails
<1>4. ASSUME NEW i \in Instances, ProcessStep(i) \/ Crash(i) PROVE [Next]_vars
    <2>1. CASE StartRunnables(i) \/ Exit(i) \/ Crash(i)
        <3>1. Restart(i)
            BY <2>1 DEF StartRunnables, Exit, Crash, Gone
        <3>. QED
            BY <3>1 DEF Next, Environment
    <2>2. CASE ~(StartRunnables(i) \/ Exit(i) \/ Crash(i))
        BY <1>4, <2>2 DEF ProcessStep, StartManager, ListenAndServe, AggregationTick,
                          ManagerReturns, LoseLease, Shutdown, ContainerRestarts
    <2>. QED
        BY <2>1, <2>2
<1>5. CASE CreatePod \/ TerminatePod \/ LeaseExpires \/ Stall
    BY <1>5 DEF CreatePod, TerminatePod, LeaseExpires, Stall
<1>. QED
    BY <1>1, <1>2, <1>3, <1>4, <1>5 DEF RolloutNext

(* Whatever processes do during a rolling update, the observers and the    *)
(* bucket behave as EventLog says.                                         *)
THEOREM RolloutIsEventLog == RolloutSpec => Spec
<1>1. RolloutInit => Init
    BY DEF RolloutInit
<1>. QED
    BY <1>1, RolloutStep, PTL DEF RolloutSpec, Spec

(* A rolling update, however processes overlap and crash, never leaves a   *)
(* malformed history in the bucket.                                        *)
THEOREM RolloutKeepsWellFormed == RolloutSpec => []HistoriesWellFormed
BY RolloutIsEventLog, HistoriesStayWellFormed, PTL

-----------------------------------------------------------------------------
(* Processes.                                                              *)

(* A process has its metrics server from the start of the manager until it *)
(* ends, and every state of the rollout is well typed.                     *)
THEOREM RolloutTypeCorrect == RolloutSpec => []RolloutTypeOK
<1>. USE DEF Phases
<1>1. RolloutInit => RolloutTypeOK
    BY RolloutAssumption DEF RolloutInit, RolloutTypeOK
<1>2. RolloutTypeOK /\ [RolloutNext]_allVars => RolloutTypeOK'
    <2>. SUFFICES ASSUME RolloutTypeOK, [RolloutNext]_allVars PROVE RolloutTypeOK'
        OBVIOUS
    <2>1. CASE UNCHANGED podVars
        BY <2>1 DEF podVars, RolloutTypeOK
    <2>2. ASSUME NEW i \in Instances,
                 StartManager(i) \/ StartRunnables(i) \/ ManagerReturns(i)
                   \/ LoseLease(i) \/ ContainerRestarts(i)
          PROVE  RolloutTypeOK'
        BY <2>2 DEF StartManager, StartRunnables, ManagerReturns, LoseLease,
                    ContainerRestarts, Enter, RolloutTypeOK
    <2>3. ASSUME NEW i \in Instances, ListenAndServe(i) \/ Shutdown(i)
          PROVE  RolloutTypeOK'
        BY <2>3 DEF ListenAndServe, Shutdown, Enter, RolloutTypeOK
    <2>4. ASSUME NEW i \in Instances, AggregationTick(i) PROVE RolloutTypeOK'
        BY <2>4 DEF AggregationTick, RolloutTypeOK
    <2>5. ASSUME NEW i \in Instances, Exit(i) \/ Crash(i) PROVE RolloutTypeOK'
        <3>1. /\ Gone(i) /\ UNCHANGED <<election, told, lease, stalls>>
              /\ crashes' \in Nat
            BY <2>5 DEF Exit, Crash, RolloutTypeOK
        <3>. QED
            BY <3>1 DEF Gone, Enter, RolloutTypeOK
    <2>6. CASE CreatePod
        BY <2>6, RolloutAssumption DEF CreatePod, Enter, RolloutTypeOK
    <2>7. CASE TerminatePod
        BY <2>7, RolloutAssumption DEF TerminatePod, RolloutTypeOK
    <2>8. CASE LeaseExpires \/ Stall
        BY <2>8 DEF LeaseExpires, Stall, RolloutTypeOK
    <2>. QED
        BY <2>1, <2>2, <2>3, <2>4, <2>5, <2>6, <2>7, <2>8
        DEF RolloutNext, ProcessStep, WriterProgress, WriterFails, allVars
<1>. QED
    BY <1>1, <1>2, PTL DEF RolloutSpec

-----------------------------------------------------------------------------
(* Leader election.                                                        *)

Elected == election /\ stalls = 0

(* What the lease achieves: only its holder runs, and only a process that  *)
(* runs has a writer at work.                                              *)
LeaderAlone ==
    /\ \A i \in Instances : phase[i] = "running" => lease = i
    /\ \A w \in Writers : pc[w] # "idle" => phase[w[1]] = "running"

LeaderInv == Elected => LeaderAlone /\ TimesOrdered /\ PendingFresh

(* Without a stall, a step leaves the lease with the only process at work: *)
(* a process starts only when nobody holds the lease, keeps it while it    *)
(* runs, and has no writer at work when it stops running.                  *)
LEMMA LeaderStep ==
    ASSUME TypeOK, RolloutTypeOK, LeaderInv, RolloutNext, Elected'
    PROVE  Elected /\ LeaderAlone'
<1>. USE DEF Elected, LeaderInv
<1>0. Elected
    <2>1. CASE Stall
        BY <2>1 DEF Stall, RolloutTypeOK
    <2>2. CASE ~Stall
        <3>1. UNCHANGED <<election, stalls>>
            BY <2>2 DEF RolloutNext, WriterProgress, WriterFails, ProcessStep, podVars,
                   StartManager, StartRunnables, ListenAndServe, AggregationTick,
                   ManagerReturns, LoseLease, Shutdown, Exit, Crash, ContainerRestarts,
                   CreatePod, TerminatePod, LeaseExpires
        <3>. QED
            BY <3>1
    <2>. QED
        BY <2>1, <2>2
<1>. LeaderAlone
    BY <1>0
<1>1. ASSUME World, UNCHANGED podVars PROVE LeaderAlone'
    BY <1>1 DEF World, Tick, ObjectChanges, ObjectDeleted, podVars, LeaderAlone
<1>2. ASSUME NEW w \in Writers, WriterProgress(w) \/ WriterFails(w) PROVE LeaderAlone'
    <2>1. phase[w[1]] = "running" /\ UNCHANGED podVars
        BY <1>2 DEF WriterProgress, WriterFails, Acts, LeaderAlone
    <2>2. ASSUME NEW v \in Writers, v # w PROVE pc'[v] = pc[v]
        BY <1>2, <2>2
        DEF WriterProgress, WriterFails, Progress, StartReconcile, ListWorkloads,
            PollResources, StampPoll, UpdateObserved, GetRecords, PutRecords, Failure,
            ListFails, GetFails, PutFails, ReturnError, Return, Goto, TypeOK
    <2>. QED
        BY <2>1, <2>2 DEF podVars, LeaderAlone
<1>3. ASSUME NEW i \in Instances, StartRunnables(i) PROVE LeaderAlone'
    <2>1. \A j \in Instances : phase[j] # "running"
        BY <1>0, <1>3, RolloutAssumption DEF StartRunnables, LeaderAlone
    <2>2. \A w \in Writers : pc'[w] = "idle"
        BY <1>3, <2>1 DEF StartRunnables, Restart, LeaderAlone, Writers
    <2>. QED
        BY <1>0, <1>3, <2>1, <2>2 DEF StartRunnables, Enter, LeaderAlone, RolloutTypeOK
<1>4. ASSUME NEW i \in Instances, Exit(i) \/ Crash(i) PROVE LeaderAlone'
    <2>1. Restart(i) /\ phase' = [phase EXCEPT ![i] = "exited"] /\ lease' = lease
        BY <1>4 DEF Exit, Crash, Gone, Enter
    <2>2. ASSUME NEW w \in Writers, pc'[w] # "idle" PROVE w[1] # i /\ pc[w] # "idle"
        BY <2>1, <2>2 DEF Restart
    <2>. QED
        BY <2>1, <2>2 DEF LeaderAlone, RolloutTypeOK, Writers
<1>5. ASSUME NEW i \in Instances, ManagerReturns(i) \/ LoseLease(i) PROVE LeaderAlone'
    <2>1. /\ phase' = [phase EXCEPT ![i] = "closing"] /\ lease' = lease /\ pc' = pc
          /\ \A o \in Observers : pc[<<i, o>>] = "idle"
        BY <1>5 DEF ManagerReturns, LoseLease, Enter, LeaderAlone, vars
    <2>2. ASSUME NEW w \in Writers, w[1] = i PROVE pc[w] = "idle"
        BY <2>1, <2>2 DEF Writers
    <2>. QED
        BY <2>1, <2>2 DEF LeaderAlone, RolloutTypeOK, Writers
<1>6. ASSUME NEW i \in Instances,
             StartManager(i) \/ Shutdown(i) \/ ContainerRestarts(i)
               \/ ListenAndServe(i) \/ AggregationTick(i)
      PROVE  LeaderAlone'
    <2>1. /\ pc' = pc /\ lease' = lease
          /\ \/ phase' = phase
             \/ \E p \in Phases \ {"running"} :
                  phase[i] # "running" /\ phase' = [phase EXCEPT ![i] = p]
        BY <1>6 DEF StartManager, Shutdown, ContainerRestarts, ListenAndServe,
                    AggregationTick, Enter, vars, Phases
    <2>. QED
        BY <2>1 DEF LeaderAlone, RolloutTypeOK, Writers
<1>7. ASSUME CreatePod PROVE LeaderAlone'
    <2>1. /\ pc' = pc /\ lease' = lease /\ phase[New] = "none"
          /\ phase' = [phase EXCEPT ![New] = "setup"]
        BY <1>7 DEF CreatePod, Enter, vars
    <2>. QED
        BY <2>1 DEF LeaderAlone, RolloutTypeOK, Writers
<1>8. ASSUME TerminatePod PROVE LeaderAlone'
    BY <1>8 DEF TerminatePod, vars, LeaderAlone
<1>9. ASSUME LeaseExpires PROVE LeaderAlone'
    BY <1>9 DEF LeaseExpires, vars, LeaderAlone
<1>10. ASSUME Stall PROVE FALSE
    BY <1>10 DEF Stall, RolloutTypeOK
<1>. QED
    BY <1>0, <1>1, <1>2, <1>3, <1>4, <1>5, <1>6, <1>7, <1>8, <1>9, <1>10
    DEF RolloutNext, ProcessStep

(* With leader election, and as long as no holder of the lease is stalled, *)
(* every write of an object appends to what the object holds, whatever     *)
(* processes crash, restart and overlap.                                   *)
THEOREM LeaderLosesNoUpdate == RolloutSpec => LeaderWritesAlone
<1>1. RolloutInit => LeaderInv
    <2>. SUFFICES ASSUME RolloutInit, Elected
                  PROVE  LeaderAlone /\ TimesOrdered /\ PendingFresh
        BY DEF LeaderInv
    <2>1. TimesOrdered /\ PendingFresh
        BY InitFresh DEF RolloutInit, FreshInv
    <2>2. LeaderAlone
        BY DEF RolloutInit, Init, LeaderAlone, Elected
    <2>. QED
        BY <2>1, <2>2
<1>2. TypeOK /\ RolloutTypeOK /\ LeaderInv /\ [RolloutNext]_allVars => LeaderInv'
    <2>. SUFFICES ASSUME TypeOK, RolloutTypeOK, LeaderInv, [RolloutNext]_allVars, Elected'
                  PROVE  LeaderAlone' /\ TimesOrdered' /\ PendingFresh'
        BY DEF LeaderInv
    <2>1. CASE UNCHANGED allVars
        BY <2>1 DEF allVars, vars, podVars, LeaderInv, Elected, LeaderAlone,
                    TimesOrdered, PendingFresh
    <2>2. CASE RolloutNext
        <3>1. Elected /\ LeaderAlone' /\ LeaderAlone
            BY <2>2, LeaderStep DEF LeaderInv
        <3>2. FreshInv
            BY <3>1 DEF LeaderInv, FreshInv
        <3>3. OneAtWork
            BY <3>1 DEF LeaderAlone, OneAtWork, Writers
        <3>4. CASE Next
            BY <3>1, <3>2, <3>3, <3>4, TimesOrderedStep, PendingFreshStep
        <3>5. CASE UNCHANGED vars
            BY <3>1, <3>2, <3>5 DEF vars, FreshInv, TimesOrdered, PendingFresh
        <3>. QED
            BY <3>4, <3>5, RolloutStep
    <2>. QED
        BY <2>1, <2>2
<1>3. TypeOK /\ LeaderInv /\ [RolloutNext]_allVars
        => [election /\ stalls = 0 => Log!Next]_store
    BY RolloutStep, LogStep DEF LeaderInv, Elected
<1>. QED
    BY <1>1, <1>2, <1>3, TypeCorrect, RolloutIsEventLog, RolloutTypeCorrect, PTL
    DEF RolloutSpec, LeaderWritesAlone
=============================================================================
