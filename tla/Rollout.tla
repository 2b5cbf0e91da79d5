------------------------------ MODULE Rollout ------------------------------
(***************************************************************************)
(* The life cycle of megamon processes (MustConfigure, MustRun, the        *)
(* readiness probe, shutdown) during a rolling update of its Deployment,   *)
(* composed with the writers of EventLog: a process's writers act only     *)
(* while it runs; its end and its start are restarts of EventLog's         *)
(* instance.                                                               *)
(*                                                                         *)
(* Leader election is a matter of configuration, chosen in the initial     *)
(* state.  Without it the old and the new process overlap; with it a       *)
(* process runs its controllers and its Aggregator only while it holds the *)
(* lease.  Deployment, kubelet and lease are external: one replica, and    *)
(* with the default strategy (Recreate is commented out) the old pod is    *)
(* told to stop only once the new one is ready.                            *)
(***************************************************************************)
EXTENDS EventLog

CONSTANTS
    Old, New,   \* the two pods
    MaxFaults   \* bound on crashes, stalls and failing calls together

ASSUME RolloutAssumption ==
    /\ Old # New /\ Instances = {Old, New} /\ "nobody" \notin Instances
    /\ MaxFaults \in Nat /\ Bound["restart"] >= 2 + 2 * MaxFaults

VARIABLES
    election,   \* EnableLeaderElection
    phase,      \* pod |-> where MustRun is
    server,     \* pod |-> the goroutine of the metrics server
    reportReady,\* pod |-> what /readyz answers
    told,       \* pod |-> it got SIGTERM: the context is cancelled
    lease,      \* the pod whose process holds the lease, or "nobody"
    crashes, stalls

podVars == <<election, phase, server, reportReady, told, lease, crashes, stalls>>
allVars == <<vars, podVars>>

Phases == {"none", "setup", "waiting", "running", "closing", "joining", "exited"}

(* The old process is ready, and has observed nothing yet.                 *)
RolloutInit ==
    /\ Init
    /\ election \in BOOLEAN
    /\ phase = [i \in Instances |-> IF i = Old THEN "running" ELSE "none"]
    /\ server = [i \in Instances |-> IF i = Old THEN "serving" ELSE "none"]
    /\ reportReady = [i \in Instances |-> i = Old]
    /\ told = [i \in Instances |-> FALSE]
    /\ lease = IF election THEN Old ELSE "nobody"
    /\ crashes = 0 /\ stalls = 0

Faults == crashes + stalls + spent["fail"]

Enter(i, p) == phase' = [phase EXCEPT ![i] = p]

-----------------------------------------------------------------------------
(* Start-up.                                                               *)

(* The Deployment is updated: a new pod is created beside the old one.     *)
CreatePod ==
    /\ phase[New] = "none"
    /\ Enter(New, "setup")
    /\ UNCHANGED <<election, server, reportReady, told, lease, crashes, stalls, vars>>

(* MustConfigure and the set-up in MustRun succeed; the goroutine of the   *)
(* metrics server and the manager are started.  (They may also fail, and   *)
(* exit: see Crash.)                                                       *)
StartManager(i) ==
    /\ phase[i] = "setup"
    /\ Enter(i, "waiting")
    /\ server' = [server EXCEPT ![i] = "starting"]
    /\ UNCHANGED <<election, reportReady, told, lease, crashes, stalls, vars>>

(* Mutant of StartRunnables: controllers do not wait for the lease.        *)
StartRunnablesAtOnce(i) ==
    /\ phase[i] = "waiting"
    /\ lease' = IF election THEN i ELSE lease
    /\ Enter(i, "running")
    /\ Restart(i)
    /\ UNCHANGED <<election, server, reportReady, told, crashes, stalls>>

(* mgr.Start runs the controllers and the Aggregator, after it has got the *)
(* lease: both are runnables that need leader election.  A process has an  *)
(* identity of its own, so that of an earlier process of the pod is no     *)
(* help.                                                                   *)
StartRunnables(i) ==
    /\ phase[i] = "waiting"
    /\ election => lease = "nobody"
    /\ lease' = IF election THEN i ELSE lease
    /\ Enter(i, "running")
    /\ Restart(i)
    /\ UNCHANGED <<election, server, reportReady, told, crashes, stalls>>

ListenAndServe(i) ==
    /\ server[i] = "starting" /\ phase[i] # "exited"
    /\ server' = [server EXCEPT ![i] = IF phase[i] = "joining" THEN "closed" ELSE "serving"]
    /\ UNCHANGED <<election, phase, reportReady, told, lease, crashes, stalls, vars>>

(* Mutant of AggregationTick: ready only once every key was observed.      *)
AggregationTickPopulated(i) ==
    /\ phase[i] = "running" /\ ~reportReady[i]
    /\ Keys \subseteq DOMAIN observed[i]
    /\ reportReady' = [reportReady EXCEPT ![i] = TRUE]
    /\ UNCHANGED <<election, phase, server, told, lease, crashes, stalls, vars>>

(* The first tick of the aggregation loop, whatever was observed by then.  *)
AggregationTick(i) ==
    /\ phase[i] = "running" /\ ~reportReady[i]
    /\ reportReady' = [reportReady EXCEPT ![i] = TRUE]
    /\ UNCHANGED <<election, phase, server, told, lease, crashes, stalls, vars>>

-----------------------------------------------------------------------------
(* Shutdown.                                                               *)

(* The Deployment controller deletes the old pod once the new one is ready. *)
TerminatePod ==
    /\ reportReady[New] /\ ~told[Old]
    /\ told' = [told EXCEPT ![Old] = TRUE]
    /\ UNCHANGED <<election, phase, server, reportReady, lease, crashes, stalls, vars>>

(* mgr.Start returns when its runnables have.                              *)
ManagerReturns(i) ==
    /\ told[i] /\ phase[i] \in {"waiting", "running"}
    /\ \A o \in Observers : pc[<<i, o>>] = "idle"
    /\ Enter(i, "closing")
    /\ UNCHANGED <<election, server, reportReady, told, lease, crashes, stalls, vars>>

(* "leader election lost": mgr.Start returns at once, with an error that   *)
(* is only logged.                                                         *)
LoseLease(i) ==
    /\ election /\ phase[i] = "running" /\ lease # i
    /\ Enter(i, "closing")
    /\ UNCHANGED <<election, server, reportReady, told, lease, crashes, stalls, vars>>

(* Mutant of Shutdown: a server that does not listen yet is forgotten.     *)
ShutdownServing(i) ==
    /\ phase[i] = "closing"
    /\ Enter(i, "joining")
    /\ server' = [server EXCEPT ![i] = IF @ = "serving" THEN "closed" ELSE "none"]
    /\ UNCHANGED <<election, reportReady, told, lease, crashes, stalls, vars>>

(* metricsServer.Shutdown: a server that does not listen yet will return   *)
(* as soon as it tries to.                                                 *)
Shutdown(i) ==
    /\ phase[i] = "closing"
    /\ Enter(i, "joining")
    /\ server' = [server EXCEPT ![i] = IF @ = "serving" THEN "closed" ELSE @]
    /\ UNCHANGED <<election, reportReady, told, lease, crashes, stalls, vars>>

(* The process is gone, and what it had in memory with it.                 *)
Gone(i) ==
    /\ Restart(i)
    /\ Enter(i, "exited")
    /\ server' = [server EXCEPT ![i] = "none"]
    /\ reportReady' = [reportReady EXCEPT ![i] = FALSE]

(* wg.Wait returns with the metrics server, and the process ends.          *)
Exit(i) ==
    /\ phase[i] = "joining" /\ server[i] = "closed"
    /\ Gone(i)
    /\ UNCHANGED <<election, told, lease, crashes, stalls>>

(* The process ends where it is: os.Exit(1) during set-up or when the      *)
(* metrics server cannot listen, out of memory, killed after its grace     *)
(* period.                                                                 *)
Crash(i) ==
    /\ phase[i] \notin {"none", "exited"}
    /\ Faults < MaxFaults /\ crashes' = crashes + 1
    /\ Gone(i)
    /\ UNCHANGED <<election, told, lease, stalls>>

(* The kubelet restarts a container of a pod that is not being deleted.    *)
ContainerRestarts(i) ==
    /\ phase[i] = "exited" /\ ~told[i]
    /\ Enter(i, "setup")
    /\ UNCHANGED <<election, server, reportReady, told, lease, crashes, stalls, vars>>

(* The lease is not released on exit (LeaderElectionReleaseOnCancel is     *)
(* commented out): it expires when it is no longer renewed.                *)
LeaseExpires ==
    /\ lease # "nobody" /\ phase[lease] # "running"
    /\ lease' = "nobody"
    /\ UNCHANGED <<election, phase, server, reportReady, told, crashes, stalls, vars>>

(* The holder is stalled for longer than the lease lasts.                  *)
Stall ==
    /\ lease # "nobody" /\ phase[lease] = "running"
    /\ Faults < MaxFaults /\ stalls' = stalls + 1
    /\ lease' = "nobody"
    /\ UNCHANGED <<election, phase, server, reportReady, told, crashes, vars>>

-----------------------------------------------------------------------------
(* A running process's writers act.  Once its context is cancelled, or the *)
(* manager has returned, they start nothing new, but what is under way     *)
(* goes on until it is done or the process has ended.                      *)
Acts(w) ==
    LET i == w[1]
    IN  \/ phase[i] = "running" /\ ~told[i]
        \/ phase[i] \in {"running", "closing", "joining"} /\ pc[w] # "idle"

WriterProgress(w) == Acts(w) /\ Progress(w) /\ UNCHANGED podVars

WriterFails(w) == Acts(w) /\ Faults < MaxFaults /\ Failure(w) /\ UNCHANGED podVars

ProcessStep(i) ==
    \/ StartManager(i) \/ StartRunnables(i) \/ ListenAndServe(i) \/ AggregationTick(i)
    \/ ManagerReturns(i) \/ LoseLease(i) \/ Shutdown(i) \/ Exit(i)
    \/ ContainerRestarts(i)

RolloutNext ==
    \/ World /\ UNCHANGED podVars
    \/ \E w \in Writers : WriterProgress(w) \/ WriterFails(w)
    \/ \E i \in Instances : ProcessStep(i) \/ Crash(i)
    \/ CreatePod \/ TerminatePod \/ LeaseExpires \/ Stall

RolloutSpec == RolloutInit /\ [][RolloutNext]_allVars

(* Processes, kubelet and Deployment controller keep going (a process      *)
(* takes finitely many steps of its own in one life), and a lease that is  *)
(* not renewed expires; nothing says that an update, or a fault, happens.  *)
RolloutFairness ==
    /\ \A w \in Writers : WF_allVars(WriterProgress(w))
    /\ \A i \in Instances : WF_allVars(ProcessStep(i))
    /\ WF_allVars(TerminatePod) /\ WF_allVars(LeaseExpires)

-----------------------------------------------------------------------------
RolloutTypeOK ==
    /\ election \in BOOLEAN
    /\ phase \in [Instances -> Phases]
    /\ server \in [Instances -> {"none", "starting", "serving", "closed"}]
    /\ \A i \in Instances :
         server[i] # "none" <=> phase[i] \in {"waiting", "running", "closing", "joining"}
    /\ reportReady \in [Instances -> BOOLEAN] /\ told \in [Instances -> BOOLEAN]
    /\ lease \in Instances \cup {"nobody"}
    /\ crashes \in Nat /\ stalls \in Nat

(* With leader election, and as long as no holder of the lease is stalled, *)
(* no update of the log is lost: whatever processes crash, restart and     *)
(* overlap, every write of an object is an append to what it holds.        *)
LeaderWritesAlone == [][election /\ stalls = 0 => Log!Next]_store

(* Once cluster and faults come to rest, the log comes to agree with the   *)
(* cluster, and stays so.  Node pools do however processes overlap, since  *)
(* they are polled for ever.  Workloads are reconciled only when a watched *)
(* object changes or, if there is one, when a process starts: they do if   *)
(* the lease keeps the processes apart and such an object is there.        *)
RolloutLogCatchesUp ==
    <>[](/\ Agrees(store["node-pools"], cluster["node-pools"])
         /\ election /\ stalls = 0 /\ WatchEnqueues =>
              \A k \in KeysOf("workload") : Agrees(store[k], cluster[k]))

(* Without leader election a rolling update runs to its end: the new       *)
(* process becomes ready although its Workload Reconciler may never have   *)
(* anything to do, and the old one exits by itself, metrics server and     *)
(* all, wherever it is told to.                                            *)
RolloutCompletes ==
    (~election /\ phase[New] # "none") ~> (reportReady[New] /\ phase[Old] = "exited")

(* aggregator.go: "Ensure the application passes its readiness probe       *)
(* immediately even if observers haven't run yet, so K8s doesn't kill it." *)
StartedBecomesReady ==
    \A i \in Instances : phase[i] = "waiting" ~> (reportReady[i] \/ phase[i] = "exited")
=============================================================================
