--------------------------- MODULE MCReportHistory --------------------------
(***************************************************************************)
(* Small instances of ReportHistory, with the values of MCAggregator: one  *)
(* of the scenarios is chosen in the initial state.                        *)
(***************************************************************************)
EXTENDS MCAggregator, ReportHistory

VARIABLE scenario

Scenario(ups, jobs, time, changes, failures, restarts) ==
    [ups |-> [k \in Keys |-> IF k \in DOMAIN ups THEN ups[k] ELSE {}],
     jobs |-> jobs, time |-> time,
     spent |-> [change |-> changes, fail |-> failures, restart |-> restarts]]

(* What may change, to what, and how often: a node pool with the pods on   *)
(* it, with a call that fails or with a restart; JobSets and their nodes,  *)
(* which are observed in one batch; a node pool that goes and returns as   *)
(* time passes.                                                            *)
Scenarios ==
    {Scenario([k \in {"node-pools"} |-> ReportedUnder(k)], Jobs, 0, 2, 1, 0),
     Scenario([k \in {"node-pools"} |-> ReportedUnder(k)], Jobs, 0, 2, 0, 1),
     Scenario([k \in {"jobsets", "jobset-nodes"} |-> ReportedUnder(k)], {}, 0, 2, 0, 0),
     Scenario([k \in {"node-pools"} |-> {Reports(1, FALSE, FALSE)}], {}, 1, 3, 0, 0)}

ScenarioInit == HistoryInit /\ scenario \in Scenarios

ScenarioNext ==
    /\ HistoryNext
    /\ \A k \in Keys : Range(cluster'[k]) \subseteq scenario.ups[k]
    /\ pods' \subseteq Resources \X scenario.jobs
    /\ clock' <= scenario.time
    /\ \A e \in Events : spent'[e] <= scenario.spent[e]
    /\ UNCHANGED scenario

ScenarioSpec ==
    /\ ScenarioInit
    /\ [][ScenarioNext]_<<allVars, rememberedVars, scenario>>
    /\ AggregatorFairness
=============================================================================
