------------------------------- MODULE Metrics ------------------------------
(***************************************************************************)
(* What a scrape of /metrics returns: the callback reads the Global Report *)
(* and gives one series per gauge and resource.  A report is a record with *)
(* fields now, ups, events (both by key, then by resource) and scheduling. *)
(* The labels of a series are the set of what tells it from another series *)
(* of its gauge; gauges of chips and of the build are left out.            *)
(***************************************************************************)
EXTENDS Summary

(* Producer.Summarize takes the attributes of a history from the observed  *)
(* state of the same report: a resource that is not in it has no label.    *)
OTELAttrs(ups, r) == {r} \cap DOMAIN ups

Series(metric, labels, value) == [metric |-> metric, labels |-> labels, value |-> value]

(* The gauges that are always observed; the other durations only if they   *)
(* are not zero.                                                           *)
AlwaysObserved == {"InterruptionCount", "RecoveryCount", "UpTime", "DownTime"}
SummaryGauges == DOMAIN ZeroSummary \ {"ProvisioningDuration", "ProvisioningState"}

UpSeries(k, ups) ==
    {Series(<<k, "Up">>, OTELAttrs(ups, r), IF Up(ups[r]) /\ ~ups[r].ExpectedDown THEN 1 ELSE 0)
       : r \in DOMAIN ups}

SummarySeries(k, labels, summary) ==
    {Series(<<k, g>>, labels, summary[g])
       : g \in {g \in SummaryGauges : g \in AlwaysObserved \/ summary[g] # 0}}
    \cup {Series(<<k, "ProvisioningDuration">>, labels \cup {state}, summary.ProvisioningDuration)
            : state \in {summary.ProvisioningState} \ {"none"}}

(* The series of one kind of resource.                                     *)
observeFunc(k, ups, records, now) ==
    UpSeries(k, ups)
      \cup UNION {SummarySeries(k, OTELAttrs(ups, r), Summarize(records[r], now))
                    : r \in DOMAIN records}

(* The callback: no series of a resource before the report counts as       *)
(* ready; LeaderWorkerSets have no gauges, and nodes of JobSets have none  *)
(* when slices are enabled.                                                *)
Scrape(ready, sliceEnabled, rep) ==
    LET kinds == {"jobsets", "node-pools"}
                   \cup (IF sliceEnabled THEN {"slices"} ELSE {"jobset-nodes"})
        observed(k) == IF k \in DOMAIN rep.ups
                       THEN observeFunc(k, rep.ups[k], rep.events[k], rep.now)
                       ELSE {}
        scheduled == {Series(<<"node-pools", "JobScheduled">>, {p, rep.scheduling[p]}, 1)
                        : p \in DOMAIN rep.scheduling}
    IN  IF ready THEN scheduled \cup UNION {observed(k) : k \in kinds} ELSE {}
=============================================================================
