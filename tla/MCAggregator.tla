----------------------------- MODULE MCAggregator ----------------------------
(***************************************************************************)
(* Small instances of Aggregator: one node of which at most half may be      *)
(* unknown, and the conditions each observer can report.                   *)
(***************************************************************************)
EXTENDS Aggregator

CONSTANTS
    Observable,                   \* keys under which anything is ever reported
    Changes, Failures, Restarts   \* bounds on what the environment does

Reports(ready, expectedDown, failed) ==
    [ReadyCount |-> ready, ExpectedCount |-> 1, UnknownCount |-> 0,
     ExpectedDown |-> expectedDown, Failed |-> failed]

(* Up, down, expected down and failed, as far as the observer of each key  *)
(* can tell them apart.                                                    *)
ReportedUnder(k) ==
    CASE k = "node-pools"         -> {Reports(1, FALSE, FALSE), Reports(1, FALSE, TRUE)}
      [] k = "jobsets"            -> {Reports(1, FALSE, FALSE), Reports(1, TRUE, FALSE)}
      [] k = "jobset-nodes"       -> {Reports(0, FALSE, FALSE)}
      [] k = "slices"             -> {Reports(1, FALSE, FALSE), Reports(1, TRUE, FALSE)}
      [] k = "leader-worker-sets" -> {Reports(1, FALSE, FALSE), Reports(0, FALSE, FALSE)}

MCUpnesses == [k \in Keys |-> IF k \in Observable THEN ReportedUnder(k) ELSE {}]

MCBound == [e \in Events |->
              CASE e = "change" -> Changes [] e = "fail" -> Failures [] OTHER -> Restarts]
=============================================================================
