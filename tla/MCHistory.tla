------------------------------ MODULE MCHistory -----------------------------
(***************************************************************************)
(* Upnesses that tell apart every condition the observers report: node     *)
(* pools (poller), JobSets (Failed, Completed) and slices (owner gone).    *)
(***************************************************************************)
EXTENDS History

Counts(ready, unknown, expectedDown, failed) ==
    [ReadyCount |-> ready, ExpectedCount |-> 2, UnknownCount |-> unknown,
     ExpectedDown |-> expectedDown, Failed |-> failed]

(* Two nodes, at most one of which may be unknown (threshold 1/2).         *)
MCObserved ==
    {Counts(2, 0, FALSE, FALSE), Counts(1, 0, FALSE, FALSE),
     Counts(1, 1, FALSE, FALSE), Counts(0, 2, FALSE, FALSE),
     Counts(2, 0, TRUE, FALSE),  Counts(2, 0, FALSE, TRUE),
     Counts(0, 0, FALSE, TRUE)}
=============================================================================
