------------------------------ MODULE Summary -------------------------------
(***************************************************************************)
(* EventRecords.Summarize: the up and down times, the interruption and     *)
(* recovery counts and the provisioning state of one stored history.       *)
(***************************************************************************)
EXTENDS UpEvents, FiniteSets, FiniteSetsExt

(* The zero value of EventSummary, which Summarize returns for a history   *)
(* it calls invalid.                                                       *)
ZeroSummary ==
    [DownTimeInitial |-> 0, InterruptionCount |-> 0, RecoveryCount |-> 0,
     DownTime |-> 0, UpTime |-> 0,
     TotalDownTimeBetweenRecovery |-> 0, TotalUpTimeBetweenInterruption |-> 0,
     LatestDownTimeBetweenRecovery |-> 0, LatestUpTimeBetweenInterruption |-> 0,
     MeanDownTimeBetweenRecovery |-> 0, MeanUpTimeBetweenInterruption |-> 0,
     ProvisioningDuration |-> 0, ProvisioningState |-> "none"]

(* Time from the event before event i of history h to event i.             *)
Gap(h, i) == h[i].Timestamp - h[i-1].Timestamp

(* Sum of the gaps of the events I.                                        *)
TotalGap(h, I) ==
    LET gap(i) == Gap(h, i)
    IN  MapThenSumSet(gap, I)

(* Gap of the last of the events I, 0 if there is none.                    *)
LatestGap(h, I) == IF I = {} THEN 0 ELSE Gap(h, Max(I))

(* Mutant of OpenStretch: it is not counted.                               *)
OpenStretchIgnored(h, now) == 0

(* Time since the last event.                                              *)
OpenStretch(h, now) == now - h[Len(h)].Timestamp

Mean(total, count) == IF count > 0 THEN total \div count ELSE 0

(* Mutant of CountedTotal: a total over no counted event is kept.          *)
CountedTotalKept(total, count) == total

(* The total up time between interruptions is zeroed if none was counted.  *)
CountedTotal(total, count) == IF count > 0 THEN total ELSE 0

(* Mutant of FailedSummary: the provisioning time of a failed resource     *)
(* keeps running.                                                          *)
FailedSummaryRunning(h, now) ==
    LET time == now - h[1].Timestamp
    IN  [ZeroSummary EXCEPT !.DownTime = time, !.DownTimeInitial = time,
                            !.ProvisioningDuration = time, !.ProvisioningState = "failed"]

(* Provisioning failed: the time stops at the failure.                     *)
FailedSummary(h, now) ==
    LET time == Gap(h, 2)
    IN  [ZeroSummary EXCEPT !.DownTime = time, !.DownTimeInitial = time,
                            !.ProvisioningDuration = time, !.ProvisioningState = "failed"]

(* The loop over the events after the second one, and what follows it: an  *)
(* up event is taken for a recovery and the time before it for down time,  *)
(* a down event for an interruption and the time before it for up time;    *)
(* the expected ones are not counted.                                      *)
SummarizeProvisioned(h, now) ==
    LET n           == Len(h)
        initial     == Gap(h, 2)
        recovered   == {i \in 3..n : h[i].Up}
        interrupted == {i \in 3..n : ~h[i].Up}
        recoveries  == Cardinality({i \in recovered : ~h[i-1].ExpectedDown})
        interrupts  == Cardinality({i \in interrupted : ~h[i].ExpectedDown})
        downTotal   == TotalGap(h, recovered)
        upTotal     == TotalGap(h, interrupted)
    IN  [DownTimeInitial |-> initial,
         InterruptionCount |-> interrupts,
         RecoveryCount |-> recoveries,
         DownTime |-> initial + downTotal + (IF h[n].Up THEN 0 ELSE OpenStretch(h, now)),
         UpTime |-> upTotal + (IF h[n].Up THEN OpenStretch(h, now) ELSE 0),
         TotalDownTimeBetweenRecovery |-> downTotal,
         TotalUpTimeBetweenInterruption |-> CountedTotal(upTotal, interrupts),
         LatestDownTimeBetweenRecovery |-> LatestGap(h, recovered),
         LatestUpTimeBetweenInterruption |-> LatestGap(h, interrupted),
         MeanDownTimeBetweenRecovery |-> Mean(downTotal, recoveries),
         MeanUpTimeBetweenInterruption |-> Mean(upTotal, interrupts),
         ProvisioningDuration |-> initial,
         ProvisioningState |-> "success"]

(* A history that is empty, starts up, or whose second event is neither up *)
(* nor failed, has the zero summary.                                       *)
Summarize(h, now) ==
    LET n == Len(h) IN
    CASE n = 0 \/ h[1].Up -> ZeroSummary
      [] n = 1 /\ ~h[1].Up ->
           [ZeroSummary EXCEPT !.DownTime = now - h[1].Timestamp,
                               !.ProvisioningDuration = now - h[1].Timestamp,
                               !.ProvisioningState = "provisioning"]
      [] n > 1 /\ ~h[1].Up /\ ~h[2].Up /\ h[2].Failed -> FailedSummary(h, now)
      [] n > 1 /\ ~h[1].Up /\ h[2].Up -> SummarizeProvisioned(h, now)
      [] OTHER -> ZeroSummary
=============================================================================
