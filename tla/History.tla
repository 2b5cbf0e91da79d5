------------------------------ MODULE History -------------------------------
(***************************************************************************)
(* One resource over time: an observer reports its upness again and again, *)
(* AppendUpEvent extends its history, and the Summary Producer may         *)
(* summarize that history at any moment.                                   *)
(***************************************************************************)
EXTENDS Summary

CONSTANTS
    Observed,   \* the upnesses the observer of this resource can report
    MaxTime,    \* bound on the clock
    MaxEvents   \* bound on the length of the history

ASSUME HistoryAssumption ==
    /\ Observed \subseteq Upness
    /\ MaxTime \in Nat /\ MaxEvents \in Nat

VARIABLES
    clock,      \* time.Now()
    history     \* EventRecords.UpEvents of the resource

vars == <<clock, history>>

Init == clock = 0 /\ history = << >>

Tick ==
    /\ clock < MaxTime
    /\ clock' = clock + 1
    /\ UNCHANGED history

Observe(up) ==
    /\ Len(history) < MaxEvents
    /\ history' = AppendUpEvent(history, EventOf(up, clock))
    /\ UNCHANGED clock

Next == Tick \/ \E up \in Observed : Observe(up)

Spec == Init /\ [][Next]_vars

TypeOK == clock \in Nat /\ history \in Seq(UpEvent)

-----------------------------------------------------------------------------
(* The reference: what the history says of the resource, instant by        *)
(* instant, with no bookkeeping.                                           *)

summary == Summarize(history, clock)

(* Index of the event in force at time t.                                  *)
InForce(t) == Max({i \in 1..Len(history) : history[i].Timestamp <= t})

(* The instants from the first event to now at which the resource was up.  *)
InstantsUp ==
    {t \in history[1].Timestamp..(clock - 1) : history[InForce(t)].Up}

(* The instants from the first event to now.                               *)
Instants == history[1].Timestamp..(clock - 1)

(* The instants from the first time the resource was up to the last event. *)
InstantsBetween ==
    IF Len(history) < 2 THEN {}
    ELSE history[2].Timestamp..(history[Len(history)].Timestamp - 1)

(* The events by which the resource went down although it was not expected *)
(* to, and those by which it came up again after such a downtime.          *)
Interruptions ==
    {i \in 2..Len(history) : /\ history[i-1].Up /\ ~history[i].Up
                             /\ ~history[i].ExpectedDown}
Recoveries ==
    {i \in 3..Len(history) : /\ ~history[i-1].Up /\ history[i].Up
                             /\ ~history[i-1].ExpectedDown}

(* Every event changes whether the resource is up: the history the loop of *)
(* Summarize is written for ("Just transitioned down to up").              *)
Alternating == \A i \in 2..Len(history) : history[i].Up # history[i-1].Up

-----------------------------------------------------------------------------
(* While a resource is provisioning or provisioned, its reported up and    *)
(* down times account for all the time since its first event: no stretch   *)
(* is lost or counted twice, the open one at the end included.             *)
TimeAccounted ==
    summary.ProvisioningState \in {"provisioning", "success"} =>
        summary.UpTime + summary.DownTime = clock - history[1].Timestamp

(* On a history that alternates, the reported times and counts are those   *)
(* the history means: UpTime is the time the resource was up, DownTime the *)
(* rest, and every unexpected downtime is one interruption and, once over, *)
(* one recovery.                                                           *)
ExactWhenAlternating ==
    (history # << >> /\ Alternating) =>
        /\ summary.UpTime = Cardinality(InstantsUp)
        /\ summary.DownTime = Cardinality(Instants \ InstantsUp)
        /\ summary.InterruptionCount = Cardinality(Interruptions)
        /\ summary.RecoveryCount = Cardinality(Recoveries)

(* The totals of time between recoveries and between interruptions are    *)
(* over all that happened from the first time up to the last event, the    *)
(* downtimes that were expected included, whether or not one was counted;  *)
(* only the up total is zeroed when no interruption was.  The counts       *)
(* differ by the interruption that is not over, if there is one.           *)
TotalsMatchCounts ==
    (history # << >> /\ Alternating) =>
        /\ summary.TotalDownTimeBetweenRecovery = Cardinality(InstantsBetween \ InstantsUp)
        /\ summary.TotalUpTimeBetweenInterruption =
              IF Interruptions = {} THEN 0 ELSE Cardinality(InstantsBetween \cap InstantsUp)
        /\ summary.InterruptionCount - summary.RecoveryCount =
              IF Len(history) \in Interruptions THEN 1 ELSE 0

(* The outcome of provisioning is final: once it is success or failed,     *)
(* neither it nor the provisioning duration changes again.                 *)
ProvisioningOutcomeFinal ==
    [][summary.ProvisioningState \in {"success", "failed"} =>
         /\ summary'.ProvisioningState = summary.ProvisioningState
         /\ summary'.ProvisioningDuration = summary.ProvisioningDuration]_vars

(* What a monitor adds up never goes back: the counts only grow, and as    *)
(* long as the history alternates so do the up and the down time.          *)
CountsNeverDecrease ==
    [][/\ summary'.InterruptionCount >= summary.InterruptionCount
       /\ summary'.RecoveryCount >= summary.RecoveryCount
       /\ Alternating' => /\ summary'.UpTime >= summary.UpTime
                          /\ summary'.DownTime >= summary.DownTime]_vars

-----------------------------------------------------------------------------
(* EventSummary: "InterruptionCount is the number of times that the system *)
(* has gone down after being up."                                          *)
InterruptionsAreReal ==
    summary.InterruptionCount <= Cardinality(Interruptions)
=============================================================================
