------------------------------ MODULE UpEvents ------------------------------
(***************************************************************************)
(* The records of package records: when an observed resource counts as up  *)
(* (Upness.Up), and how one observation extends the stored history of a    *)
(* resource (AppendUpEvent) and of all resources of one type               *)
(* (AppendStateChangeEvents).                                              *)
(***************************************************************************)
EXTENDS Integers, Sequences

CONSTANTS
    ThresholdNum,   \* UnknownCountThreshold, the fraction of nodes that may
    ThresholdDen    \* be unknown, as a quotient (the code has a float64)

ASSUME ThresholdAssumption ==
    /\ ThresholdNum \in Nat
    /\ ThresholdDen \in Nat \ {0}
    /\ ThresholdNum <= ThresholdDen

(* What an observer reports of one resource; Status and Attrs are left out. *)
Upness == [ReadyCount : Nat, ExpectedCount : Nat, UnknownCount : Nat,
           ExpectedDown : BOOLEAN, Failed : BOOLEAN]

UpEvent == [Up : BOOLEAN, ExpectedDown : BOOLEAN, Failed : BOOLEAN,
            Timestamp : Nat]

(* math.RoundToEven of the quotient n / d. *)
RoundToEven(n, d) ==
    LET q == n \div d
        r == n % d
    IN  IF 2 * r < d \/ (2 * r = d /\ q % 2 = 0) THEN q ELSE q + 1

Up(up) ==
    /\ up.UnknownCount <= RoundToEven(up.ExpectedCount * ThresholdNum, ThresholdDen)
    /\ up.ReadyCount + up.UnknownCount = up.ExpectedCount

-----------------------------------------------------------------------------
(* Mutant of EventOf: the counts alone decide whether the event is up.     *)
EventOfByCounts(up, now) ==
    [Up |-> Up(up), ExpectedDown |-> up.ExpectedDown,
     Failed |-> up.Failed, Timestamp |-> now]

(* Mutant of EventOf: the event is stamped with the tick before.           *)
EventOfEarlier(up, now) ==
    [Up |-> Up(up) /\ ~up.ExpectedDown, ExpectedDown |-> up.ExpectedDown,
     Failed |-> up.Failed, Timestamp |-> now - 1]

(* The event that AppendStateChangeEvents records for up at time now:      *)
(* expected downtime is never up, whatever the counts say.                 *)
EventOf(up, now) ==
    [Up |-> Up(up) /\ ~up.ExpectedDown, ExpectedDown |-> up.ExpectedDown,
     Failed |-> up.Failed, Timestamp |-> now]

(* Two events that report the same condition; the time does not matter.    *)
SameCondition(e, f) ==
    /\ e.Up = f.Up
    /\ e.ExpectedDown = f.ExpectedDown
    /\ e.Failed = f.Failed

(* Mutant of AppendUpEvent: an event is added even if nothing changed.     *)
AppendUpEventAlways(rec, event) ==
    Append(IF rec = << >> THEN <<[event EXCEPT !.Up = FALSE]>> ELSE rec, event)

(* Mutant of AppendUpEvent: a history may start with an up event.          *)
AppendUpEventAsIs(rec, event) ==
    LET started == IF rec = << >> THEN <<event>> ELSE rec
    IN  IF SameCondition(started[Len(started)], event)
        THEN started
        ELSE Append(started, event)

(* Mutant of AppendUpEvent: a change overwrites the last event.            *)
AppendUpEventInPlace(rec, event) ==
    LET started == IF rec = << >> THEN <<[event EXCEPT !.Up = FALSE]>> ELSE rec
    IN  [started EXCEPT ![Len(started)] =
           IF SameCondition(started[Len(started)], event) THEN @ ELSE event]

(* A history always starts with a down event, and then holds one event per *)
(* change of condition.                                                    *)
AppendUpEvent(rec, event) ==
    LET started == IF rec = << >> THEN <<[event EXCEPT !.Up = FALSE]>> ELSE rec
    IN  IF SameCondition(started[Len(started)], event)
        THEN started
        ELSE Append(started, event)

(* The history of resource r in events, empty if there is none.            *)
HistoryOf(events, r) == IF r \in DOMAIN events THEN events[r] ELSE << >>

(* One observation ups of every resource of a type, recorded in the stored *)
(* events of that type: observed resources get their history extended, the *)
(* others lose theirs.  The code's result "changed" is the result # events. *)
AppendStateChangeEvents(now, ups, events) ==
    [r \in DOMAIN ups |-> AppendUpEvent(HistoryOf(events, r), EventOf(ups[r], now))]
=============================================================================
