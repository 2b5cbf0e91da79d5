--------------------------- MODULE StateChangeLog ---------------------------
(***************************************************************************)
(* What the Event Log promises: one history per resource, which every      *)
(* observation of a key extends in one indivisible step, stamped with a    *)
(* time no earlier than any event the key already has.  There are no       *)
(* writers, reads, retries or restarts here.                               *)
(***************************************************************************)
EXTENDS UpEvents

CONSTANTS
    Keys,           \* the resource types
    Observations,   \* key |-> the maps from resources to upness it may report
    Times           \* the time stamps

VARIABLE hist       \* key |-> resource |-> history

NotBefore(t, events) ==
    \A r \in DOMAIN events : \A j \in 1..Len(events[r]) : events[r][j].Timestamp <= t

Record(k, t, ups) ==
    /\ NotBefore(t, hist[k])
    /\ hist' = [hist EXCEPT ![k] = AppendStateChangeEvents(t, ups, @)]

Init == hist = [k \in Keys |-> [x \in {} |-> x]]

Next == \E k \in Keys, t \in Times : \E ups \in Observations[k] : Record(k, t, ups)

Spec == Init /\ [][Next]_hist
=============================================================================
