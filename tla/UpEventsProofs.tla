--------------------------- MODULE UpEventsProofs ---------------------------
(***************************************************************************)
(* What one append does to one history, and to the histories of one type.  *)
(***************************************************************************)
EXTENDS UpEvents, TLAPS

(* Up is a truth value, and EventOf an event, whatever is counted.         *)
LEMMA EventOfFlags ==
    ASSUME NEW up, up.ExpectedDown \in BOOLEAN, up.Failed \in BOOLEAN, NEW now \in Nat
    PROVE  /\ EventOf(up, now) \in UpEvent
           /\ EventOf(up, now).Timestamp = now
           /\ EventOf(up, now).ExpectedDown => ~EventOf(up, now).Up
<1>1. Up(up) \in BOOLEAN
    BY DEF Up
<1>. QED
    BY <1>1 DEF EventOf, UpEvent

(* So it is of an upness.                                                  *)
LEMMA EventOfType ==
    ASSUME NEW up \in Upness, NEW now \in Nat
    PROVE  /\ EventOf(up, now) \in UpEvent
           /\ EventOf(up, now).Timestamp = now
           /\ EventOf(up, now).ExpectedDown => ~EventOf(up, now).Up
<1>1. up.ExpectedDown \in BOOLEAN /\ up.Failed \in BOOLEAN
    BY DEF Upness
<1>. QED
    BY <1>1, EventOfFlags

(* AppendUpEvent only adds events at the end, all with the time stamp of   *)
(* the new one, and never returns an empty history.                        *)
LEMMA AppendUpEventExtends ==
    ASSUME NEW rec \in Seq(UpEvent), NEW event \in UpEvent
    PROVE  LET h == AppendUpEvent(rec, event) IN
           /\ h \in Seq(UpEvent)
           /\ Len(h) >= 1 /\ Len(h) >= Len(rec)
           /\ \A j \in 1..Len(rec) : h[j] = rec[j]
           /\ \A j \in (Len(rec) + 1)..Len(h) : h[j].Timestamp = event.Timestamp
           /\ SameCondition(h[Len(h)], event)
<1>. DEFINE first == [event EXCEPT !.Up = FALSE]
            started == IF rec = << >> THEN <<first>> ELSE rec
<1>1. first \in UpEvent /\ first.Timestamp = event.Timestamp
    BY DEF UpEvent
<1>2. /\ started \in Seq(UpEvent)
      /\ Len(started) >= 1 /\ Len(started) >= Len(rec)
      /\ \A j \in 1..Len(rec) : started[j] = rec[j]
      /\ \A j \in (Len(rec) + 1)..Len(started) : started[j].Timestamp = event.Timestamp
    <2>1. CASE rec = << >>
        <3>1. started = <<first>> /\ Len(rec) = 0
            BY <2>1
        <3>. HIDE DEF first, started
        <3>2. /\ <<first>> \in Seq(UpEvent) /\ Len(<<first>>) = 1
              /\ <<first>>[1] = first
            BY <1>1
        <3>. QED
            BY <1>1, <3>1, <3>2
    <2>2. CASE rec # << >>
        BY <2>2
    <2>. QED
        BY <2>1, <2>2
<1>. HIDE DEF started
<1>3. AppendUpEvent(rec, event) = IF SameCondition(started[Len(started)], event)
                                  THEN started ELSE Append(started, event)
    BY DEF AppendUpEvent, started
<1>4. CASE SameCondition(started[Len(started)], event)
    BY <1>2, <1>3, <1>4
<1>5. CASE ~SameCondition(started[Len(started)], event)
    <2>1. AppendUpEvent(rec, event) = Append(started, event)
        BY <1>3, <1>5
    <2>2. /\ Append(started, event) \in Seq(UpEvent)
          /\ Len(Append(started, event)) = Len(started) + 1
          /\ \A j \in 1..Len(started) : Append(started, event)[j] = started[j]
          /\ Append(started, event)[Len(started) + 1] = event
        BY <1>2
    <2>. QED
        BY <1>2, <2>1, <2>2 DEF SameCondition
<1>. QED
    BY <1>4, <1>5

(* A history that starts down goes on doing so, and a new one starts down. *)
LEMMA AppendUpEventStartsDown ==
    ASSUME NEW rec \in Seq(UpEvent), NEW event \in UpEvent,
           rec = << >> \/ ~rec[1].Up
    PROVE  ~AppendUpEvent(rec, event)[1].Up
<1>. DEFINE first == [event EXCEPT !.Up = FALSE]
            started == IF rec = << >> THEN <<first>> ELSE rec
<1>1. first \in UpEvent /\ ~first.Up
    BY DEF UpEvent
<1>2. started \in Seq(UpEvent) /\ Len(started) >= 1 /\ ~started[1].Up
    <2>1. CASE rec = << >>
        <3>1. started = <<first>>
            BY <2>1
        <3>. HIDE DEF first, started
        <3>2. <<first>> \in Seq(UpEvent) /\ Len(<<first>>) = 1 /\ <<first>>[1] = first
            BY <1>1
        <3>. QED
            BY <1>1, <3>1, <3>2
    <2>2. CASE rec # << >>
        BY <2>2
    <2>. QED
        BY <2>1, <2>2
<1>. HIDE DEF started
<1>3. AppendUpEvent(rec, event) \in {started, Append(started, event)}
    BY DEF AppendUpEvent, started
<1>4. Append(started, event)[1] = started[1]
    BY <1>2
<1>. QED
    BY <1>2, <1>3, <1>4

(* Appending an observation extends the history of every observed resource *)
(* and of no other.                                                        *)
LEMMA AppendStateChangeEventsExtends ==
    ASSUME NEW now \in Nat, NEW ups, NEW events,
           \A r \in DOMAIN ups : EventOf(ups[r], now) \in UpEvent,
           \A r \in DOMAIN events : events[r] \in Seq(UpEvent)
    PROVE  LET recs == AppendStateChangeEvents(now, ups, events) IN
           /\ DOMAIN recs = DOMAIN ups
           /\ \A r \in DOMAIN ups :
                /\ HistoryOf(events, r) \in Seq(UpEvent)
                /\ recs[r] = AppendUpEvent(HistoryOf(events, r), EventOf(ups[r], now))
                /\ recs[r] \in Seq(UpEvent)
<1>. DEFINE recs == AppendStateChangeEvents(now, ups, events)
<1>1. DOMAIN recs = DOMAIN ups
    BY DEF AppendStateChangeEvents
<1>. SUFFICES ASSUME NEW r \in DOMAIN ups
              PROVE  /\ HistoryOf(events, r) \in Seq(UpEvent)
                     /\ recs[r] = AppendUpEvent(HistoryOf(events, r), EventOf(ups[r], now))
                     /\ recs[r] \in Seq(UpEvent)
    BY <1>1
<1>2. HistoryOf(events, r) \in Seq(UpEvent)
    BY DEF HistoryOf
<1>3. recs[r] = AppendUpEvent(HistoryOf(events, r), EventOf(ups[r], now))
    BY DEF AppendStateChangeEvents
<1>. QED
    BY <1>2, <1>3, AppendUpEventExtends
=============================================================================
