------------------------- MODULE InterruptionProofs -------------------------
(***************************************************************************)
(* Proofs of InterruptionsWereReal and OnlyTheGoneAreForgotten.            *)
(*                                                                         *)
(* Of no resource more interruptions are recorded than there were,         *)
(* although each observation is put together from lists of different       *)
(* moments, misses states, and may come long after what it shows; and no   *)
(* history is dropped while its resource exists.                           *)
(*                                                                         *)
(* A state that a cache has yet to see is of a moment: by then, a resource *)
(* had been interrupted a number of times.  The argument gives each such   *)
(* state a number, and shows that a history never has more interruptions   *)
(* than the number of the state that is recorded next.                     *)
(***************************************************************************)
EXTENDS ObserversProofs, FiniteSetTheorems

-----------------------------------------------------------------------------
(* How a resource stands in a state: it is not there yet, it is up, it is  *)
(* down unexpectedly, or that is over: completed or deleted, for good.     *)

Standing(exists, ups, r) ==
    IF exists = "no" THEN "absent"
    ELSE IF r \notin DOMAIN ups \/ ups[r].ExpectedDown THEN "over"
    ELSE IF IsUp(ups[r]) THEN "up" ELSE "down"

StandingOf(event) ==
    IF event.Up THEN "up" ELSE IF event.ExpectedDown THEN "over" ELSE "down"

LastStanding(h) == IF h = << >> THEN "absent" ELSE StandingOf(h[Len(h)])

Flip(a, b) == IF a = "up" /\ b = "down" THEN 1 ELSE 0

Follows(a, b) == (a = "over" => b = "over") /\ (b = "absent" => a = "absent")

(* What is over stays over, and what is there was there before: a state in *)
(* between hides no interruption.                                          *)
LEMMA FlipThrough ==
    ASSUME NEW a, NEW b, NEW c, Follows(a, b), Follows(b, c),
           b \in {"absent", "up", "down", "over"}
    PROVE  Follows(a, c) /\ Flip(a, c) <= Flip(a, b) + Flip(b, c)
    BY DEF Follows, Flip

-----------------------------------------------------------------------------
(* What one event does to the interruptions of a history.                  *)

InterruptedAt(h) == {i \in 2..Len(h) : h[i-1].Up /\ ~h[i].Up /\ ~h[i].ExpectedDown}

(* Interruptions counts a finite set of events.                            *)
LEMMA InterruptionsAreFinite ==
    ASSUME NEW h \in Seq(UpEvent)
    PROVE  /\ IsFiniteSet(InterruptedAt(h)) /\ Interruptions(h) = Cardinality(InterruptedAt(h))
           /\ Interruptions(h) \in Nat
<1>1. IsFiniteSet(2..Len(h))
    BY FS_Interval
<1>2. IsFiniteSet(InterruptedAt(h))
    BY <1>1, FS_Subset DEF InterruptedAt
<1>3. Interruptions(h) = Cardinality(InterruptedAt(h))
    BY DEF Interruptions, InterruptedAt
<1>. QED
    BY <1>2, <1>3, FS_CardinalityType

(* A history of at most one event has no interruption.                     *)
LEMMA NoneAtFirst ==
    ASSUME NEW h, h = << >> \/ (h \in Seq(UpEvent) /\ Len(h) = 1)
    PROVE  Interruptions(h) = 0
<1>1. 2..Len(h) = {}
    BY Len(<< >>) = 0
<1>2. InterruptedAt(h) = {}
    BY <1>1 DEF InterruptedAt
<1>. QED
    BY <1>2, FS_EmptySet DEF Interruptions, InterruptedAt

(* An event after the last.                                                *)
LEMMA InterruptionsGrow ==
    ASSUME NEW h \in Seq(UpEvent), h # << >>, NEW e \in UpEvent
    PROVE  Interruptions(Append(h, e)) <= Interruptions(h) + Flip(LastStanding(h), StandingOf(e))
<1>. DEFINE g == Append(h, e)
            n == Len(h)
<1>1. /\ g \in Seq(UpEvent) /\ n \in Nat /\ n >= 1 /\ Len(g) = n + 1
      /\ \A i \in 1..n : g[i] = h[i]
      /\ g[n + 1] = e
    OBVIOUS
<1>. HIDE DEF g
<1>2. /\ IsFiniteSet(InterruptedAt(h)) /\ Interruptions(h) = Cardinality(InterruptedAt(h))
      /\ Interruptions(g) = Cardinality(InterruptedAt(g)) /\ Interruptions(h) \in Nat
    BY <1>1, InterruptionsAreFinite
<1>3. ASSUME NEW i \in InterruptedAt(g), i # n + 1
      PROVE  i \in InterruptedAt(h)
    BY <1>1, <1>3 DEF InterruptedAt
<1>4. ASSUME NEW i \in InterruptedAt(h)
      PROVE  i \in InterruptedAt(g)
    BY <1>1 DEF InterruptedAt
<1>5. CASE n + 1 \in InterruptedAt(g)
    <2>1. InterruptedAt(g) = InterruptedAt(h) \cup {n + 1}
        BY <1>3, <1>4, <1>5
    <2>2. n + 1 \notin InterruptedAt(h)
        BY <1>1 DEF InterruptedAt
    <2>3. Cardinality(InterruptedAt(g)) = Cardinality(InterruptedAt(h)) + 1
        BY <1>2, <2>1, <2>2, FS_AddElement
    <2>4. Flip(LastStanding(h), StandingOf(e)) = 1
        BY <1>1, <1>5 DEF InterruptedAt, Flip, LastStanding, StandingOf
    <2>. QED
        BY <1>2, <2>3, <2>4 DEF g
<1>6. CASE n + 1 \notin InterruptedAt(g)
    <2>1. InterruptedAt(g) = InterruptedAt(h)
        BY <1>3, <1>4, <1>6
    <2>2. Flip(LastStanding(h), StandingOf(e)) \in {0, 1}
        BY DEF Flip
    <2>. QED
        BY <1>2, <2>1, <2>2 DEF g
<1>. QED
    BY <1>5, <1>6

(* An observation is an interruption if the last was up and this one is    *)
(* down unexpectedly; a history that begins has none.                      *)
LEMMA RecordingFlips ==
    ASSUME NEW h \in Seq(UpEvent), NEW e \in UpEvent
    PROVE  LET g == AppendUpEvent(h, e) IN
           /\ g \in Seq(UpEvent)
           /\ Interruptions(g) <= Interruptions(h) + Flip(LastStanding(h), StandingOf(e))
           /\ LastStanding(g) = StandingOf(e)
<1>. DEFINE g == AppendUpEvent(h, e)
            first == [e EXCEPT !.Up = FALSE]
            started == IF h = << >> THEN <<first>> ELSE h
<1>1. /\ g \in Seq(UpEvent) /\ Len(g) >= 1 /\ SameCondition(g[Len(g)], e)
    BY AppendUpEventExtends
<1>2. LastStanding(g) = StandingOf(e)
    <2>. HIDE DEF g
    <2>1. g # << >>
        BY <1>1
    <2>. QED
        BY <1>1, <2>1 DEF LastStanding, StandingOf, SameCondition
<1>3. Interruptions(h) \in Nat /\ Flip(LastStanding(h), StandingOf(e)) \in {0, 1}
    BY InterruptionsAreFinite DEF Flip
<1>4. g \in {started, Append(started, e)}
    BY DEF AppendUpEvent
<1>5. CASE h = << >>
    <2>1. first \in UpEvent /\ ~first.Up
        BY DEF UpEvent
    <2>2. started = <<first>>
        BY <1>5
    <2>. HIDE DEF first, started, g
    <2>3. /\ <<first>> \in Seq(UpEvent) /\ <<first>> # << >> /\ Len(<<first>>) = 1
          /\ <<first>>[1] = first
        BY <2>1
    <2>4. Interruptions(<<first>>) = 0
        BY <2>3, NoneAtFirst
    <2>5. Flip(LastStanding(<<first>>), StandingOf(e)) = 0
        BY <2>1, <2>3 DEF Flip, LastStanding, StandingOf
    <2>6. Interruptions(Append(<<first>>, e)) <= 0
        <3>1. Interruptions(Append(<<first>>, e)) <=
                Interruptions(<<first>>) + Flip(LastStanding(<<first>>), StandingOf(e))
            BY <2>3, InterruptionsGrow
        <3>2. 0 + 0 = 0
            OBVIOUS
        <3>. QED
            BY <2>4, <2>5, <3>1, <3>2, Zenon
    <2>7. Interruptions(g) <= 0
        <3>1. g = <<first>> \/ g = Append(<<first>>, e)
            BY <1>4, <2>2, Zenon
        <3>2. Interruptions(<<first>>) <= 0
            BY <2>4
        <3>. QED
            BY <2>6, <3>1, <3>2, Zenon
    <2>8. Interruptions(g) \in Nat
        BY <1>1, InterruptionsAreFinite
    <2>. QED
        BY <1>1, <1>2, <1>3, <2>7, <2>8 DEF g
<1>6. CASE h # << >>
    <2>1. g \in {h, Append(h, e)}
        BY <1>4, <1>6
    <2>2. Interruptions(Append(h, e)) <= Interruptions(h) + Flip(LastStanding(h), StandingOf(e))
        BY <1>6, InterruptionsGrow
    <2>3. Interruptions(h) <= Interruptions(h) + Flip(LastStanding(h), StandingOf(e))
        BY <1>3
    <2>. HIDE DEF g
    <2>4. Interruptions(g) <= Interruptions(h) + Flip(LastStanding(h), StandingOf(e))
        BY <2>1, <2>2, <2>3
    <2>. QED
        BY <1>1, <1>2, <2>4 DEF g
<1>. QED
    BY <1>5, <1>6

-----------------------------------------------------------------------------
(* The standings s[1], ..., s[n] of a resource, in states yet to be seen.  *)
(* By the first it had been interrupted m times, and total times by now.   *)
Chain(s, n, m, total) ==
    \E count \in [1..n -> Nat] :
        /\ count[1] = m
        /\ \A i \in 1..n : count[i] <= total /\ s[i] \in {"absent", "up", "down", "over"}
        /\ \A i \in 1..(n - 1) : /\ count[i] + Flip(s[i], s[i + 1]) <= count[i + 1]
                                 /\ Follows(s[i], s[i + 1])

(* A history h that can be continued by c, of a moment by which there had  *)
(* been m interruptions.                                                   *)
Before(h, c, m) ==
    /\ Interruptions(h) + Flip(LastStanding(h), c) <= m
    /\ Follows(LastStanding(h), c)

(* Nothing is listed: the first state of the cache may be recorded next.   *)
Idle(h, s, n, total) ==
    \E m \in Nat : Before(h, s[1], m) /\ Chain(s, n, m, total)

(* A state is listed, which the cache held then.                           *)
Holding(h, c, s, n, total) ==
    /\ c \in {"absent", "up", "down", "over"}
    /\ \E l, m \in Nat : /\ Before(h, c, l)
                         /\ l + Flip(c, s[1]) <= m /\ Follows(c, s[1])
                         /\ Chain(s, n, m, total)

Accounted(h, holding, c, s, n, total) ==
    IF holding THEN Holding(h, c, s, n, total) ELSE Idle(h, s, n, total)

-----------------------------------------------------------------------------
(* What the steps of an observer, its cache and the cluster do to them.    *)

(* Flip is a number that can be added up.                                  *)
LEMMA FlipIsNat ==
    ASSUME NEW a, NEW b
    PROVE  Flip(a, b) \in {0, 1}
    BY DEF Flip

(* The resource changes, and whatever interruptions that makes are counted. *)
LEMMA ChainGrows ==
    ASSUME NEW n \in Nat \ {0}, NEW s, NEW t, NEW m, NEW total \in Nat, NEW more \in Nat,
           Chain(s, n, m, total),
           \A i \in 1..n : t[i] = s[i],
           t[n + 1] \in {"absent", "up", "down", "over"},
           Follows(s[n], t[n + 1]), total + Flip(s[n], t[n + 1]) <= more
    PROVE  Chain(t, n + 1, m, more)
<1>1. PICK count \in [1..n -> Nat] :
        /\ count[1] = m
        /\ \A i \in 1..n : count[i] <= total /\ s[i] \in {"absent", "up", "down", "over"}
        /\ \A i \in 1..(n - 1) : /\ count[i] + Flip(s[i], s[i + 1]) <= count[i + 1]
                                 /\ Follows(s[i], s[i + 1])
    BY DEF Chain
<1>. DEFINE next == [i \in 1..(n + 1) |-> IF i = n + 1 THEN more ELSE count[i]]
<1>2. /\ next \in [1..(n + 1) -> Nat] /\ next[n + 1] = more
      /\ \A i \in 1..n : next[i] = count[i]
    OBVIOUS
<1>. HIDE DEF next
<1>3. total <= more
    BY FlipIsNat
<1>4. \A i \in 1..(n + 1) : i \in 1..n \/ i = n + 1
    OBVIOUS
<1>5. ASSUME NEW i \in 1..(n + 1)
      PROVE  next[i] <= more /\ t[i] \in {"absent", "up", "down", "over"}
    <2>1. CASE i \in 1..n
        <3>1. next[i] = count[i] /\ count[i] \in Nat /\ count[i] <= total /\ t[i] = s[i]
            BY <1>1, <1>2, <2>1
        <3>. QED
            BY <1>1, <1>3, <2>1, <3>1
    <2>2. CASE i = n + 1
        BY <1>2, <2>2
    <2>. QED
        BY <1>4, <2>1, <2>2
<1>6. ASSUME NEW i \in 1..n
      PROVE  next[i] + Flip(t[i], t[i + 1]) <= next[i + 1] /\ Follows(t[i], t[i + 1])
    <2>1. CASE i = n
        BY <1>1, <1>2, <2>1, FlipIsNat
    <2>2. CASE i # n
        <3>1. i \in 1..(n - 1) /\ i + 1 \in 1..n
            BY <2>2
        <3>. QED
            BY <1>1, <1>2, <3>1
    <2>. QED
        BY <2>1, <2>2
<1>7. next[1] = m /\ (n + 1) - 1 = n
    BY <1>1, <1>2
<1>. QED
    BY <1>2, <1>5, <1>6, <1>7 DEF Chain

(* More have been interrupted, as far as the resource is concerned.        *)
LEMMA ChainMore ==
    ASSUME NEW n \in Nat \ {0}, NEW s, NEW m, NEW total \in Nat, NEW more \in Nat,
           Chain(s, n, m, total), total <= more
    PROVE  Chain(s, n, m, more)
<1>1. PICK count \in [1..n -> Nat] :
        /\ count[1] = m
        /\ \A i \in 1..n : count[i] <= total /\ s[i] \in {"absent", "up", "down", "over"}
        /\ \A i \in 1..(n - 1) : /\ count[i] + Flip(s[i], s[i + 1]) <= count[i + 1]
                                 /\ Follows(s[i], s[i + 1])
    BY DEF Chain
<1>2. \A i \in 1..n : count[i] <= more
    BY <1>1
<1>. QED
    BY <1>1, <1>2 DEF Chain

(* The cache moves on to the next state.                                   *)
LEMMA ChainShrinks ==
    ASSUME NEW n \in Nat, n > 1, NEW s, NEW t, NEW m, NEW total \in Nat,
           Chain(s, n, m, total),
           \A i \in 1..(n - 1) : t[i] = s[i + 1]
    PROVE  /\ \E next \in Nat : /\ m + Flip(s[1], t[1]) <= next
                                /\ Chain(t, n - 1, next, total)
           /\ Follows(s[1], t[1])
           /\ s[1] \in {"absent", "up", "down", "over"}
<1>1. PICK count \in [1..n -> Nat] :
        /\ count[1] = m
        /\ \A i \in 1..n : count[i] <= total /\ s[i] \in {"absent", "up", "down", "over"}
        /\ \A i \in 1..(n - 1) : /\ count[i] + Flip(s[i], s[i + 1]) <= count[i + 1]
                                 /\ Follows(s[i], s[i + 1])
    BY DEF Chain
<1>. DEFINE rest == [i \in 1..(n - 1) |-> count[i + 1]]
<1>2. /\ rest \in [1..(n - 1) -> Nat]
      /\ \A i \in 1..(n - 1) : rest[i] = count[i + 1] /\ i + 1 \in 1..n
    OBVIOUS
<1>. HIDE DEF rest
<1>3. 1 \in 1..(n - 1) /\ 1 \in 1..n
    OBVIOUS
<1>4. \A i \in 1..((n - 1) - 1) : i \in 1..(n - 1) /\ i + 1 \in 1..(n - 1)
    OBVIOUS
<1>5. Chain(t, n - 1, rest[1], total)
    <2>1. \A i \in 1..(n - 1) : rest[i] <= total /\ t[i] \in {"absent", "up", "down", "over"}
        BY <1>1, <1>2
    <2>2. ASSUME NEW i \in 1..((n - 1) - 1)
          PROVE  /\ rest[i] + Flip(t[i], t[i + 1]) <= rest[i + 1]
                 /\ Follows(t[i], t[i + 1])
        BY <1>1, <1>2, <1>4
    <2>. QED
        BY <1>2, <2>1, <2>2 DEF Chain
<1>6. m + Flip(s[1], t[1]) <= rest[1] /\ Follows(s[1], t[1])
    BY <1>1, <1>2, <1>3
<1>. QED
    BY <1>1, <1>2, <1>3, <1>5, <1>6

(* The same of a history and what may be recorded in it.                   *)

(* The resource changes, and the change is counted.                        *)
LEMMA AccountedGrows ==
    ASSUME NEW h, NEW holding, NEW c,
           NEW n \in Nat \ {0}, NEW s, NEW t, NEW total \in Nat, NEW more \in Nat,
           Accounted(h, holding, c, s, n, total),
           \A i \in 1..n : t[i] = s[i],
           t[n + 1] \in {"absent", "up", "down", "over"},
           Follows(s[n], t[n + 1]), total + Flip(s[n], t[n + 1]) <= more
    PROVE  Accounted(h, holding, c, t, n + 1, more)
<1>1. \A m : Chain(s, n, m, total) => Chain(t, n + 1, m, more)
    BY ChainGrows
<1>2. t[1] = s[1]
    OBVIOUS
<1>. QED
    BY <1>1, <1>2 DEF Accounted, Idle, Holding

(* More is counted than needed.                                            *)
LEMMA AccountedMore ==
    ASSUME NEW h, NEW holding, NEW c,
           NEW n \in Nat \ {0}, NEW s, NEW total \in Nat, NEW more \in Nat,
           Accounted(h, holding, c, s, n, total), total <= more
    PROVE  Accounted(h, holding, c, s, n, more)
<1>1. \A m : Chain(s, n, m, total) => Chain(s, n, m, more)
    BY ChainMore
<1>. QED
    BY <1>1 DEF Accounted, Idle, Holding

(* The cache sees a change.                                                *)
LEMMA AccountedShrinks ==
    ASSUME NEW h \in Seq(UpEvent), NEW holding, NEW c,
           NEW n \in Nat, n > 1, NEW s, NEW t, NEW total \in Nat,
           Accounted(h, holding, c, s, n, total),
           \A i \in 1..(n - 1) : t[i] = s[i + 1]
    PROVE  Accounted(h, holding, c, t, n - 1, total)
<1>1. ASSUME NEW m \in Nat, Chain(s, n, m, total)
      PROVE  /\ \E next \in Nat : /\ m + Flip(s[1], t[1]) <= next
                                  /\ Chain(t, n - 1, next, total)
             /\ Follows(s[1], t[1]) /\ s[1] \in {"absent", "up", "down", "over"}
    BY <1>1, ChainShrinks
<1>2. CASE holding
    <2>1. PICK l \in Nat, m \in Nat : /\ Before(h, c, l)
                                      /\ l + Flip(c, s[1]) <= m /\ Follows(c, s[1])
                                      /\ Chain(s, n, m, total)
        BY <1>2 DEF Accounted, Holding
    <2>2. PICK next \in Nat : m + Flip(s[1], t[1]) <= next /\ Chain(t, n - 1, next, total)
        BY <1>1, <2>1
    <2>3. Follows(s[1], t[1]) /\ s[1] \in {"absent", "up", "down", "over"}
        BY <1>1, <2>1
    <2>4. Follows(c, t[1]) /\ Flip(c, t[1]) <= Flip(c, s[1]) + Flip(s[1], t[1])
        BY <2>1, <2>3, FlipThrough
    <2>5. l + Flip(c, t[1]) <= next
        BY <2>1, <2>2, <2>4, FlipIsNat
    <2>. QED
        BY <1>2, <2>1, <2>2, <2>4, <2>5 DEF Accounted, Holding
<1>3. CASE ~holding
    <2>1. PICK m \in Nat : Before(h, s[1], m) /\ Chain(s, n, m, total)
        BY <1>3 DEF Accounted, Idle
    <2>2. PICK next \in Nat : m + Flip(s[1], t[1]) <= next /\ Chain(t, n - 1, next, total)
        BY <1>1, <2>1
    <2>3. Follows(s[1], t[1]) /\ s[1] \in {"absent", "up", "down", "over"}
        BY <1>1, <2>1
    <2>. DEFINE last == LastStanding(h)
    <2>4. Interruptions(h) + Flip(last, s[1]) <= m /\ Follows(last, s[1])
        BY <2>1 DEF Before
    <2>5. Follows(last, t[1]) /\ Flip(last, t[1]) <= Flip(last, s[1]) + Flip(s[1], t[1])
        <3>. HIDE DEF last
        <3>. QED
            BY <2>3, <2>4, FlipThrough
    <2>6. Interruptions(h) + Flip(last, t[1]) <= next
        <3>. HIDE DEF last
        <3>. QED
            BY <2>2, <2>4, <2>5, FlipIsNat, InterruptionsAreFinite
    <2>7. Before(h, t[1], next)
        BY <2>5, <2>6 DEF Before
    <2>. QED
        BY <1>3, <2>2, <2>7 DEF Accounted, Idle
<1>. QED
    BY <1>2, <1>3

(* The content of the cache is listed.                                     *)
LEMMA Lists ==
    ASSUME NEW h, NEW n \in Nat \ {0}, NEW s, NEW total \in Nat, Idle(h, s, n, total)
    PROVE  Holding(h, s[1], s, n, total)
<1>1. PICK m \in Nat : Before(h, s[1], m) /\ Chain(s, n, m, total)
    BY DEF Idle
<1>2. s[1] \in {"absent", "up", "down", "over"}
    BY <1>1 DEF Chain
<1>3. m + Flip(s[1], s[1]) <= m /\ Follows(s[1], s[1])
    BY DEF Flip, Follows
<1>. QED
    BY <1>1, <1>2, <1>3 DEF Holding

(* A list is thrown away.                                                  *)
LEMMA Forgets ==
    ASSUME NEW h \in Seq(UpEvent), NEW c, NEW n, NEW s, NEW total,
           Holding(h, c, s, n, total)
    PROVE  Idle(h, s, n, total)
<1>1. PICK l \in Nat, m \in Nat : /\ Before(h, c, l)
                                  /\ l + Flip(c, s[1]) <= m /\ Follows(c, s[1])
                                  /\ Chain(s, n, m, total)
    BY DEF Holding
<1>. DEFINE last == LastStanding(h)
<1>2. Interruptions(h) + Flip(last, c) <= l /\ Follows(last, c)
    BY <1>1 DEF Before
<1>. HIDE DEF last
<1>3. Follows(last, s[1]) /\ Flip(last, s[1]) <= Flip(last, c) + Flip(c, s[1])
    BY <1>1, <1>2, FlipThrough DEF Holding
<1>4. Interruptions(h) + Flip(last, s[1]) <= m
    BY <1>1, <1>2, <1>3, FlipIsNat, InterruptionsAreFinite
<1>5. Before(h, s[1], m)
    BY <1>3, <1>4 DEF Before, last
<1>. QED
    BY <1>1, <1>5 DEF Idle

(* What is listed is recorded.                                             *)
LEMMA Records ==
    ASSUME NEW h \in Seq(UpEvent), NEW e \in UpEvent, NEW n, NEW s, NEW total,
           Holding(h, StandingOf(e), s, n, total)
    PROVE  Idle(AppendUpEvent(h, e), s, n, total)
<1>. DEFINE c == StandingOf(e)
            g == AppendUpEvent(h, e)
<1>1. PICK l \in Nat, m \in Nat : /\ Before(h, c, l)
                                  /\ l + Flip(c, s[1]) <= m /\ Follows(c, s[1])
                                  /\ Chain(s, n, m, total)
    BY DEF Holding
<1>2. Interruptions(h) + Flip(LastStanding(h), c) <= l
    BY <1>1 DEF Before
<1>3. /\ g \in Seq(UpEvent)
      /\ Interruptions(g) <= Interruptions(h) + Flip(LastStanding(h), c)
      /\ LastStanding(g) = c
    BY RecordingFlips
<1>. HIDE DEF c, g
<1>4. Interruptions(g) + Flip(c, s[1]) <= m
    BY <1>1, <1>2, <1>3, FlipIsNat, InterruptionsAreFinite
<1>5. Before(g, s[1], m)
    BY <1>1, <1>3, <1>4 DEF Before
<1>. QED
    BY <1>1, <1>5 DEF Idle, g

(* A history is given up.                                                  *)
LEMMA StartsOver ==
    ASSUME NEW h, NEW holding, NEW c, NEW n, NEW s, NEW total,
           Accounted(h, holding, c, s, n, total)
    PROVE  Idle(<< >>, s, n, total)
<1>1. PICK m \in Nat : Chain(s, n, m, total)
    BY DEF Accounted, Holding, Idle
<1>2. Interruptions(<< >>) = 0
    BY NoneAtFirst
<1>3. LastStanding(<< >>) = "absent" /\ Flip("absent", s[1]) = 0
    BY DEF LastStanding, Flip
<1>4. 0 + 0 <= m
    OBVIOUS
<1>5. Follows("absent", s[1])
    BY DEF Follows
<1>6. Before(<< >>, s[1], m)
    BY <1>2, <1>3, <1>4, <1>5, Zenon DEF Before
<1>. QED
    BY <1>1, <1>6 DEF Idle

(* What is accounted for was real.                                         *)
LEMMA AccountedIsReal ==
    ASSUME NEW h \in Seq(UpEvent), NEW holding, NEW c, NEW n \in Nat \ {0}, NEW s,
           NEW total \in Nat, Accounted(h, holding, c, s, n, total)
    PROVE  Interruptions(h) <= total
<1>1. Idle(h, s, n, total)
    BY Forgets DEF Accounted
<1>2. PICK m \in Nat : Before(h, s[1], m) /\ Chain(s, n, m, total)
    BY <1>1 DEF Idle
<1>3. m <= total
    BY <1>2 DEF Chain
<1>4. Interruptions(h) + Flip(LastStanding(h), s[1]) <= m
    BY <1>2 DEF Before
<1>. QED
    BY <1>2, <1>3, <1>4, FlipIsNat, InterruptionsAreFinite

-----------------------------------------------------------------------------
(* How each resource stands in a state of the cluster.                     *)

Workloads == {"jobsets", "leader-worker-sets"}

KindOf(k) == IF k = "jobsets" THEN "jobsets" ELSE "leaderworkersets"

WorkloadUps(k, state) ==
    IF k = "jobsets" THEN JobSetsUp(state) ELSE processLeaderWorkerSets(state)

WorkloadStanding(k, u, state) == Standing(state[u].exists, WorkloadUps(k, state), u)

(* The nodes of a JobSet, whether or not it exists.                        *)
Existing == [u \in JobSets |-> [exists |-> "yes"]]

JobSetNodesStanding(u, state) == Standing("yes", JobSetNodesUp(Existing, state), u)

(* The nodes of a node pool, as if it were running.                        *)
AllRunning == [p \in NodePools |-> "RUNNING"]

NodePoolStanding(p, state) == Standing("yes", NodePoolsUp(state, AllRunning), p)

Tracked == {p \in NodePools : /\ IsTPUNodePool(p)
                              /\ Parses(PoolSpec[p].topology, PoolSpec[p].chips)}

-----------------------------------------------------------------------------
(* Every history, held against the states that may still be recorded.      *)

CountInv ==
    \A k \in Keys : \A r \in Observed(k) : interrupted[k][r] \in Nat

PoolsInv ==
    pools \in [NodePools -> {"NONE", "PROVISIONING", "RUNNING", "RUNNING_WITH_ERROR",
                             "ERROR", "STOPPING", "GONE"}]

ExistsInv ==
    \A k \in Workloads : \A i \in 1..Len(watch[KindOf(k)]) : \A u \in Observed(k) :
        /\ "exists" \in DOMAIN watch[KindOf(k)][i][u]
        /\ watch[KindOf(k)][i][u].exists \in {"no", "yes", "gone"}

WorkloadsInv ==
    \A k \in Workloads : \A u \in Observed(k) :
        Accounted(HistoryOf(store[k], u), pc["workload"] = "nodes",
                  WorkloadStanding(k, u, listed[KindOf(k)]),
                  [i \in 1..Len(watch[KindOf(k)]) |->
                     WorkloadStanding(k, u, watch[KindOf(k)][i])],
                  Len(watch[KindOf(k)]), interrupted[k][u])

JobSetNodesInv ==
    \A u \in JobSets :
        Idle(HistoryOf(store["jobset-nodes"], u),
             [i \in 1..Len(watch["nodes"]) |-> JobSetNodesStanding(u, watch["nodes"][i])],
             Len(watch["nodes"]), interrupted["jobset-nodes"][u])

(* Once a node pool is being deleted its nodes do not matter any more.     *)
NodePoolsInv ==
    /\ DOMAIN store["node-pools"] \subseteq Tracked
    /\ \A p \in Tracked :
         /\ Interruptions(HistoryOf(store["node-pools"], p)) <= interrupted["node-pools"][p]
         /\ pools[p] \notin {"STOPPING", "GONE"} =>
              Accounted(HistoryOf(store["node-pools"], p), pc["poller"] = "append",
                        NodePoolStanding(p, listed["nodes"]),
                        [i \in 1..Len(watch["nodes"]) |-> NodePoolStanding(p, watch["nodes"][i])],
                        Len(watch["nodes"]), interrupted["node-pools"][p])

RealInv ==
    /\ CountInv /\ PoolsInv /\ ExistsInv
    /\ WorkloadsInv /\ JobSetNodesInv /\ NodePoolsInv

-----------------------------------------------------------------------------
(* What is counted.                                                        *)

(* Truth judges the cluster as it is, ...                                  *)
LEMMA TruthNow ==
    /\ Truth["node-pools"] = NodePoolsUp(Now("nodes"), pools)
    /\ \A k \in Workloads : Truth[k] = WorkloadUps(k, Now(KindOf(k)))
    /\ Truth["jobset-nodes"] = JobSetNodesUp(Existing, Now("nodes"))
<1>. DEFINE nodes == Now("nodes")
            jobsets == Now("jobsets")
            lwss == Now("leaderworkersets")
            judged == JobSetNodesUp(Existing, nodes)
            ups == Upnesses(nodes, pools, jobsets, lwss)
<1>1. Truth = [ups EXCEPT !["jobset-nodes"] = judged]
    BY DEF Truth, Existing
<1>2. /\ ups["node-pools"] = NodePoolsUp(nodes, pools)
      /\ ups["jobsets"] = JobSetsUp(jobsets)
      /\ ups["leader-worker-sets"] = processLeaderWorkerSets(lwss)
    BY UpnessesAre
<1>3. DOMAIN ups = Keys
    BY DEF Upnesses
<1>4. \A k \in Workloads : Now(KindOf(k)) = IF k = "jobsets" THEN jobsets ELSE lwss
    BY DEF KindOf, Now
<1>. HIDE DEF nodes, jobsets, lwss, judged, ups
<1>5. /\ Truth["node-pools"] = NodePoolsUp(nodes, pools)
      /\ Truth["jobsets"] = JobSetsUp(jobsets)
      /\ Truth["leader-worker-sets"] = processLeaderWorkerSets(lwss)
      /\ Truth["jobset-nodes"] = judged
    BY <1>1, <1>2, <1>3 DEF Keys
<1>6. \A k \in Workloads : Truth[k] = WorkloadUps(k, Now(KindOf(k)))
    BY <1>4, <1>5 DEF Workloads, WorkloadUps
<1>. QED
    BY <1>5, <1>6 DEF nodes, judged

(* ... also after a step.                                                  *)
LEMMA TruthNext ==
    /\ Truth'["node-pools"] = NodePoolsUp(Now("nodes")', pools')
    /\ \A k \in Workloads : Truth'[k] = WorkloadUps(k, Now(KindOf(k))')
    /\ Truth'["jobset-nodes"] = JobSetNodesUp(Existing, Now("nodes")')
<1>. DEFINE nodes == Now("nodes")'
            jobsets == Now("jobsets")'
            lwss == Now("leaderworkersets")'
            judged == JobSetNodesUp(Existing, nodes)
            ups == Upnesses(nodes, pools', jobsets, lwss)
<1>1. Truth' = [ups EXCEPT !["jobset-nodes"] = judged]
    BY DEF Truth, Existing
<1>2. /\ ups["node-pools"] = NodePoolsUp(nodes, pools')
      /\ ups["jobsets"] = JobSetsUp(jobsets)
      /\ ups["leader-worker-sets"] = processLeaderWorkerSets(lwss)
    BY UpnessesAre
<1>3. DOMAIN ups = Keys
    BY DEF Upnesses
<1>4. \A k \in Workloads : Now(KindOf(k))' = IF k = "jobsets" THEN jobsets ELSE lwss
    BY DEF KindOf, Now
<1>. HIDE DEF nodes, jobsets, lwss, judged, ups
<1>5. /\ Truth'["node-pools"] = NodePoolsUp(nodes, pools')
      /\ Truth'["jobsets"] = JobSetsUp(jobsets)
      /\ Truth'["leader-worker-sets"] = processLeaderWorkerSets(lwss)
      /\ Truth'["jobset-nodes"] = judged
    BY <1>1, <1>2, <1>3 DEF Keys
<1>6. \A k \in Workloads : Truth'[k] = WorkloadUps(k, Now(KindOf(k))')
    BY <1>4, <1>5 DEF Workloads, WorkloadUps
<1>. QED
    BY <1>5, <1>6 DEF nodes, judged

(* The environment counts every interruption, and only upwards.            *)
LEMMA EveryFlipCounts ==
    ASSUME CountInv, CountInterruptions
    PROVE  /\ CountInv'
           /\ \A k \in Keys : \A r \in Observed(k) :
                /\ interrupted[k][r] <= interrupted'[k][r]
                /\ Interrupted(r, Truth[k], Truth'[k]) =>
                     interrupted'[k][r] = interrupted[k][r] + 1
<1>. DEFINE old == Truth
            new == Truth'
            by(k, r) == IF Interrupted(r, old[k], new[k]) THEN 1 ELSE 0
<1>1. interrupted' = [k \in Keys |-> [r \in Observed(k) |-> interrupted[k][r] + by(k, r)]]
    BY DEF CountInterruptions
<1>2. \A k, r : by(k, r) \in {0, 1} /\ (Interrupted(r, old[k], new[k]) => by(k, r) = 1)
    OBVIOUS
<1>. HIDE DEF by, old, new
<1>3. ASSUME NEW k \in Keys, NEW r \in Observed(k)
      PROVE  interrupted[k][r] \in Nat /\ interrupted'[k][r] = interrupted[k][r] + by(k, r)
    BY <1>1 DEF CountInv
<1>4. ASSUME NEW k \in Keys, NEW r \in Observed(k)
      PROVE  /\ interrupted'[k][r] \in Nat /\ interrupted[k][r] <= interrupted'[k][r]
             /\ Interrupted(r, old[k], new[k]) => interrupted'[k][r] = interrupted[k][r] + 1
    BY <1>2, <1>3
<1>. QED
    BY <1>4 DEF CountInv, old, new

(* A flip is an interruption.                                              *)
LEMMA FlipIsInterruption ==
    ASSUME NEW a, NEW b, NEW old, NEW new, NEW r,
           Standing(a, old, r) = "up", Standing(b, new, r) = "down"
    PROVE  Interrupted(r, old, new)
    BY DEF Standing, Interrupted

(* The standings there are; a resource that never existed is absent.       *)
LEMMA StandingIs ==
    ASSUME NEW a, NEW ups, NEW r
    PROVE  /\ Standing(a, ups, r) \in {"absent", "up", "down", "over"}
           /\ Standing(a, ups, r) = "absent" <=> a = "no"
    BY DEF Standing

(* The event that is recorded of a resource says how it stands.            *)
LEMMA EventStands ==
    ASSUME NEW ups, NEW r \in DOMAIN ups, NEW a, a # "no",
           ups[r].ExpectedDown \in BOOLEAN
    PROVE  StandingOf(EventOf(ups[r], 0)) = Standing(a, ups, r)
<1>1. EventOf(ups[r], 0).ExpectedDown = ups[r].ExpectedDown
    BY DEF EventOf
<1>2. ups[r].ExpectedDown => ~EventOf(ups[r], 0).Up
    BY DEF EventOf
<1>3. IsUp(ups[r]) = EventOf(ups[r], 0).Up
    BY DEF IsUp
<1>. QED
    BY <1>1, <1>2, <1>3 DEF StandingOf, Standing

-----------------------------------------------------------------------------
(* What changes of the cluster do.                                         *)

(* A change of the cluster is the last state its cache has yet to see.     *)
LEMMA HappensShape ==
    ASSUME WatchInv, NEW kind \in Kinds, NEW state, Happens(kind, state)
    PROVE  /\ Len(watch'[kind]) = Len(watch[kind]) + 1
           /\ \A i \in 1..Len(watch[kind]) : watch'[kind][i] = watch[kind][i]
           /\ watch'[kind][Len(watch[kind]) + 1] = state
           /\ Now(kind)' = state
           /\ \A other \in Kinds \ {kind} : watch'[other] = watch[other]
           /\ UNCHANGED pools
<1>. DEFINE w == watch[kind]
            v == Append(w, state)
<1>1. IsSeq(w)
    BY DEF WatchInv
<1>2. /\ Len(w) \in Nat /\ Len(v) = Len(w) + 1
      /\ \A i \in 1..Len(w) : v[i] = w[i]
      /\ v[Len(w) + 1] = state
    <2>. HIDE DEF w
    <2>. QED
        BY <1>1, AppendIsSeq
<1>3. /\ watch'[kind] = v
      /\ \A other \in Kinds \ {kind} : watch'[other] = watch[other]
      /\ UNCHANGED pools
    BY DEF Happens, WatchInv
<1>. HIDE DEF v
<1>. QED
    BY <1>2, <1>3 DEF Now

(* A cache that sees a change drops the state it had.                      *)
LEMMA CacheShape ==
    ASSUME WatchInv, NEW kind \in Kinds, CacheUpdates(kind)
    PROVE  /\ Len(watch[kind]) > 1 /\ Len(watch'[kind]) = Len(watch[kind]) - 1
           /\ \A i \in 1..(Len(watch[kind]) - 1) : watch'[kind][i] = watch[kind][i + 1]
           /\ \A other \in Kinds \ {kind} : watch'[other] = watch[other]
<1>. DEFINE w == watch[kind]
            v == Tail(w)
<1>1. IsSeq(w) /\ w # << >>
    BY DEF WatchInv
<1>2. /\ Len(w) \in Nat /\ Len(v) = Len(w) - 1
      /\ \A i \in 1..(Len(w) - 1) : v[i] = w[i + 1]
    <2>. HIDE DEF w
    <2>. QED
        BY <1>1, TailIsSeq
<1>3. /\ watch'[kind] = v /\ Len(w) > 1
      /\ \A other \in Kinds \ {kind} : watch'[other] = watch[other]
    BY DEF CacheUpdates, WatchInv
<1>. HIDE DEF v
<1>. QED
    BY <1>2, <1>3

(* How a workload stands depends on nothing but the workload.              *)
LEMMA StandingOfOne ==
    ASSUME NEW k \in Workloads, NEW u, NEW old, NEW new,
           DOMAIN old = DOMAIN new, u \in DOMAIN old, old[u] = new[u]
    PROVE  WorkloadStanding(k, u, old) = WorkloadStanding(k, u, new)
<1>1. CASE k = "jobsets"
    <2>1. u \in DOMAIN JobSetsUp(old) <=> u \in DOMAIN JobSetsUp(new)
        BY DEF JobSetsUp, Listed
    <2>2. u \in DOMAIN JobSetsUp(old) => JobSetsUp(old)[u] = JobSetsUp(new)[u]
        BY <2>1 DEF JobSetsUp
    <2>. QED
        BY <1>1, <2>1, <2>2 DEF WorkloadStanding, WorkloadUps, Standing
<1>2. CASE k = "leader-worker-sets"
    <2>1. u \in DOMAIN processLeaderWorkerSets(old) <=> u \in DOMAIN processLeaderWorkerSets(new)
        BY DEF processLeaderWorkerSets, Listed
    <2>2. u \in DOMAIN processLeaderWorkerSets(old) =>
            processLeaderWorkerSets(old)[u] = processLeaderWorkerSets(new)[u]
        BY <2>1 DEF processLeaderWorkerSets
    <2>. QED
        BY <1>2, <2>1, <2>2 DEF WorkloadStanding, WorkloadUps, Standing
<1>. QED
    BY <1>1, <1>2 DEF Workloads

(* A workload comes into being, goes on, or is over, in this order.        *)
LEMMA WorkloadFollows ==
    ASSUME NEW k \in Workloads, NEW u, NEW old, NEW new, u \in DOMAIN old, u \in DOMAIN new,
           \/ old[u].exists = "no" /\ new[u].exists = "yes"
           \/ new[u].exists = "gone"
           \/ /\ old[u].exists = "yes" /\ new[u].exists = "yes"
              /\ k = "jobsets" => GetJobSetTerminalState(old[u]) # "Completed"
    PROVE  Follows(WorkloadStanding(k, u, old), WorkloadStanding(k, u, new))
<1>1. ASSUME NEW state, u \in DOMAIN state
      PROVE  u \in DOMAIN WorkloadUps(k, state) <=> state[u].exists = "yes"
    BY <1>1 DEF WorkloadUps, JobSetsUp, processLeaderWorkerSets, Listed
<1>2. CASE old[u].exists = "no" /\ new[u].exists = "yes"
    BY <1>2 DEF Follows, WorkloadStanding, Standing
<1>3. CASE new[u].exists = "gone"
    BY <1>1, <1>3 DEF Follows, WorkloadStanding, Standing
<1>4. CASE /\ old[u].exists = "yes" /\ new[u].exists = "yes"
           /\ k = "jobsets" => GetJobSetTerminalState(old[u]) # "Completed"
    <2>1. u \in DOMAIN WorkloadUps(k, old)
        BY <1>1, <1>4
    <2>2. ~WorkloadUps(k, old)[u].ExpectedDown
        BY <1>4, <2>1 DEF WorkloadUps, JobSetsUp, processLeaderWorkerSets
    <2>. QED
        BY <1>4, <2>1, <2>2 DEF Follows, WorkloadStanding, Standing
<1>. QED
    BY <1>2, <1>3, <1>4

(* What exists has been created, and what is gone does not return.         *)
Onward(old, new) == (old # "no" => new # "no") /\ (old = "gone" => new = "gone")

(* What becomes of the workloads under a key.                              *)
WorkloadsChange(k) ==
    \E state :
        /\ Happens(KindOf(k), state) /\ DOMAIN state = Observed(k)
        /\ \A u \in Observed(k) :
             /\ "exists" \in DOMAIN state[u] /\ state[u].exists \in {"no", "yes", "gone"}
             /\ Onward(Now(KindOf(k))[u].exists, state[u].exists)
             /\ Follows(WorkloadStanding(k, u, Now(KindOf(k))), WorkloadStanding(k, u, state))

(* Every workload exists, existed, or is yet to be created.                *)
LEMMA WorkloadsNow ==
    ASSUME WatchInv, ExistsInv, NEW k \in Workloads
    PROVE  /\ KindOf(k) \in Kinds /\ k \in Keys
           /\ DOMAIN Now(KindOf(k)) = Observed(k) /\ DOMAIN Cached(KindOf(k)) = Observed(k)
           /\ \A u \in Observed(k) :
                /\ "exists" \in DOMAIN Now(KindOf(k))[u]
                /\ Now(KindOf(k))[u].exists \in {"no", "yes", "gone"}
<1>1. KindOf(k) \in Kinds /\ k \in Keys
    BY DEF Workloads, KindOf, Kinds, Keys
<1>2. DOMAIN Now(KindOf(k)) = Observed(k) /\ DOMAIN Cached(KindOf(k)) = Observed(k)
    BY ShapesOfNow, ObservedIs DEF Workloads, KindOf
<1>3. /\ Len(watch[KindOf(k)]) \in 1..Len(watch[KindOf(k)])
      /\ Now(KindOf(k)) = watch[KindOf(k)][Len(watch[KindOf(k)])]
    BY <1>1, CachedAndNow
<1>. QED
    BY <1>1, <1>2, <1>3 DEF ExistsInv

(* A change of one workload that a workload may undergo.                   *)
LEMMA OneWorkload ==
    ASSUME WatchInv, ExistsInv, NEW k \in Workloads, NEW u \in Observed(k), NEW new,
           "exists" \in DOMAIN new,
           Happens(KindOf(k), [Now(KindOf(k)) EXCEPT ![u] = new]),
           \/ Now(KindOf(k))[u].exists = "no" /\ new.exists = "yes"
           \/ new.exists = "gone"
           \/ /\ Now(KindOf(k))[u].exists = "yes" /\ new.exists = "yes"
              /\ k = "jobsets" => GetJobSetTerminalState(Now(KindOf(k))[u]) # "Completed"
    PROVE  WorkloadsChange(k)
<1>. DEFINE old == Now(KindOf(k))
            state == [old EXCEPT ![u] = new]
<1>1. /\ DOMAIN old = Observed(k)
      /\ \A v \in Observed(k) : /\ "exists" \in DOMAIN old[v]
                                /\ old[v].exists \in {"no", "yes", "gone"}
    BY WorkloadsNow
<1>2. /\ DOMAIN state = Observed(k) /\ state[u] = new
      /\ \A v \in Observed(k) \ {u} : state[v] = old[v]
    BY <1>1
<1>3. Happens(KindOf(k), state)
    OBVIOUS
<1>4. \/ old[u].exists = "no" /\ new.exists = "yes"
      \/ new.exists = "gone"
      \/ /\ old[u].exists = "yes" /\ new.exists = "yes"
         /\ k = "jobsets" => GetJobSetTerminalState(old[u]) # "Completed"
    OBVIOUS
<1>. HIDE DEF state, old
<1>5. Follows(WorkloadStanding(k, u, old), WorkloadStanding(k, u, state))
    BY <1>1, <1>2, <1>4, WorkloadFollows
<1>6. ASSUME NEW v \in Observed(k), v # u
      PROVE  Follows(WorkloadStanding(k, v, old), WorkloadStanding(k, v, state))
    <2>1. WorkloadStanding(k, v, old) = WorkloadStanding(k, v, state)
        BY <1>1, <1>2, <1>6, StandingOfOne
    <2>. QED
        BY <2>1 DEF Follows
<1>7. new.exists \in {"no", "yes", "gone"}
    BY <1>4
<1>8. ASSUME NEW v \in Observed(k)
      PROVE  /\ "exists" \in DOMAIN state[v] /\ state[v].exists \in {"no", "yes", "gone"}
             /\ Onward(old[v].exists, state[v].exists)
             /\ Follows(WorkloadStanding(k, v, old), WorkloadStanding(k, v, state))
    BY <1>1, <1>2, <1>4, <1>5, <1>6, <1>7 DEF Onward
<1>. QED
    BY <1>2, <1>3, <1>8 DEF WorkloadsChange, old

(* The steps of a JobSet are such changes, ...                             *)
LEMMA JobSetBecomesChanges ==
    ASSUME WatchInv, ExistsInv, NEW u \in JobSets, NEW js, JobSetBecomes(u, js),
           "exists" \in DOMAIN js,
           \/ Now("jobsets")[u].exists = "no" /\ js.exists = "yes"
           \/ js.exists = "gone"
           \/ /\ Now("jobsets")[u].exists = "yes" /\ js.exists = "yes"
              /\ GetJobSetTerminalState(Now("jobsets")[u]) # "Completed"
    PROVE  WorkloadsChange("jobsets")
<1>1. "jobsets" \in Workloads /\ KindOf("jobsets") = "jobsets" /\ u \in Observed("jobsets")
    BY ObservedIs DEF Workloads, KindOf
<1>2. Happens("jobsets", [Now("jobsets") EXCEPT ![u] = js])
    BY DEF JobSetBecomes
<1>. QED
    BY <1>1, <1>2, OneWorkload

(* A JobSet that has completed stays so: nothing but its deletion, and     *)
(* what needs it to run or to be suspended, can still happen to it.        *)
LEMMA JobSetSteps ==
    ASSUME WatchInv, ExistsInv, NEW u \in JobSets,
           \/ JobSetCreated(u) \/ JobSetDeleted(u) \/ JobSetResumed(u)
           \/ \E i \in DOMAIN JobSetSpec[u].jobs : JobReady(u, i) \/ JobSucceeds(u, i) \/ JobLost(u, i)
           \/ \E type \in {"Failed", "Suspended"} : JobSetStops(u, type)
    PROVE  WorkloadsChange("jobsets") /\ CountInterruptions
<1>. DEFINE old == Now("jobsets")
            js == old[u]
<1>1. DOMAIN old = JobSets /\ "exists" \in DOMAIN js
    <2>1. "jobsets" \in Workloads /\ KindOf("jobsets") = "jobsets"
        BY DEF Workloads, KindOf
    <2>. QED
        BY <2>1, WorkloadsNow, ObservedIs
<1>2. ASSUME Runs(old, u)
      PROVE  js.exists = "yes" /\ GetJobSetTerminalState(js) # "Completed"
    BY <1>2 DEF Runs, Listed
<1>. HIDE DEF js, old
<1>3. ASSUME NEW new, JobSetBecomes(u, new), "exists" \in DOMAIN new,
             \/ js.exists = "no" /\ new.exists = "yes"
             \/ new.exists = "gone"
             \/ /\ js.exists = "yes" /\ new.exists = "yes"
                /\ GetJobSetTerminalState(js) # "Completed"
      PROVE  WorkloadsChange("jobsets")
    BY <1>3, JobSetBecomesChanges DEF js, old
<1>4. CASE JobSetCreated(u)
    <2>. DEFINE new == [js EXCEPT !.exists = "yes"]
    <2>1. JobSetBecomes(u, new) /\ js.exists = "no" /\ CountInterruptions
        BY <1>4 DEF JobSetCreated, ClusterStep, js, old
    <2>2. "exists" \in DOMAIN new /\ new.exists = "yes"
        BY <1>1
    <2>. HIDE DEF new
    <2>. QED
        BY <1>3, <2>1, <2>2
<1>5. CASE JobSetDeleted(u)
    <2>. DEFINE new == [js EXCEPT !.exists = "gone"]
    <2>1. JobSetBecomes(u, new) /\ CountInterruptions
        BY <1>5 DEF JobSetDeleted, ClusterStep, js, old
    <2>2. "exists" \in DOMAIN new /\ new.exists = "gone"
        BY <1>1
    <2>. HIDE DEF new
    <2>. QED
        BY <1>3, <2>1, <2>2
<1>6. CASE JobSetResumed(u)
    <2>. DEFINE conditions == [i \in DOMAIN js.conditions |->
                  IF js.conditions[i].Type = "Suspended"
                  THEN [js.conditions[i] EXCEPT !.Status = FALSE] ELSE js.conditions[i]]
                new == [js EXCEPT !.conditions = conditions]
    <2>1. JobSetBecomes(u, new) /\ CountInterruptions
        BY <1>6, Zenon DEF JobSetResumed, ClusterStep, js, old
    <2>2. js.exists = "yes" /\ GetJobSetTerminalState(js) # "Completed"
        BY <1>6 DEF JobSetResumed, Listed, js, old
    <2>. HIDE DEF conditions
    <2>3. "exists" \in DOMAIN new /\ new.exists = js.exists
        BY <1>1
    <2>. HIDE DEF new
    <2>. QED
        BY <1>3, <2>1, <2>2, <2>3
<1>7. ASSUME NEW i, JobReady(u, i)
      PROVE  WorkloadsChange("jobsets") /\ CountInterruptions
    <2>. DEFINE new == [js EXCEPT !.ready[i] = @ + 1]
    <2>1. JobSetBecomes(u, new) /\ Runs(old, u) /\ CountInterruptions
        BY <1>7 DEF JobReady, ClusterStep, js, old
    <2>2. "exists" \in DOMAIN new /\ new.exists = js.exists
        BY <1>1
    <2>. HIDE DEF new
    <2>. QED
        BY <1>2, <1>3, <2>1, <2>2
<1>8. ASSUME NEW i, JobLost(u, i)
      PROVE  WorkloadsChange("jobsets") /\ CountInterruptions
    <2>. DEFINE new == [js EXCEPT !.ready[i] = @ - 1]
    <2>1. JobSetBecomes(u, new) /\ Runs(old, u) /\ CountInterruptions
        BY <1>8 DEF JobLost, ClusterStep, js, old
    <2>2. "exists" \in DOMAIN new /\ new.exists = js.exists
        BY <1>1
    <2>. HIDE DEF new
    <2>. QED
        BY <1>2, <1>3, <2>1, <2>2
<1>9. ASSUME NEW i, JobSucceeds(u, i)
      PROVE  WorkloadsChange("jobsets") /\ CountInterruptions
    <2>. DEFINE succeeded == [js.succeeded EXCEPT ![i] = @ + 1]
                done == \A j \in DOMAIN succeeded : succeeded[j] = JobSetSpec[u].jobs[j].replicas
                conditions == IF done THEN Append(js.conditions, [Type |-> "Completed", Status |-> TRUE])
                                      ELSE js.conditions
                new == [js EXCEPT !.ready[i] = @ - 1, !.succeeded = succeeded,
                                  !.conditions = conditions]
    <2>1. JobSetBecomes(u, new) /\ Runs(old, u) /\ CountInterruptions
        BY <1>9, Zenon DEF JobSucceeds, ClusterStep, js, old
    <2>. HIDE DEF succeeded, conditions
    <2>2. "exists" \in DOMAIN new /\ new.exists = js.exists
        BY <1>1
    <2>. HIDE DEF new
    <2>. QED
        BY <1>2, <1>3, <2>1, <2>2
<1>10. ASSUME NEW type, JobSetStops(u, type)
       PROVE  WorkloadsChange("jobsets") /\ CountInterruptions
    <2>. DEFINE ready == [i \in DOMAIN js.ready |-> 0]
                conditions == Append(SelectSeq(js.conditions, LAMBDA c : c.Type # type),
                                     [Type |-> type, Status |-> TRUE])
                new == [js EXCEPT !.ready = ready, !.conditions = conditions]
    <2>1. JobSetBecomes(u, new) /\ Runs(old, u) /\ CountInterruptions
        BY <1>10, Zenon DEF JobSetStops, ClusterStep, js, old
    <2>. HIDE DEF ready, conditions
    <2>2. "exists" \in DOMAIN new /\ new.exists = js.exists
        BY <1>1
    <2>. HIDE DEF new
    <2>. QED
        BY <1>2, <1>3, <2>1, <2>2
<1>. QED
    BY <1>4, <1>5, <1>6, <1>7, <1>8, <1>9, <1>10

(* ... and so are those of a LeaderWorkerSet.                              *)
LEMMA LeaderWorkerSetSteps ==
    ASSUME WatchInv, ExistsInv, NEW u \in LeaderWorkerSets, NEW replicas, NEW ready,
           NEW exists \in {"yes", "gone"},
           LeaderWorkerSetChanges(u, [exists |-> exists, replicas |-> replicas, ready |-> ready])
    PROVE  WorkloadsChange("leader-worker-sets") /\ CountInterruptions
<1>. DEFINE k == "leader-worker-sets"
            new == [exists |-> exists, replicas |-> replicas, ready |-> ready]
<1>1. k \in Workloads /\ KindOf(k) = "leaderworkersets" /\ u \in Observed(k) /\ k # "jobsets"
    BY ObservedIs DEF Workloads, KindOf
<1>2. "exists" \in DOMAIN new /\ new.exists = exists
    OBVIOUS
<1>. HIDE DEF new
<1>3. /\ <<Now("leaderworkersets")[u].exists, new.exists>> \in
           {<<"no", "yes">>, <<"yes", "yes">>, <<"yes", "gone">>}
      /\ Happens("leaderworkersets", [Now("leaderworkersets") EXCEPT ![u] = new])
      /\ CountInterruptions
    BY DEF LeaderWorkerSetChanges, ClusterStep, new
<1>. HIDE DEF k
<1>4. Happens(KindOf(k), [Now(KindOf(k)) EXCEPT ![u] = new])
    BY <1>1, <1>3
<1>5. \/ Now(KindOf(k))[u].exists = "no" /\ new.exists = "yes"
      \/ new.exists = "gone"
      \/ Now(KindOf(k))[u].exists = "yes" /\ new.exists = "yes"
    BY <1>1, <1>3
<1>6. WorkloadsChange(k)
    BY <1>1, <1>2, <1>4, <1>5, OneWorkload
<1>. QED
    BY <1>3, <1>6 DEF k

NodeChange ==
    \E n \in Nodes, status \in NodeStatuses \cup {"Absent"} :
        /\ pools[NodeLabels[n].pool] \notin {"NONE", "GONE"}
        /\ Happens("nodes", [Now("nodes") EXCEPT ![n] = status])

NodePoolChange ==
    \E p \in NodePools, c \in StatusChanges :
        /\ pools[p] = c[1] /\ pools' = [pools EXCEPT ![p] = c[2]] /\ UNCHANGED watch

(* Everything that can happen to the cluster.                              *)
LEMMA ClusterChanges ==
    ASSUME WatchInv, ExistsInv, Cluster
    PROVE  /\ CountInterruptions /\ UNCHANGED <<dirty, pc, listed, store>>
           /\ NodeChange \/ NodePoolChange \/ \E k \in Workloads : WorkloadsChange(k)
<1>1. UNCHANGED <<dirty, pc, listed, store>>
    BY ClusterKeepsWatch
<1>2. ASSUME NEW n \in Nodes, NEW s \in NodeStatuses \cup {"Absent"}, NodeChanges(n, s)
      PROVE  NodeChange /\ CountInterruptions
    BY <1>2 DEF NodeChanges, NodeChange, ClusterStep
<1>3. ASSUME NEW p \in NodePools, NEW c \in StatusChanges, NodePoolChanges(p, c[2])
      PROVE  NodePoolChange /\ CountInterruptions
    <2>1. <<pools[p], c[2]>> \in StatusChanges
        BY <1>3 DEF NodePoolChanges
    <2>2. <<pools[p], c[2]>>[1] = pools[p] /\ <<pools[p], c[2]>>[2] = c[2]
        OBVIOUS
    <2>. QED
        BY <1>3, <2>1, <2>2 DEF NodePoolChanges, NodePoolChange, ClusterStep
<1>4. "jobsets" \in Workloads /\ "leader-worker-sets" \in Workloads
    BY DEF Workloads
<1>. QED
    BY <1>1, <1>2, <1>3, <1>4, JobSetSteps, LeaderWorkerSetSteps DEF Cluster

-----------------------------------------------------------------------------
(* Each part of the invariant is kept when the cluster changes ...         *)

(* A resource with no record has the empty history.                        *)
LEMMA HistoriesAreHistories ==
    ASSUME StoreInv, NEW k \in Keys, NEW r
    PROVE  HistoryOf(store[k], r) \in Seq(UpEvent)
<1>1. CASE r \in DOMAIN store[k]
    BY <1>1 DEF StoreInv, HistoryOf
<1>2. CASE r \notin DOMAIN store[k]
    <2>1. HistoryOf(store[k], r) = << >>
        BY <1>2 DEF HistoryOf
    <2>. QED
        BY <2>1
<1>. QED
    BY <1>1, <1>2

(* A step of the cluster changes workloads as it may, or not at all.       *)
LEMMA OneKindChanges ==
    ASSUME WatchInv, ExistsInv, Cluster, NEW k \in Workloads
    PROVE  WorkloadsChange(k) \/ watch'[KindOf(k)] = watch[KindOf(k)]
<1>1. ASSUME NEW kind \in Kinds, NEW state, Happens(kind, state), kind # KindOf(k)
      PROVE  watch'[KindOf(k)] = watch[KindOf(k)]
    BY <1>1, HappensShape, WorkloadsNow
<1>2. "nodes" \in Kinds /\ KindOf(k) # "nodes"
    BY DEF Kinds, KindOf
<1>3. \A l \in Workloads : l # k => KindOf(l) # KindOf(k)
    BY DEF Workloads, KindOf
<1>4. \A l \in Workloads : KindOf(l) \in Kinds
    BY WorkloadsNow
<1>. QED
    BY <1>1, <1>2, <1>3, <1>4, ClusterChanges DEF NodeChange, NodePoolChange, WorkloadsChange

(* The counts, the statuses of pools and what exists.                      *)
LEMMA ClusterKeepsShape ==
    ASSUME ObserversInv, RealInv, Cluster
    PROVE  CountInv' /\ PoolsInv' /\ ExistsInv'
<1>. USE DEF ObserversInv, RealInv
<1>1. CountInv'
    BY ClusterChanges, EveryFlipCounts
<1>2. PoolsInv'
    <2>1. CASE UNCHANGED pools
        BY <2>1 DEF PoolsInv
    <2>2. CASE NodePoolChange
        BY <2>2 DEF NodePoolChange, PoolsInv, StatusChanges
    <2>3. \A k \in Workloads : KindOf(k) \in Kinds
        BY WorkloadsNow
    <2>. QED
        BY <2>1, <2>2, <2>3, ClusterChanges DEF NodeChange, WorkloadsChange, Happens
<1>3. ExistsInv'
    <2>. SUFFICES ASSUME NEW k \in Workloads, NEW i \in 1..Len(watch'[KindOf(k)]),
                         NEW u \in Observed(k)
                  PROVE  /\ "exists" \in DOMAIN watch'[KindOf(k)][i][u]
                         /\ watch'[KindOf(k)][i][u].exists \in {"no", "yes", "gone"}
        BY DEF ExistsInv
    <2>1. CASE watch'[KindOf(k)] = watch[KindOf(k)]
        BY <2>1 DEF ExistsInv
    <2>2. CASE WorkloadsChange(k)
        <3>1. PICK state : /\ Happens(KindOf(k), state)
                           /\ \A v \in Observed(k) :
                                /\ "exists" \in DOMAIN state[v]
                                /\ state[v].exists \in {"no", "yes", "gone"}
            BY <2>2 DEF WorkloadsChange
        <3>2. KindOf(k) \in Kinds
            BY WorkloadsNow
        <3>3. /\ Len(watch'[KindOf(k)]) = Len(watch[KindOf(k)]) + 1
              /\ Len(watch[KindOf(k)]) \in Nat
              /\ \A j \in 1..Len(watch[KindOf(k)]) :
                   watch'[KindOf(k)][j] = watch[KindOf(k)][j]
              /\ watch'[KindOf(k)][Len(watch[KindOf(k)]) + 1] = state
            BY <3>1, <3>2, HappensShape, CachedAndNow
        <3>4. i \in 1..Len(watch[KindOf(k)]) \/ i = Len(watch[KindOf(k)]) + 1
            BY <3>3
        <3>. QED
            BY <3>1, <3>3, <3>4 DEF ExistsInv
    <2>3. WorkloadsChange(k) \/ watch'[KindOf(k)] = watch[KindOf(k)]
        BY OneKindChanges
    <2>. QED
        BY <2>1, <2>2, <2>3
<1>. QED
    BY <1>1, <1>2, <1>3

(* JobSets and LeaderWorkerSets.                                           *)
LEMMA ClusterKeepsWorkloads ==
    ASSUME ObserversInv, RealInv, Cluster
    PROVE  WorkloadsInv'
<1>. USE DEF ObserversInv, RealInv
<1>. SUFFICES ASSUME NEW k \in Workloads, NEW u \in Observed(k)
              PROVE  Accounted(HistoryOf(store'[k], u), pc'["workload"] = "nodes",
                               WorkloadStanding(k, u, listed'[KindOf(k)]),
                               [i \in 1..Len(watch'[KindOf(k)]) |->
                                  WorkloadStanding(k, u, watch'[KindOf(k)][i])],
                               Len(watch'[KindOf(k)]), interrupted'[k][u])
    BY DEF WorkloadsInv
<1>. DEFINE kind == KindOf(k)
            h == HistoryOf(store[k], u)
            holding == pc["workload"] = "nodes"
            c == WorkloadStanding(k, u, listed[kind])
            n == Len(watch[kind])
            s == [i \in 1..n |-> WorkloadStanding(k, u, watch[kind][i])]
            t == [i \in 1..Len(watch'[kind]) |-> WorkloadStanding(k, u, watch'[kind][i])]
            total == interrupted[k][u]
            more == interrupted'[k][u]
<1>1. Accounted(h, holding, c, s, n, total)
    BY DEF WorkloadsInv
<1>2. kind \in Kinds /\ k \in Keys
    BY WorkloadsNow
<1>3. n \in Nat \ {0} /\ Now(kind) = watch[kind][n]
    BY <1>2, CachedAndNow
<1>4. total \in Nat /\ more \in Nat /\ total <= more
    BY <1>2, ClusterChanges, EveryFlipCounts DEF CountInv
<1>5. Accounted(h, holding, c, t, Len(watch'[kind]), more)
    <2>1. CASE watch'[kind] = watch[kind]
        <3>1. t = s /\ Len(watch'[kind]) = n
            BY <2>1
        <3>. HIDE DEF t, s, n, h, holding, c, total, more, kind
        <3>. QED
            BY <1>1, <1>3, <1>4, <3>1, AccountedMore
    <2>2. CASE WorkloadsChange(k)
        <3>1. PICK state : /\ Happens(kind, state)
                           /\ Follows(WorkloadStanding(k, u, Now(kind)), WorkloadStanding(k, u, state))
            BY <2>2 DEF WorkloadsChange
        <3>2. /\ Len(watch'[kind]) = n + 1
              /\ \A i \in 1..n : watch'[kind][i] = watch[kind][i]
              /\ watch'[kind][n + 1] = state /\ Now(kind)' = state
            <4>. HIDE DEF kind
            <4>. QED
                BY <1>2, <3>1, HappensShape
        <3>3. /\ \A i \in 1..n : t[i] = s[i]
              /\ s[n] = WorkloadStanding(k, u, Now(kind))
              /\ t[n + 1] = WorkloadStanding(k, u, state)
            <4>. HIDE DEF kind, n
            <4>. QED
                BY <1>3, <3>2
        <3>4. Follows(s[n], t[n + 1]) /\ t[n + 1] \in {"absent", "up", "down", "over"}
            <4>. HIDE DEF t, s, n
            <4>. QED
                BY <3>1, <3>3, StandingIs DEF WorkloadStanding
        <3>5. total + Flip(s[n], t[n + 1]) <= more
            <4>1. CASE Flip(s[n], t[n + 1]) = 0
                BY <1>4, <4>1
            <4>2. CASE s[n] = "up" /\ t[n + 1] = "down"
                <5>1. /\ Truth[k] = WorkloadUps(k, Now(kind))
                      /\ Truth'[k] = WorkloadUps(k, state)
                    BY <3>2, TruthNow, TruthNext
                <5>2. Interrupted(u, Truth[k], Truth'[k])
                    <6>. HIDE DEF t, s, n, kind
                    <6>. QED
                        BY <3>3, <4>2, <5>1, FlipIsInterruption DEF WorkloadStanding
                <5>3. more = total + 1
                    BY <1>2, <5>2, ClusterChanges, EveryFlipCounts
                <5>4. Flip(s[n], t[n + 1]) = 1
                    BY <4>2 DEF Flip
                <5>. HIDE DEF t, s, n, total, more
                <5>. QED
                    BY <1>4, <5>3, <5>4
            <4>. QED
                BY <4>1, <4>2 DEF Flip
        <3>. HIDE DEF t, s, n, h, holding, c, total, more, kind
        <3>. QED
            BY <1>1, <1>3, <1>4, <3>2, <3>3, <3>4, <3>5, AccountedGrows
    <2>. QED
        BY <2>1, <2>2, OneKindChanges
<1>6. UNCHANGED <<pc, listed, store>>
    BY ClusterChanges
<1>. QED
    BY <1>5, <1>6

(* Nodes are up or down, and that is never over.                           *)
LEMMA JobSetNodesStand ==
    ASSUME NEW u \in JobSets, NEW nodes
    PROVE  JobSetNodesStanding(u, nodes) \in {"up", "down"}
<1>. DEFINE ups == JobSetNodesUp(Existing, nodes)
<1>1. u \in DOMAIN ups
    BY DEF JobSetNodesUp, Listed, Existing
<1>2. ups[u].ExpectedDown = FALSE
    BY <1>1 DEF JobSetNodesUp
<1>. HIDE DEF ups
<1>3. Standing("yes", ups, u) \in {"up", "down"}
    BY <1>1, <1>2 DEF Standing
<1>. QED
    BY <1>3 DEF JobSetNodesStanding, ups

(* While a node pool is neither created nor deleted its nodes decide.      *)
LEMMA NodePoolStands ==
    ASSUME NEW p \in Tracked, NEW nodes, NEW statuses,
           statuses[p] \notin {"NONE", "STOPPING", "DELETING", "GONE"}
    PROVE  /\ Standing("yes", NodePoolsUp(nodes, statuses), p) = NodePoolStanding(p, nodes)
           /\ NodePoolStanding(p, nodes) \in {"up", "down"}
           /\ p \in DOMAIN NodePoolsUp(nodes, statuses)
<1>. DEFINE counted == CountedFor(p, nodes)
            ready == Count(counted, "True")
            expected == ExpectedSize(p, counted)
            unknown == Count(counted, "Unknown")
<1>1. ASSUME NEW s, s[p] \notin {"NONE", "STOPPING", "DELETING", "GONE"}
      PROVE  /\ p \in DOMAIN NodePoolsUp(nodes, s)
             /\ ~NodePoolsUp(nodes, s)[p].ExpectedDown
             /\ NodePoolsUp(nodes, s)[p].ReadyCount = ready
             /\ NodePoolsUp(nodes, s)[p].ExpectedCount = expected
             /\ NodePoolsUp(nodes, s)[p].UnknownCount = unknown
    BY <1>1 DEF NodePoolsUp, Tracked
<1>2. AllRunning[p] \notin {"NONE", "STOPPING", "DELETING", "GONE"}
    BY DEF AllRunning, Tracked
<1>. HIDE DEF ready, expected, unknown
<1>3. ASSUME NEW s, s[p] \notin {"NONE", "STOPPING", "DELETING", "GONE"}
      PROVE  IsUp(NodePoolsUp(nodes, s)[p]) <=>
               /\ unknown <= RoundToEven(expected * ThresholdNum, ThresholdDen)
               /\ ready + unknown = expected
    <2>. DEFINE up == NodePoolsUp(nodes, s)[p]
    <2>1. ~up.ExpectedDown /\ up.ReadyCount = ready /\ up.ExpectedCount = expected
            /\ up.UnknownCount = unknown
        BY <1>1, <1>3
    <2>. HIDE DEF up
    <2>2. IsUp(up) <=> Up(up)
        BY <2>1 DEF IsUp, EventOf
    <2>3. Up(up) <=> /\ unknown <= RoundToEven(expected * ThresholdNum, ThresholdDen)
                     /\ ready + unknown = expected
        BY <2>1 DEF Up
    <2>. QED
        BY <2>2, <2>3 DEF up
<1>. QED
    BY <1>1, <1>2, <1>3 DEF Standing, NodePoolStanding

(* The nodes of another node pool do not count.                            *)
LEMMA OtherNodePool ==
    ASSUME NEW p \in Tracked, NEW n \in Nodes, NodeLabels[n].pool # p,
           NEW nodes \in StatusesOf, NEW status
    PROVE  NodePoolStanding(p, [nodes EXCEPT ![n] = status]) = NodePoolStanding(p, nodes)
<1>. DEFINE size == GetExpectedTPUNodePoolSize(PoolSpec[p].topology, PoolSpec[p].chips)
            labelled == {m \in Nodes :
                           /\ NodeLabels[m].pool = p /\ IsTPUNode(m)
                           /\ size = 0 => Parses(NodeLabels[m].topology, NodeLabels[m].accelerators)}
            new == [nodes EXCEPT ![n] = status]
<1>1. ASSUME NEW state
      PROVE  CountedFor(p, state) = [m \in {m \in labelled : state[m] # "Absent"} |-> state[m]]
    <2>1. CountedFor(p, state) =
            [m \in {m \in Present(state) :
                      /\ NodeLabels[m].pool = p /\ IsTPUNode(m)
                      /\ size = 0 => Parses(NodeLabels[m].topology, NodeLabels[m].accelerators)}
               |-> state[m]]
        BY DEF CountedFor, Select
    <2>2. {m \in Present(state) :
             /\ NodeLabels[m].pool = p /\ IsTPUNode(m)
             /\ size = 0 => Parses(NodeLabels[m].topology, NodeLabels[m].accelerators)}
          = {m \in labelled : state[m] # "Absent"}
        BY DEF Present
    <2>. QED
        BY <2>1, <2>2
<1>2. \A m \in labelled : new[m] = nodes[m]
    BY DEF StatusesOf
<1>. HIDE DEF labelled, new
<1>3. CountedFor(p, new) = CountedFor(p, nodes)
    <2>1. {m \in labelled : new[m] # "Absent"} = {m \in labelled : nodes[m] # "Absent"}
        BY <1>2
    <2>. QED
        BY <1>1, <1>2, <2>1
<1>4. NodePoolsUp(new, AllRunning)[p] = NodePoolsUp(nodes, AllRunning)[p]
    <2>1. p \in DOMAIN NodePoolsUp(new, AllRunning) /\ p \in DOMAIN NodePoolsUp(nodes, AllRunning)
        BY DEF NodePoolsUp, AllRunning, Tracked
    <2>. QED
        BY <1>3, <2>1 DEF NodePoolsUp
<1>5. DOMAIN NodePoolsUp(new, AllRunning) = DOMAIN NodePoolsUp(nodes, AllRunning)
    BY DEF NodePoolsUp
<1>. QED
    BY <1>4, <1>5 DEF NodePoolStanding, Standing, new

(* A step of the cluster changes nodes as it may, or not at all.           *)
LEMMA NodesChange ==
    ASSUME WatchInv, ExistsInv, Cluster
    PROVE  NodeChange \/ watch'["nodes"] = watch["nodes"]
<1>1. "nodes" \in Kinds /\ \A k \in Workloads : KindOf(k) \in Kinds \ {"nodes"}
    BY DEF Kinds, Workloads, KindOf
<1>2. ASSUME NEW k \in Workloads, WorkloadsChange(k)
      PROVE  watch'["nodes"] = watch["nodes"]
    BY <1>1, <1>2, HappensShape DEF WorkloadsChange
<1>. QED
    BY <1>2, ClusterChanges DEF NodePoolChange

(* The nodes of JobSets.                                                   *)
LEMMA ClusterKeepsJobSetNodes ==
    ASSUME ObserversInv, RealInv, Cluster
    PROVE  JobSetNodesInv'
<1>. USE DEF ObserversInv, RealInv
<1>. DEFINE k == "jobset-nodes"
            n == Len(watch["nodes"])
<1>. SUFFICES ASSUME NEW u \in JobSets
              PROVE  Idle(HistoryOf(store'[k], u),
                          [i \in 1..Len(watch'["nodes"]) |->
                             JobSetNodesStanding(u, watch'["nodes"][i])],
                          Len(watch'["nodes"]), interrupted'[k][u])
    BY DEF JobSetNodesInv
<1>. DEFINE h == HistoryOf(store[k], u)
            s == [i \in 1..n |-> JobSetNodesStanding(u, watch["nodes"][i])]
            t == [i \in 1..Len(watch'["nodes"]) |-> JobSetNodesStanding(u, watch'["nodes"][i])]
            total == interrupted[k][u]
            more == interrupted'[k][u]
<1>1. Accounted(h, FALSE, "up", s, n, total)
    BY DEF JobSetNodesInv, Accounted
<1>2. "nodes" \in Kinds /\ k \in Keys /\ u \in Observed(k)
    BY ObservedIs DEF Kinds, Keys
<1>3. n \in Nat \ {0} /\ Now("nodes") = watch["nodes"][n]
    BY <1>2, CachedAndNow
<1>4. total \in Nat /\ more \in Nat /\ total <= more
    BY <1>2, ClusterChanges, EveryFlipCounts DEF CountInv
<1>5. Accounted(h, FALSE, "up", t, Len(watch'["nodes"]), more)
    <2>1. CASE watch'["nodes"] = watch["nodes"]
        <3>1. t = s /\ Len(watch'["nodes"]) = n
            BY <2>1
        <3>. HIDE DEF t, s, n, h, total, more
        <3>. QED
            BY <1>1, <1>3, <1>4, <3>1, AccountedMore
    <2>2. CASE NodeChange
        <3>1. PICK state : Happens("nodes", state)
            BY <2>2 DEF NodeChange
        <3>2. /\ Len(watch'["nodes"]) = n + 1
              /\ \A i \in 1..n : watch'["nodes"][i] = watch["nodes"][i]
              /\ watch'["nodes"][n + 1] = state /\ Now("nodes")' = state
            BY <1>2, <3>1, HappensShape
        <3>3. /\ \A i \in 1..n : t[i] = s[i]
              /\ s[n] = JobSetNodesStanding(u, Now("nodes"))
              /\ t[n + 1] = JobSetNodesStanding(u, state)
            <4>. HIDE DEF n
            <4>. QED
                BY <1>3, <3>2
        <3>. HIDE DEF t, s, n, h, total, more
        <3>4. s[n] \in {"up", "down"} /\ t[n + 1] \in {"up", "down"}
            BY <3>3, JobSetNodesStand
        <3>5. Follows(s[n], t[n + 1]) /\ t[n + 1] \in {"absent", "up", "down", "over"}
            BY <3>4 DEF Follows
        <3>6. total + Flip(s[n], t[n + 1]) <= more
            <4>1. CASE Flip(s[n], t[n + 1]) = 0
                BY <1>4, <4>1
            <4>2. CASE s[n] = "up" /\ t[n + 1] = "down"
                <5>1. /\ Truth[k] = JobSetNodesUp(Existing, Now("nodes"))
                      /\ Truth'[k] = JobSetNodesUp(Existing, state)
                    BY <3>2, TruthNow, TruthNext
                <5>2. Interrupted(u, Truth[k], Truth'[k])
                    BY <3>3, <4>2, <5>1, FlipIsInterruption DEF JobSetNodesStanding
                <5>3. more = total + 1
                    BY <1>2, <5>2, ClusterChanges, EveryFlipCounts DEF more, total
                <5>4. Flip(s[n], t[n + 1]) = 1
                    BY <4>2 DEF Flip
                <5>. QED
                    BY <1>4, <5>3, <5>4
            <4>. QED
                BY <4>1, <4>2 DEF Flip
        <3>. QED
            BY <1>1, <1>3, <1>4, <3>2, <3>3, <3>5, <3>6, AccountedGrows
    <2>. QED
        BY <2>1, <2>2, NodesChange
<1>6. UNCHANGED store
    BY ClusterChanges
<1>. QED
    BY <1>5, <1>6 DEF Accounted

(* Node pools.                                                             *)
LEMMA ClusterKeepsNodePools ==
    ASSUME ObserversInv, RealInv, Cluster
    PROVE  NodePoolsInv'
<1>. USE DEF ObserversInv, RealInv
<1>. DEFINE k == "node-pools"
            n == Len(watch["nodes"])
<1>1. UNCHANGED <<pc, listed, store>>
    BY ClusterChanges
<1>. SUFFICES ASSUME NEW p \in Tracked
              PROVE  /\ Interruptions(HistoryOf(store[k], p)) <= interrupted'[k][p]
                     /\ pools'[p] \notin {"STOPPING", "GONE"} =>
                          Accounted(HistoryOf(store[k], p), pc["poller"] = "append",
                                    NodePoolStanding(p, listed["nodes"]),
                                    [i \in 1..Len(watch'["nodes"]) |->
                                       NodePoolStanding(p, watch'["nodes"][i])],
                                    Len(watch'["nodes"]), interrupted'[k][p])
    BY <1>1 DEF NodePoolsInv
<1>. DEFINE h == HistoryOf(store[k], p)
            holding == pc["poller"] = "append"
            c == NodePoolStanding(p, listed["nodes"])
            s == [i \in 1..n |-> NodePoolStanding(p, watch["nodes"][i])]
            t == [i \in 1..Len(watch'["nodes"]) |-> NodePoolStanding(p, watch'["nodes"][i])]
            total == interrupted[k][p]
            more == interrupted'[k][p]
<1>2. "nodes" \in Kinds /\ k \in Keys /\ p \in Observed(k)
    BY ObservedIs DEF Kinds, Keys, Tracked
<1>3. n \in Nat \ {0} /\ Now("nodes") = watch["nodes"][n]
    BY <1>2, CachedAndNow
<1>4. total \in Nat /\ more \in Nat /\ total <= more
    BY <1>2, ClusterChanges, EveryFlipCounts DEF CountInv
<1>5. Interruptions(h) <= more
    <2>1. Interruptions(h) <= total /\ Interruptions(h) \in Nat
        BY <1>2, HistoriesAreHistories, InterruptionsAreFinite DEF NodePoolsInv
    <2>. HIDE DEF h, total, more
    <2>. QED
        BY <1>4, <2>1
<1>6. ASSUME pools'[p] \notin {"STOPPING", "GONE"}
      PROVE  Accounted(h, holding, c, t, Len(watch'["nodes"]), more)
    <2>1. pools[p] \notin {"STOPPING", "GONE"}
        <3>1. CASE UNCHANGED pools
            BY <1>6, <3>1
        <3>2. CASE NodePoolChange
            <4>1. PICK q \in NodePools, d \in StatusChanges :
                    pools[q] = d[1] /\ pools' = [pools EXCEPT ![q] = d[2]]
                BY <3>2 DEF NodePoolChange
            <4>2. d[1] # "GONE" /\ (d[1] = "STOPPING" => d[2] = "GONE")
                BY DEF StatusChanges
            <4>3. pools'[q] = d[2] /\ (q # p => pools'[p] = pools[p])
                BY <4>1 DEF PoolsInv, Tracked
            <4>. QED
                BY <1>6, <4>1, <4>2, <4>3
        <3>. QED
            BY <3>1, <3>2, ClusterChanges DEF NodeChange, WorkloadsChange, Happens
    <2>2. Accounted(h, holding, c, s, n, total)
        BY <2>1 DEF NodePoolsInv
    <2>3. CASE watch'["nodes"] = watch["nodes"]
        <3>1. t = s /\ Len(watch'["nodes"]) = n
            BY <2>3
        <3>. HIDE DEF t, s, n, h, holding, c, total, more
        <3>. QED
            BY <1>3, <1>4, <2>2, <3>1, AccountedMore
    <2>4. CASE NodeChange
        <3>1. PICK m \in Nodes, status \in NodeStatuses \cup {"Absent"} :
                /\ pools[NodeLabels[m].pool] \notin {"NONE", "GONE"}
                /\ Happens("nodes", [Now("nodes") EXCEPT ![m] = status])
            BY <2>4 DEF NodeChange
        <3>. DEFINE state == [Now("nodes") EXCEPT ![m] = status]
        <3>2. /\ Len(watch'["nodes"]) = n + 1
              /\ \A i \in 1..n : watch'["nodes"][i] = watch["nodes"][i]
              /\ watch'["nodes"][n + 1] = state /\ Now("nodes")' = state /\ UNCHANGED pools
            <4>1. Happens("nodes", state)
                BY <3>1
            <4>. HIDE DEF state
            <4>. QED
                BY <1>2, <4>1, HappensShape
        <3>3. pools[p] = "NONE" => NodePoolStanding(p, state) = NodePoolStanding(p, Now("nodes"))
            <4>1. pools[p] = "NONE" => NodeLabels[m].pool # p
                BY <3>1
            <4>. QED
                BY <4>1, ShapesOfNow, OtherNodePool
        <3>. HIDE DEF state
        <3>4. /\ \A i \in 1..n : t[i] = s[i]
              /\ s[n] = NodePoolStanding(p, Now("nodes"))
              /\ t[n + 1] = NodePoolStanding(p, state)
            <4>. HIDE DEF n
            <4>. QED
                BY <1>3, <3>2
        <3>. HIDE DEF t, s, n, h, holding, c, total, more
        <3>5. s[n] \in {"up", "down"} /\ t[n + 1] \in {"up", "down"}
            <4>1. AllRunning[p] \notin {"NONE", "STOPPING", "DELETING", "GONE"}
                BY DEF AllRunning, Tracked
            <4>. QED
                BY <3>4, <4>1, NodePoolStands
        <3>6. Follows(s[n], t[n + 1]) /\ t[n + 1] \in {"absent", "up", "down", "over"}
            BY <3>5 DEF Follows
        <3>7. total + Flip(s[n], t[n + 1]) <= more
            <4>1. CASE Flip(s[n], t[n + 1]) = 0
                BY <1>4, <4>1
            <4>2. CASE s[n] = "up" /\ t[n + 1] = "down"
                <5>1. pools[p] \notin {"NONE", "STOPPING", "DELETING", "GONE"}
                    <6>1. pools[p] # "NONE"
                        BY <3>3, <3>4, <4>2
                    <6>2. pools[p] # "DELETING"
                        BY DEF PoolsInv, Tracked
                    <6>. QED
                        BY <2>1, <6>1, <6>2
                <5>2. /\ Truth[k] = NodePoolsUp(Now("nodes"), pools)
                      /\ Truth'[k] = NodePoolsUp(state, pools)
                    BY <3>2, TruthNow, TruthNext
                <5>3. Standing("yes", Truth[k], p) = "up" /\ Standing("yes", Truth'[k], p) = "down"
                    <6>1. Standing("yes", Truth[k], p) = NodePoolStanding(p, Now("nodes"))
                        BY <5>1, <5>2, NodePoolStands
                    <6>2. Standing("yes", Truth'[k], p) = NodePoolStanding(p, state)
                        BY <5>1, <5>2, NodePoolStands
                    <6>. QED
                        BY <3>4, <4>2, <6>1, <6>2
                <5>4. Interrupted(p, Truth[k], Truth'[k])
                    BY <5>3, FlipIsInterruption
                <5>5. more = total + 1
                    BY <1>2, <5>4, ClusterChanges, EveryFlipCounts DEF more, total
                <5>6. Flip(s[n], t[n + 1]) = 1
                    BY <4>2 DEF Flip
                <5>. QED
                    BY <1>4, <5>5, <5>6
            <4>. QED
                BY <4>1, <4>2 DEF Flip
        <3>. QED
            BY <1>3, <1>4, <2>2, <3>2, <3>4, <3>6, <3>7, AccountedGrows
    <2>. QED
        BY <2>3, <2>4, NodesChange
<1>. QED
    BY <1>5, <1>6

-----------------------------------------------------------------------------
(* ... when a cache sees a change ...                                      *)

(* All of them: what was the second state is now listed.                   *)
LEMMA CacheUpdateKeepsReal ==
    ASSUME ObserversInv, RealInv, NEW seen \in Kinds, CacheUpdates(seen)
    PROVE  RealInv'
<1>. USE DEF ObserversInv, RealInv
<1>1. /\ Len(watch[seen]) > 1 /\ Len(watch'[seen]) = Len(watch[seen]) - 1
      /\ \A i \in 1..(Len(watch[seen]) - 1) : watch'[seen][i] = watch[seen][i + 1]
      /\ \A other \in Kinds \ {seen} : watch'[other] = watch[other]
    BY CacheShape
<1>2. UNCHANGED <<pools, pc, listed, store, interrupted>>
    BY DEF CacheUpdates
<1>3. \A kind \in Kinds : Len(watch[kind]) \in Nat
    BY CachedAndNow
<1>4. CountInv' /\ PoolsInv'
    BY <1>2 DEF CountInv, PoolsInv
<1>5. "nodes" \in Kinds /\ \A k \in Workloads : KindOf(k) \in Kinds /\ k \in Keys
    BY WorkloadsNow DEF Kinds
<1>6. ExistsInv'
    <2>. SUFFICES ASSUME NEW k \in Workloads, NEW i \in 1..Len(watch'[KindOf(k)]),
                         NEW u \in Observed(k)
                  PROVE  /\ "exists" \in DOMAIN watch'[KindOf(k)][i][u]
                         /\ watch'[KindOf(k)][i][u].exists \in {"no", "yes", "gone"}
        BY DEF ExistsInv
    <2>1. CASE KindOf(k) = seen
        <3>1. i + 1 \in 1..Len(watch[seen]) /\ watch'[seen][i] = watch[seen][i + 1]
            BY <1>1, <1>3, <2>1
        <3>. QED
            BY <2>1, <3>1 DEF ExistsInv
    <2>2. CASE KindOf(k) # seen
        BY <1>1, <1>5, <2>2 DEF ExistsInv
    <2>. QED
        BY <2>1, <2>2
<1>7. WorkloadsInv'
    <2>. SUFFICES ASSUME NEW k \in Workloads, NEW u \in Observed(k)
                  PROVE  Accounted(HistoryOf(store[k], u), pc["workload"] = "nodes",
                                   WorkloadStanding(k, u, listed[KindOf(k)]),
                                   [i \in 1..Len(watch'[KindOf(k)]) |->
                                      WorkloadStanding(k, u, watch'[KindOf(k)][i])],
                                   Len(watch'[KindOf(k)]), interrupted[k][u])
        BY <1>2 DEF WorkloadsInv
    <2>. DEFINE kind == KindOf(k)
                h == HistoryOf(store[k], u)
                holding == pc["workload"] = "nodes"
                c == WorkloadStanding(k, u, listed[kind])
                n == Len(watch[kind])
                s == [i \in 1..n |-> WorkloadStanding(k, u, watch[kind][i])]
                t == [i \in 1..Len(watch'[kind]) |-> WorkloadStanding(k, u, watch'[kind][i])]
                total == interrupted[k][u]
    <2>1. Accounted(h, holding, c, s, n, total)
        BY DEF WorkloadsInv
    <2>2. CASE kind # seen
        <3>1. t = s /\ Len(watch'[kind]) = n
            BY <1>1, <1>5, <2>2
        <3>. QED
            BY <2>1, <3>1
    <2>3. CASE kind = seen
        <3>1. n \in Nat /\ n > 1 /\ Len(watch'[kind]) = n - 1
            BY <1>1, <1>3, <2>3
        <3>2. \A i \in 1..(n - 1) : t[i] = s[i + 1]
            <4>1. \A i \in 1..(n - 1) : watch'[kind][i] = watch[kind][i + 1]
                BY <1>1, <2>3
            <4>. HIDE DEF n, kind
            <4>. QED
                BY <3>1, <4>1
        <3>3. h \in Seq(UpEvent) /\ total \in Nat
            BY <1>5, HistoriesAreHistories DEF CountInv
        <3>4. Accounted(h, holding, c, t, n - 1, total)
            <4>. HIDE DEF h, holding, c, n, s, t, total, kind
            <4>. QED
                BY <2>1, <3>1, <3>2, <3>3, AccountedShrinks
        <3>. QED
            BY <3>1, <3>4
    <2>. QED
        BY <2>2, <2>3
<1>8. JobSetNodesInv' /\ NodePoolsInv'
    <2>1. CASE seen # "nodes"
        <3>1. watch'["nodes"] = watch["nodes"]
            BY <1>1, <1>5, <2>1
        <3>. QED
            BY <1>2, <3>1 DEF JobSetNodesInv, NodePoolsInv
    <2>2. CASE seen = "nodes"
        <3>. DEFINE n == Len(watch["nodes"])
        <3>1. /\ n \in Nat /\ n > 1 /\ Len(watch'["nodes"]) = n - 1
              /\ \A i \in 1..(n - 1) : watch'["nodes"][i] = watch["nodes"][i + 1]
            BY <1>1, <1>3, <2>2
        <3>2. JobSetNodesInv'
            <4>. SUFFICES ASSUME NEW u \in JobSets
                          PROVE  Idle(HistoryOf(store["jobset-nodes"], u),
                                      [i \in 1..(n - 1) |->
                                         JobSetNodesStanding(u, watch'["nodes"][i])],
                                      n - 1, interrupted["jobset-nodes"][u])
                BY <1>2, <3>1 DEF JobSetNodesInv
            <4>. DEFINE h == HistoryOf(store["jobset-nodes"], u)
                        s == [i \in 1..n |-> JobSetNodesStanding(u, watch["nodes"][i])]
                        t == [i \in 1..(n - 1) |-> JobSetNodesStanding(u, watch'["nodes"][i])]
                        total == interrupted["jobset-nodes"][u]
            <4>1. Accounted(h, FALSE, "up", s, n, total)
                BY DEF JobSetNodesInv, Accounted
            <4>2. h \in Seq(UpEvent) /\ total \in Nat
                BY HistoriesAreHistories, ObservedIs DEF CountInv, Keys
            <4>3. \A i \in 1..(n - 1) : t[i] = s[i + 1]
                <5>. HIDE DEF n
                <5>. QED
                    BY <3>1
            <4>4. Accounted(h, FALSE, "up", t, n - 1, total)
                <5>. HIDE DEF h, n, s, t, total
                <5>. QED
                    BY <3>1, <4>1, <4>2, <4>3, AccountedShrinks
            <4>. QED
                BY <4>4 DEF Accounted
        <3>3. NodePoolsInv'
            <4>. SUFFICES ASSUME NEW p \in Tracked, pools[p] \notin {"STOPPING", "GONE"}
                          PROVE  Accounted(HistoryOf(store["node-pools"], p),
                                           pc["poller"] = "append",
                                           NodePoolStanding(p, listed["nodes"]),
                                           [i \in 1..(n - 1) |->
                                              NodePoolStanding(p, watch'["nodes"][i])],
                                           n - 1, interrupted["node-pools"][p])
                BY <1>2, <3>1 DEF NodePoolsInv
            <4>. DEFINE h == HistoryOf(store["node-pools"], p)
                        holding == pc["poller"] = "append"
                        c == NodePoolStanding(p, listed["nodes"])
                        s == [i \in 1..n |-> NodePoolStanding(p, watch["nodes"][i])]
                        t == [i \in 1..(n - 1) |-> NodePoolStanding(p, watch'["nodes"][i])]
                        total == interrupted["node-pools"][p]
            <4>1. Accounted(h, holding, c, s, n, total)
                BY DEF NodePoolsInv
            <4>2. h \in Seq(UpEvent) /\ total \in Nat
                BY HistoriesAreHistories, ObservedIs DEF CountInv, Keys, Tracked
            <4>3. \A i \in 1..(n - 1) : t[i] = s[i + 1]
                <5>. HIDE DEF n
                <5>. QED
                    BY <3>1
            <4>. HIDE DEF h, holding, c, n, s, t, total
            <4>4. Accounted(h, holding, c, t, n - 1, total)
                BY <3>1, <4>1, <4>2, <4>3, AccountedShrinks
            <4>. QED
                BY <4>4 DEF h, holding, c, n, t, total
        <3>. QED
            BY <3>2, <3>3
    <2>. QED
        BY <2>1, <2>2
<1>. QED
    BY <1>4, <1>6, <1>7, <1>8

-----------------------------------------------------------------------------
(* ... and when an observer lists or records.                              *)

(* An append records one event of each resource that was observed.         *)
LEMMA Recorded ==
    ASSUME NEW changes, NEW ups, AppendStateChanges(changes, ups), NEW k \in Keys
    PROVE  /\ k \notin changes => store'[k] = store[k]
           /\ k \in changes =>
                /\ DOMAIN store'[k] = DOMAIN ups[k]
                /\ \A r \in DOMAIN ups[k] : HistoryOf(store'[k], r) =
                     AppendUpEvent(HistoryOf(store[k], r), EventOf(ups[k][r], 0))
                /\ \A r : r \notin DOMAIN ups[k] => HistoryOf(store'[k], r) = << >>
<1>1. k \notin changes => store'[k] = store[k]
    BY DEF AppendStateChanges
<1>2. ASSUME k \in changes
      PROVE  /\ DOMAIN store'[k] = DOMAIN ups[k]
             /\ \A r \in DOMAIN ups[k] :
                  store'[k][r] = AppendUpEvent(HistoryOf(store[k], r), EventOf(ups[k][r], 0))
    BY <1>2 DEF AppendStateChanges, AppendStateChangeEvents
<1>. QED
    BY <1>1, <1>2 DEF HistoryOf

(* What is recorded of a workload is how it stands in the list.            *)
LEMMA WorkloadRecorded ==
    ASSUME NEW k \in Workloads, NEW state, DOMAIN state = Observed(k),
           NEW u \in DOMAIN WorkloadUps(k, state)
    PROVE  LET up == WorkloadUps(k, state)[u] IN
           /\ EventOf(up, 0) \in UpEvent
           /\ StandingOf(EventOf(up, 0)) = WorkloadStanding(k, u, state)
<1>. DEFINE ups == WorkloadUps(k, state)
<1>1. u \in DOMAIN state /\ state[u].exists = "yes"
    BY DEF WorkloadUps, JobSetsUp, processLeaderWorkerSets, Listed
<1>2. Judges(ups, k)
    BY JobSetsJudged, LeaderWorkerSetsJudged, ObservedIs DEF WorkloadUps, Workloads
<1>. HIDE DEF ups
<1>3. u \in DOMAIN ups
    BY DEF ups
<1>4. ups[u].ExpectedDown \in BOOLEAN /\ ups[u].Failed \in BOOLEAN
    BY <1>2, <1>3 DEF Judges
<1>5. EventOf(ups[u], 0) \in UpEvent
    BY <1>4, EventOfFlags
<1>6. StandingOf(EventOf(ups[u], 0)) = Standing("yes", ups, u)
    BY <1>3, <1>4, EventStands
<1>. QED
    BY <1>1, <1>5, <1>6 DEF WorkloadStanding, ups

(* The nodes of a JobSet that is listed stand as if all JobSets were.      *)
LEMMA JobSetNodesRecorded ==
    ASSUME NEW jobsets, NEW nodes, DOMAIN jobsets = JobSets,
           NEW u \in DOMAIN JobSetNodesUp(jobsets, nodes)
    PROVE  LET up == JobSetNodesUp(jobsets, nodes)[u] IN
           /\ EventOf(up, 0) \in UpEvent
           /\ StandingOf(EventOf(up, 0)) = JobSetNodesStanding(u, nodes)
<1>. DEFINE ups == JobSetNodesUp(Existing, nodes)
<1>1. u \in JobSets
    BY DEF JobSetNodesUp, Listed
<1>2. u \in DOMAIN ups
    BY <1>1 DEF JobSetNodesUp, Listed, Existing
<1>3. JobSetNodesUp(jobsets, nodes)[u] = ups[u]
    BY <1>2 DEF JobSetNodesUp
<1>4. ups[u].ExpectedDown \in BOOLEAN /\ ups[u].Failed \in BOOLEAN
    <2>1. DOMAIN Existing = JobSets
        BY DEF Existing
    <2>2. Judges(ups, "jobset-nodes")
        BY <2>1, JobSetNodesJudged
    <2>. QED
        BY <1>2, <2>2 DEF Judges
<1>. HIDE DEF ups
<1>5. EventOf(ups[u], 0) \in UpEvent
    BY <1>4, EventOfFlags
<1>6. StandingOf(EventOf(ups[u], 0)) = Standing("yes", ups, u)
    BY <1>2, <1>4, EventStands
<1>. QED
    BY <1>3, <1>5, <1>6 DEF JobSetNodesStanding, ups

(* A reconciliation lists nodes and appends what it computed.              *)
LEMMA ListNodesKeepsReal ==
    ASSUME ObserversInv, RealInv, ListNodes
    PROVE  RealInv'
<1>. USE DEF ObserversInv, RealInv
<1>. DEFINE ups == Upnesses(Cached("nodes"), pools, listed["jobsets"], listed["leaderworkersets"])
<1>1. /\ pc["workload"] = "nodes" /\ AppendStateChanges(Keys \ {"node-pools"}, ups)
      /\ listed' = [listed EXCEPT !["jobsets"] = << >>, !["leaderworkersets"] = << >>]
      /\ pc' = [pc EXCEPT !["workload"] = "idle"]
      /\ UNCHANGED <<watch, pools, interrupted>>
    BY DEF ListNodes, ForgetLists, Goto
<1>2. /\ pc'["workload"] = "idle" /\ pc'["poller"] = pc["poller"]
      /\ listed'["nodes"] = listed["nodes"]
    BY <1>1 DEF ListInv, Kinds
<1>3. CountInv' /\ PoolsInv' /\ ExistsInv'
    BY <1>1 DEF CountInv, PoolsInv, ExistsInv
<1>4. /\ \A k \in Workloads : ups[k] = WorkloadUps(k, listed[KindOf(k)])
      /\ ups["jobset-nodes"] = JobSetNodesUp(listed["jobsets"], Cached("nodes"))
    BY UpnessesAre DEF Workloads, WorkloadUps, KindOf
<1>5. /\ \A k \in Workloads : DOMAIN listed[KindOf(k)] = Observed(k)
      /\ DOMAIN listed["jobsets"] = JobSets
    BY <1>1, ObservedIs DEF ListInv, Workloads, KindOf
<1>. HIDE DEF ups
<1>6. "nodes" \in Kinds /\ "jobset-nodes" \in Keys /\ "node-pools" \in Keys
    BY DEF Kinds, Keys
<1>7. WorkloadsInv'
    <2>. SUFFICES ASSUME NEW k \in Workloads, NEW u \in Observed(k)
                  PROVE  Idle(HistoryOf(store'[k], u),
                              [i \in 1..Len(watch[KindOf(k)]) |->
                                 WorkloadStanding(k, u, watch[KindOf(k)][i])],
                              Len(watch[KindOf(k)]), interrupted[k][u])
        BY <1>1, <1>2 DEF WorkloadsInv, Accounted
    <2>. DEFINE kind == KindOf(k)
                h == HistoryOf(store[k], u)
                c == WorkloadStanding(k, u, listed[kind])
                n == Len(watch[kind])
                s == [i \in 1..n |-> WorkloadStanding(k, u, watch[kind][i])]
                total == interrupted[k][u]
    <2>1. Holding(h, c, s, n, total)
        BY <1>1 DEF WorkloadsInv, Accounted
    <2>2. k \in Keys \ {"node-pools"}
        BY DEF Workloads, Keys
    <2>3. h \in Seq(UpEvent)
        BY <2>2, HistoriesAreHistories
    <2>4. CASE u \in DOMAIN ups[k]
        <3>. DEFINE e == EventOf(ups[k][u], 0)
        <3>1. HistoryOf(store'[k], u) = AppendUpEvent(h, e)
            BY <1>1, <2>2, <2>4, Recorded
        <3>2. e \in UpEvent /\ StandingOf(e) = c
            BY <1>4, <1>5, <2>4, WorkloadRecorded
        <3>. HIDE DEF h, c, n, s, total, e, kind
        <3>3. Idle(AppendUpEvent(h, e), s, n, total)
            BY <2>1, <2>3, <3>2, Records
        <3>. QED
            BY <3>1, <3>3 DEF n, s, total, kind
    <2>5. CASE u \notin DOMAIN ups[k]
        <3>1. HistoryOf(store'[k], u) = << >>
            BY <1>1, <2>2, <2>5, Recorded
        <3>. HIDE DEF h, c, n, s, total, kind
        <3>2. Accounted(h, TRUE, c, s, n, total)
            BY <2>1 DEF Accounted
        <3>3. Idle(<< >>, s, n, total)
            BY <3>2, StartsOver
        <3>. QED
            BY <3>1, <3>3 DEF n, s, total, kind
    <2>. QED
        BY <2>4, <2>5
<1>8. JobSetNodesInv'
    <2>. DEFINE k == "jobset-nodes"
                n == Len(watch["nodes"])
    <2>. SUFFICES ASSUME NEW u \in JobSets
                  PROVE  Idle(HistoryOf(store'[k], u),
                              [i \in 1..n |-> JobSetNodesStanding(u, watch["nodes"][i])],
                              n, interrupted[k][u])
        BY <1>1 DEF JobSetNodesInv
    <2>. DEFINE h == HistoryOf(store[k], u)
                s == [i \in 1..n |-> JobSetNodesStanding(u, watch["nodes"][i])]
                total == interrupted[k][u]
    <2>1. Idle(h, s, n, total)
        BY DEF JobSetNodesInv
    <2>2. n \in Nat \ {0} /\ s[1] = JobSetNodesStanding(u, Cached("nodes"))
        <3>1. Len(watch["nodes"]) \in Nat \ {0} /\ Cached("nodes") = watch["nodes"][1]
            BY <1>6, CachedAndNow
        <3>. HIDE DEF n
        <3>2. n \in Nat \ {0}
            BY <3>1 DEF n
        <3>. QED
            BY <3>1, <3>2
    <2>3. h \in Seq(UpEvent) /\ total \in Nat
        BY <1>6, HistoriesAreHistories, ObservedIs DEF CountInv
    <2>4. CASE u \in DOMAIN ups[k]
        <3>. DEFINE e == EventOf(ups[k][u], 0)
        <3>1. HistoryOf(store'[k], u) = AppendUpEvent(h, e)
            BY <1>1, <1>6, <2>4, Recorded
        <3>2. e \in UpEvent /\ StandingOf(e) = s[1]
            <4>. HIDE DEF s
            <4>. QED
                BY <1>4, <1>5, <2>2, <2>4, JobSetNodesRecorded
        <3>. HIDE DEF h, n, s, total, e
        <3>3. Holding(h, StandingOf(e), s, n, total)
            BY <2>1, <2>2, <2>3, <3>2, Lists
        <3>4. Idle(AppendUpEvent(h, e), s, n, total)
            BY <2>3, <3>2, <3>3, Records
        <3>. QED
            BY <3>1, <3>4 DEF n, s, total
    <2>5. CASE u \notin DOMAIN ups[k]
        <3>1. HistoryOf(store'[k], u) = << >>
            BY <1>1, <1>6, <2>5, Recorded
        <3>. HIDE DEF h, n, s, total
        <3>2. Accounted(h, FALSE, "up", s, n, total)
            BY <2>1 DEF Accounted
        <3>3. Idle(<< >>, s, n, total)
            BY <3>2, StartsOver
        <3>. QED
            BY <3>1, <3>3 DEF n, s, total
    <2>. QED
        BY <2>4, <2>5
<1>9. NodePoolsInv'
    <2>1. store'["node-pools"] = store["node-pools"]
        BY <1>1, <1>6, Recorded
    <2>. QED
        BY <1>1, <1>2, <2>1 DEF NodePoolsInv
<1>. QED
    BY <1>3, <1>7, <1>8, <1>9

(* It lists workloads, and keeps what it was given.                        *)
LEMMA ListWorkloadsKeepsReal ==
    ASSUME ObserversInv, RealInv, ListWorkloads
    PROVE  RealInv'
<1>. USE DEF ObserversInv, RealInv
<1>1. /\ pc["workload"] = "idle" /\ pc' = [pc EXCEPT !["workload"] = "nodes"]
      /\ listed' = [listed EXCEPT !["jobsets"] = Cached("jobsets"),
                                  !["leaderworkersets"] = Cached("leaderworkersets")]
      /\ UNCHANGED <<watch, pools, store, interrupted>>
    BY DEF ListWorkloads, Goto
<1>2. /\ pc'["workload"] = "nodes" /\ pc'["poller"] = pc["poller"]
      /\ listed'["nodes"] = listed["nodes"]
      /\ \A k \in Workloads : listed'[KindOf(k)] = Cached(KindOf(k))
    BY <1>1 DEF ListInv, Kinds, Workloads, KindOf
<1>3. CountInv' /\ PoolsInv' /\ ExistsInv' /\ JobSetNodesInv' /\ NodePoolsInv'
    BY <1>1, <1>2 DEF CountInv, PoolsInv, ExistsInv, JobSetNodesInv, NodePoolsInv
<1>4. WorkloadsInv'
    <2>. SUFFICES ASSUME NEW k \in Workloads, NEW u \in Observed(k)
                  PROVE  Holding(HistoryOf(store[k], u),
                                 WorkloadStanding(k, u, Cached(KindOf(k))),
                                 [i \in 1..Len(watch[KindOf(k)]) |->
                                    WorkloadStanding(k, u, watch[KindOf(k)][i])],
                                 Len(watch[KindOf(k)]), interrupted[k][u])
        BY <1>1, <1>2 DEF WorkloadsInv, Accounted
    <2>. DEFINE kind == KindOf(k)
                h == HistoryOf(store[k], u)
                n == Len(watch[kind])
                s == [i \in 1..n |-> WorkloadStanding(k, u, watch[kind][i])]
                total == interrupted[k][u]
    <2>1. Idle(h, s, n, total)
        BY <1>1 DEF WorkloadsInv, Accounted
    <2>2. kind \in Kinds /\ total \in Nat
        BY WorkloadsNow DEF CountInv
    <2>3. n \in Nat \ {0} /\ Cached(kind) = watch[kind][1]
        BY <2>2, CachedAndNow
    <2>4. s[1] = WorkloadStanding(k, u, Cached(kind))
        <3>. HIDE DEF n, kind
        <3>. QED
            BY <2>3
    <2>. HIDE DEF h, n, s, total, kind
    <2>5. Holding(h, s[1], s, n, total)
        BY <2>1, <2>2, <2>3, Lists
    <2>. QED
        BY <2>4, <2>5 DEF h, n, s, total, kind
<1>. QED
    BY <1>3, <1>4

(* It fails, and drops what it was given.                                  *)
LEMMA ListFailsKeepsReal ==
    ASSUME ObserversInv, RealInv, ListFails
    PROVE  RealInv'
<1>. USE DEF ObserversInv, RealInv
<1>1. /\ pc["workload"] # "idle" /\ pc' = [pc EXCEPT !["workload"] = "idle"]
      /\ listed' = [listed EXCEPT !["jobsets"] = << >>, !["leaderworkersets"] = << >>]
      /\ UNCHANGED <<watch, pools, store, interrupted>>
    BY DEF ListFails, ForgetLists, Goto
<1>2. /\ pc["workload"] = "nodes" /\ pc'["workload"] = "idle" /\ pc'["poller"] = pc["poller"]
      /\ listed'["nodes"] = listed["nodes"]
    BY <1>1 DEF ListInv, Kinds
<1>3. CountInv' /\ PoolsInv' /\ ExistsInv' /\ JobSetNodesInv' /\ NodePoolsInv'
    BY <1>1, <1>2 DEF CountInv, PoolsInv, ExistsInv, JobSetNodesInv, NodePoolsInv
<1>4. WorkloadsInv'
    <2>. SUFFICES ASSUME NEW k \in Workloads, NEW u \in Observed(k)
                  PROVE  Idle(HistoryOf(store[k], u),
                              [i \in 1..Len(watch[KindOf(k)]) |->
                                 WorkloadStanding(k, u, watch[KindOf(k)][i])],
                              Len(watch[KindOf(k)]), interrupted[k][u])
        BY <1>1, <1>2 DEF WorkloadsInv, Accounted
    <2>. DEFINE kind == KindOf(k)
                h == HistoryOf(store[k], u)
                c == WorkloadStanding(k, u, listed[kind])
                n == Len(watch[kind])
                s == [i \in 1..n |-> WorkloadStanding(k, u, watch[kind][i])]
                total == interrupted[k][u]
    <2>1. Holding(h, c, s, n, total)
        BY <1>2 DEF WorkloadsInv, Accounted
    <2>2. h \in Seq(UpEvent)
        BY WorkloadsNow, HistoriesAreHistories
    <2>. HIDE DEF h, c, n, s, total, kind
    <2>3. Idle(h, s, n, total)
        BY <2>1, <2>2, Forgets
    <2>. QED
        BY <2>3 DEF h, n, s, total, kind
<1>. QED
    BY <1>3, <1>4

(* A poll lists the nodes ...                                              *)
LEMMA PollListsKeepsReal ==
    ASSUME ObserversInv, RealInv, PollResources, pc["poller"] = "idle"
    PROVE  RealInv'
<1>. USE DEF ObserversInv, RealInv
<1>1. /\ pc' = [pc EXCEPT !["poller"] = "append"]
      /\ listed' = [listed EXCEPT !["nodes"] = Cached("nodes")]
      /\ UNCHANGED <<watch, pools, store, interrupted>>
    BY DEF PollResources, Goto
<1>2. /\ pc'["poller"] = "append" /\ pc'["workload"] = pc["workload"]
      /\ listed'["nodes"] = Cached("nodes")
      /\ \A k \in Workloads : listed'[KindOf(k)] = listed[KindOf(k)]
    BY <1>1 DEF ListInv, Kinds, Workloads, KindOf
<1>3. CountInv' /\ PoolsInv' /\ ExistsInv' /\ JobSetNodesInv' /\ WorkloadsInv'
    BY <1>1, <1>2 DEF CountInv, PoolsInv, ExistsInv, JobSetNodesInv, WorkloadsInv
<1>4. NodePoolsInv'
    <2>. DEFINE n == Len(watch["nodes"])
    <2>. SUFFICES ASSUME NEW p \in Tracked, pools[p] \notin {"STOPPING", "GONE"}
                  PROVE  Holding(HistoryOf(store["node-pools"], p),
                                 NodePoolStanding(p, Cached("nodes")),
                                 [i \in 1..n |-> NodePoolStanding(p, watch["nodes"][i])],
                                 n, interrupted["node-pools"][p])
        BY <1>1, <1>2 DEF NodePoolsInv, Accounted
    <2>. DEFINE h == HistoryOf(store["node-pools"], p)
                s == [i \in 1..n |-> NodePoolStanding(p, watch["nodes"][i])]
                total == interrupted["node-pools"][p]
    <2>1. Idle(h, s, n, total)
        BY DEF NodePoolsInv, Accounted
    <2>2. "nodes" \in Kinds /\ total \in Nat
        BY ObservedIs DEF Kinds, Keys, CountInv, Tracked
    <2>3. n \in Nat \ {0} /\ Cached("nodes") = watch["nodes"][1]
        BY <2>2, CachedAndNow
    <2>4. s[1] = NodePoolStanding(p, Cached("nodes"))
        <3>. HIDE DEF n
        <3>. QED
            BY <2>3
    <2>. HIDE DEF h, n, s, total
    <2>5. Holding(h, s[1], s, n, total)
        BY <2>1, <2>2, <2>3, Lists
    <2>. QED
        BY <2>4, <2>5 DEF h, n, s, total
<1>. QED
    BY <1>3, <1>4

(* ... or fails ...                                                        *)
LEMMA PollFailsKeepsReal ==
    ASSUME ObserversInv, RealInv, PollFails
    PROVE  RealInv'
<1>. USE DEF ObserversInv, RealInv
<1>1. /\ pc["poller"] = "append" /\ pc' = [pc EXCEPT !["poller"] = "idle"]
      /\ listed' = [listed EXCEPT !["nodes"] = << >>]
      /\ UNCHANGED <<watch, pools, store, interrupted>>
    BY DEF PollFails, Goto
<1>2. /\ pc'["poller"] = "idle" /\ pc'["workload"] = pc["workload"]
      /\ \A k \in Workloads : listed'[KindOf(k)] = listed[KindOf(k)]
    BY <1>1 DEF ListInv, Kinds, Workloads, KindOf
<1>3. CountInv' /\ PoolsInv' /\ ExistsInv' /\ JobSetNodesInv' /\ WorkloadsInv'
    BY <1>1, <1>2 DEF CountInv, PoolsInv, ExistsInv, JobSetNodesInv, WorkloadsInv
<1>4. NodePoolsInv'
    <2>. DEFINE n == Len(watch["nodes"])
    <2>. SUFFICES ASSUME NEW p \in Tracked, pools[p] \notin {"STOPPING", "GONE"}
                  PROVE  Idle(HistoryOf(store["node-pools"], p),
                              [i \in 1..n |-> NodePoolStanding(p, watch["nodes"][i])],
                              n, interrupted["node-pools"][p])
        BY <1>1, <1>2 DEF NodePoolsInv, Accounted
    <2>. DEFINE h == HistoryOf(store["node-pools"], p)
                c == NodePoolStanding(p, listed["nodes"])
                s == [i \in 1..n |-> NodePoolStanding(p, watch["nodes"][i])]
                total == interrupted["node-pools"][p]
    <2>1. Holding(h, c, s, n, total)
        BY <1>1 DEF NodePoolsInv, Accounted
    <2>2. h \in Seq(UpEvent)
        BY HistoriesAreHistories DEF Keys
    <2>. HIDE DEF h, c, n, s, total
    <2>3. Idle(h, s, n, total)
        BY <2>1, <2>2, Forgets
    <2>. QED
        BY <2>3 DEF h, n, s, total
<1>. QED
    BY <1>3, <1>4

(* ... or goes on to list the node pools, and records them: one that is    *)
(* being deleted as expected down, whatever its nodes are, because the     *)
(* pools are listed last.                                                  *)
LEMMA PollRecordsKeepsReal ==
    ASSUME ObserversInv, RealInv, PollResources, pc["poller"] = "append"
    PROVE  RealInv'
<1>. USE DEF ObserversInv, RealInv
<1>. DEFINE k == "node-pools"
            up == NodePoolsUp(listed["nodes"], pools)
            ups == [j \in {"node-pools"} |-> up]
            n == Len(watch["nodes"])
<1>1. /\ AppendStateChanges({"node-pools"}, ups)
      /\ pc' = [pc EXCEPT !["poller"] = "idle"]
      /\ listed' = [listed EXCEPT !["nodes"] = << >>]
      /\ UNCHANGED <<watch, pools, interrupted>>
    BY DEF PollResources, Goto
<1>2. /\ pc'["poller"] = "idle" /\ pc'["workload"] = pc["workload"]
      /\ \A j \in Workloads : listed'[KindOf(j)] = listed[KindOf(j)]
    BY <1>1 DEF ListInv, Kinds, Workloads, KindOf
<1>3. ups[k] = up
    OBVIOUS
<1>4. Judges(up, k)
    BY NodePoolsJudged
<1>5. /\ DOMAIN up \subseteq Tracked
      /\ \A p \in Tracked : p \in DOMAIN up <=> pools[p] \notin {"NONE", "GONE"}
      /\ \A p \in Tracked : (p \in DOMAIN up /\ pools[p] = "STOPPING") => up[p].ExpectedDown
    BY DEF NodePoolsUp, Tracked
<1>. HIDE DEF ups, up
<1>6. /\ DOMAIN store'[k] = DOMAIN up
      /\ \A r \in DOMAIN up : HistoryOf(store'[k], r) =
           AppendUpEvent(HistoryOf(store[k], r), EventOf(up[r], 0))
      /\ \A r : r \notin DOMAIN up => HistoryOf(store'[k], r) = << >>
      /\ \A j \in Keys \ {"node-pools"} : store'[j] = store[j]
    <2>1. k \in Keys /\ k \in {"node-pools"}
        BY DEF Keys
    <2>. HIDE DEF k
    <2>. QED
        BY <1>1, <1>3, <2>1, Recorded
<1>7. CountInv' /\ PoolsInv' /\ ExistsInv'
    BY <1>1 DEF CountInv, PoolsInv, ExistsInv
<1>8. JobSetNodesInv' /\ WorkloadsInv'
    <2>1. "jobset-nodes" \in Keys \ {"node-pools"} /\ Workloads \subseteq Keys \ {"node-pools"}
        BY DEF Keys, Workloads
    <2>. QED
        BY <1>1, <1>2, <1>6, <2>1 DEF JobSetNodesInv, WorkloadsInv
<1>9. ASSUME NEW p \in Tracked
      PROVE  /\ Interruptions(HistoryOf(store'[k], p)) <= interrupted[k][p]
             /\ pools[p] \notin {"STOPPING", "GONE"} =>
                  Idle(HistoryOf(store'[k], p),
                       [i \in 1..n |-> NodePoolStanding(p, watch["nodes"][i])],
                       n, interrupted[k][p])
    <2>. DEFINE h == HistoryOf(store[k], p)
                g == HistoryOf(store'[k], p)
                c == NodePoolStanding(p, listed["nodes"])
                s == [i \in 1..n |-> NodePoolStanding(p, watch["nodes"][i])]
                total == interrupted[k][p]
                e == EventOf(up[p], 0)
    <2>1. h \in Seq(UpEvent) /\ total \in Nat /\ Interruptions(h) <= total
        BY HistoriesAreHistories, ObservedIs DEF CountInv, Keys, Tracked, NodePoolsInv
    <2>2. pools[p] \notin {"STOPPING", "GONE"} => Holding(h, c, s, n, total)
        BY DEF NodePoolsInv, Accounted
    <2>3. Interruptions(h) \in Nat
        BY <2>1, InterruptionsAreFinite
    <2>4. CASE p \notin DOMAIN up
        <3>1. g = << >> /\ pools[p] \in {"NONE", "GONE"}
            BY <1>5, <1>6, <2>4
        <3>. HIDE DEF h, g, c, s, total, e, n
        <3>2. Interruptions(<< >>) = 0
            BY NoneAtFirst
        <3>3. Interruptions(g) <= total
            BY <2>1, <3>1, <3>2
        <3>4. Holding(h, c, s, n, total) => Idle(<< >>, s, n, total)
            <4>1. Holding(h, c, s, n, total) => Accounted(h, TRUE, c, s, n, total)
                BY DEF Accounted
            <4>. QED
                BY <4>1, StartsOver
        <3>5. pools[p] \notin {"STOPPING", "GONE"} => Idle(g, s, n, total)
            BY <2>2, <3>1, <3>4
        <3>. QED
            BY <3>3, <3>5 DEF g, s, total, n
    <2>5. CASE p \in DOMAIN up
        <3>1. g = AppendUpEvent(h, e)
            BY <1>6, <2>5
        <3>2. up[p].ExpectedDown \in BOOLEAN /\ up[p].Failed \in BOOLEAN
            BY <1>4, <2>5 DEF Judges
        <3>3. e \in UpEvent /\ StandingOf(e) = Standing("yes", up, p)
            BY <2>5, <3>2, EventOfFlags, EventStands
        <3>4. CASE pools[p] \in {"STOPPING", "GONE"}
            <4>1. StandingOf(e) = "over"
                <5>. HIDE DEF e
                <5>. QED
                    BY <1>5, <2>5, <3>3, <3>4 DEF Standing
            <4>. HIDE DEF h, g, c, s, total, e, n
            <4>2. Interruptions(g) <= Interruptions(h) + Flip(LastStanding(h), "over")
                BY <2>1, <3>1, <3>3, <4>1, RecordingFlips
            <4>3. Flip(LastStanding(h), "over") = 0
                BY DEF Flip
            <4>4. g \in Seq(UpEvent)
                BY <2>1, <3>1, <3>3, RecordingFlips
            <4>5. Interruptions(g) <= total
                BY <2>1, <2>3, <4>2, <4>3, <4>4, InterruptionsAreFinite
            <4>. QED
                BY <3>4, <4>5 DEF g, total
        <3>5. CASE pools[p] \notin {"STOPPING", "GONE"}
            <4>1. pools[p] \notin {"NONE", "STOPPING", "DELETING", "GONE"}
                BY <1>5, <2>5, <3>5 DEF PoolsInv, Tracked
            <4>2. StandingOf(e) = c
                <5>. HIDE DEF e
                <5>. QED
                    BY <3>3, <4>1, NodePoolStands DEF up
            <4>. HIDE DEF h, g, c, s, total, e, n
            <4>3. Idle(g, s, n, total)
                BY <2>1, <2>2, <3>1, <3>3, <3>5, <4>2, Records
            <4>4. Len(watch["nodes"]) \in Nat \ {0}
                BY CachedAndNow DEF Kinds
            <4>5. g \in Seq(UpEvent)
                BY <2>1, <3>1, <3>3, RecordingFlips
            <4>6. Accounted(g, FALSE, c, s, n, total)
                BY <4>3 DEF Accounted
            <4>7. n \in Nat \ {0}
                BY <4>4 DEF n
            <4>8. Interruptions(g) <= total
                BY <2>1, <4>5, <4>6, <4>7, AccountedIsReal
            <4>. QED
                BY <4>3, <4>8 DEF g, s, total, n
        <3>. QED
            BY <3>4, <3>5
    <2>. QED
        BY <2>4, <2>5
<1>10. NodePoolsInv'
    BY <1>1, <1>2, <1>5, <1>6, <1>9 DEF NodePoolsInv, Accounted
<1>. QED
    BY <1>7, <1>8, <1>10

-----------------------------------------------------------------------------
(* So every step keeps the invariant.                                      *)
LEMMA RealStep ==
    ASSUME ObserversInv, RealInv, [Next]_vars
    PROVE  RealInv'
<1>1. CASE Cluster
    <2>1. CountInv' /\ PoolsInv' /\ ExistsInv'
        BY <1>1, ClusterKeepsShape
    <2>2. WorkloadsInv' /\ JobSetNodesInv' /\ NodePoolsInv'
        BY <1>1, ClusterKeepsWorkloads, ClusterKeepsJobSetNodes, ClusterKeepsNodePools
    <2>. QED
        BY <2>1, <2>2 DEF RealInv
<1>2. CASE PollResources
    BY <1>2, PollListsKeepsReal, PollRecordsKeepsReal DEF ObserversInv, ListInv
<1>3. CASE UNCHANGED vars
    BY <1>3 DEF vars, RealInv, CountInv, PoolsInv, ExistsInv, WorkloadsInv, JobSetNodesInv, NodePoolsInv
<1>. QED
    BY <1>1, <1>2, <1>3, CacheUpdateKeepsReal, PollFailsKeepsReal, ListWorkloadsKeepsReal,
       ListNodesKeepsReal, ListFailsKeepsReal
       DEF Next, Reconcile

(* An empty history over an up-to-date cache.                              *)
LEMMA IdleAtFirst ==
    ASSUME NEW s, s[1] \in {"absent", "up", "down", "over"}
    PROVE  Idle(<< >>, s, 1, 0)
<1>. DEFINE count == [i \in 1..1 |-> 0]
<1>1. count \in [1..1 -> Nat] /\ count[1] = 0 /\ 1..(1 - 1) = {} /\ \A i \in 1..1 : i = 1
    OBVIOUS
<1>. HIDE DEF count
<1>2. Chain(s, 1, 0, 0)
    BY <1>1 DEF Chain
<1>3. Interruptions(<< >>) = 0
    BY NoneAtFirst
<1>4. LastStanding(<< >>) = "absent" /\ Flip("absent", s[1]) = 0 /\ Follows("absent", s[1])
    BY DEF LastStanding, Flip, Follows
<1>5. 0 + 0 <= 0 /\ 0 \in Nat
    OBVIOUS
<1>6. Before(<< >>, s[1], 0)
    BY <1>3, <1>4, <1>5, Zenon DEF Before
<1>. QED
    BY <1>2, <1>5, <1>6 DEF Idle

(* The invariant holds at first.                                           *)
LEMMA RealInit ==
    ASSUME Init
    PROVE  RealInv
<1>1. CountInv
    BY DEF Init, CountInv
<1>2. PoolsInv
    BY DEF Init, PoolsInv
<1>3. \A kind \in Kinds : Len(watch[kind]) = 1
    <2>1. /\ \E a : watch["nodes"] = <<a>>
          /\ \E a : watch["jobsets"] = <<a>>
          /\ \E a : watch["leaderworkersets"] = <<a>>
        BY Zenon DEF Init, Kinds
    <2>. QED
        BY <2>1, OneState DEF Kinds
<1>4. ExistsInv
    <2>1. PICK running \in BOOLEAN :
            watch["jobsets"] = <<[u \in JobSets |->
                     LET up == running /\ u \in Running
                     IN  JobSet(u, IF up THEN "yes" ELSE "no",
                           [i \in DOMAIN JobSetSpec[u].jobs |->
                              IF up THEN JobSetSpec[u].jobs[i].replicas ELSE 0])]>>
        BY DEF Init, Kinds
    <2>2. watch["leaderworkersets"] =
            <<[u \in LeaderWorkerSets |-> [exists |-> "no", replicas |-> Nil, ready |-> 0]]>>
        BY DEF Init, Kinds
    <2>3. ASSUME NEW u, NEW exists, NEW ready
          PROVE  "exists" \in DOMAIN JobSet(u, exists, ready) /\ JobSet(u, exists, ready).exists = exists
        BY DEF JobSet
    <2>4. ASSUME NEW u \in JobSets
          PROVE  /\ "exists" \in DOMAIN watch["jobsets"][1][u]
                 /\ watch["jobsets"][1][u].exists \in {"no", "yes", "gone"}
        BY <2>1, <2>3
    <2>5. ASSUME NEW u \in LeaderWorkerSets
          PROVE  /\ "exists" \in DOMAIN watch["leaderworkersets"][1][u]
                 /\ watch["leaderworkersets"][1][u].exists = "no"
        BY <2>2
    <2>6. ASSUME NEW kind \in Kinds, NEW i \in 1..Len(watch[kind])
          PROVE  i = 1
        <3>1. i \in 1..1
            BY <1>3
        <3>. QED
            BY <3>1
    <2>. QED
        BY <2>4, <2>5, <2>6, ObservedIs DEF ExistsInv, Workloads, KindOf, Kinds
<1>5. ASSUME NEW k \in Keys, NEW r \in Observed(k)
      PROVE  HistoryOf(store[k], r) = << >> /\ interrupted[k][r] = 0 /\ DOMAIN store[k] = {}
    BY DEF Init, HistoryOf
<1>6. pc["workload"] = "idle" /\ pc["poller"] = "idle"
    BY DEF Init
<1>7. WorkloadsInv
    <2>. SUFFICES ASSUME NEW k \in Workloads, NEW u \in Observed(k)
                  PROVE  Idle(<< >>, [i \in 1..1 |-> WorkloadStanding(k, u, watch[KindOf(k)][i])], 1, 0)
        BY <1>3, <1>5, <1>6 DEF WorkloadsInv, Accounted, Workloads, Keys, KindOf, Kinds
    <2>. DEFINE s == [i \in 1..1 |-> WorkloadStanding(k, u, watch[KindOf(k)][i])]
    <2>1. s[1] = WorkloadStanding(k, u, watch[KindOf(k)][1])
        OBVIOUS
    <2>. HIDE DEF s
    <2>2. Idle(<< >>, s, 1, 0)
        BY <2>1, StandingIs, IdleAtFirst DEF WorkloadStanding
    <2>. QED
        BY <2>2 DEF s
<1>8. JobSetNodesInv
    <2>. SUFFICES ASSUME NEW u \in JobSets
                  PROVE  Idle(<< >>, [i \in 1..1 |-> JobSetNodesStanding(u, watch["nodes"][i])], 1, 0)
        BY <1>3, <1>5, ObservedIs DEF JobSetNodesInv, Keys, Kinds
    <2>. DEFINE s == [i \in 1..1 |-> JobSetNodesStanding(u, watch["nodes"][i])]
    <2>1. s[1] = JobSetNodesStanding(u, watch["nodes"][1])
        OBVIOUS
    <2>. HIDE DEF s
    <2>2. Idle(<< >>, s, 1, 0)
        BY <2>1, StandingIs, IdleAtFirst DEF JobSetNodesStanding
    <2>. QED
        BY <2>2 DEF s
<1>9. NodePoolsInv
    <2>1. ASSUME NEW p \in Tracked
          PROVE  Idle(<< >>, [i \in 1..1 |-> NodePoolStanding(p, watch["nodes"][i])], 1, 0)
        <3>. DEFINE s == [i \in 1..1 |-> NodePoolStanding(p, watch["nodes"][i])]
        <3>1. s[1] = NodePoolStanding(p, watch["nodes"][1])
            OBVIOUS
        <3>. HIDE DEF s
        <3>2. Idle(<< >>, s, 1, 0)
            BY <3>1, StandingIs, IdleAtFirst DEF NodePoolStanding
        <3>. QED
            BY <3>2 DEF s
    <2>2. Interruptions(<< >>) = 0
        BY NoneAtFirst
    <2>3. \A p \in Tracked : p \in Observed("node-pools")
        BY ObservedIs DEF Tracked
    <2>4. ASSUME NEW p \in Tracked
          PROVE  Interruptions(HistoryOf(store["node-pools"], p)) <= interrupted["node-pools"][p]
        BY <1>5, <2>2, <2>3 DEF Keys
    <2>5. DOMAIN store["node-pools"] = {}
        BY DEF Init, Keys
    <2>. QED
        BY <1>3, <1>5, <1>6, <2>1, <2>3, <2>4, <2>5 DEF NodePoolsInv, Accounted, Keys, Kinds
<1>. QED
    BY <1>1, <1>2, <1>4, <1>7, <1>8, <1>9 DEF RealInv

(* The invariant implies the property.                                     *)
LEMMA RealInvIsReal ==
    ASSUME ObserversInv, RealInv
    PROVE  InterruptionsWereReal
<1>. USE DEF ObserversInv, RealInv
<1>. SUFFICES ASSUME NEW k \in Keys, NEW r \in DOMAIN store[k]
              PROVE  Interruptions(store[k][r]) <= interrupted[k][r]
    BY DEF InterruptionsWereReal
<1>. DEFINE h == HistoryOf(store[k], r)
            total == interrupted[k][r]
<1>1. h = store[k][r] /\ h \in Seq(UpEvent) /\ r \in Observed(k) /\ total \in Nat
    BY HistoriesAreHistories DEF HistoryOf, StoreInv, CountInv
<1>2. \A kind \in Kinds : Len(watch[kind]) \in Nat \ {0}
    BY CachedAndNow
<1>3. CASE k = "node-pools"
    BY <1>1, <1>3 DEF NodePoolsInv
<1>4. CASE k = "jobset-nodes"
    <2>. DEFINE n == Len(watch["nodes"])
                s == [i \in 1..n |-> JobSetNodesStanding(r, watch["nodes"][i])]
    <2>1. Idle(h, s, n, total)
        BY <1>1, <1>4, ObservedIs DEF JobSetNodesInv
    <2>2. n \in Nat \ {0}
        BY <1>2 DEF Kinds
    <2>. HIDE DEF h, s, n, total
    <2>3. Accounted(h, FALSE, "up", s, n, total)
        BY <2>1 DEF Accounted
    <2>4. Interruptions(h) <= total
        BY <1>1, <2>2, <2>3, AccountedIsReal
    <2>. QED
        BY <1>1, <2>4 DEF total
<1>5. CASE k \in Workloads
    <2>. DEFINE n == Len(watch[KindOf(k)])
                c == WorkloadStanding(k, r, listed[KindOf(k)])
                s == [i \in 1..n |-> WorkloadStanding(k, r, watch[KindOf(k)][i])]
                holding == pc["workload"] = "nodes"
    <2>1. Accounted(h, holding, c, s, n, total)
        BY <1>1, <1>5 DEF WorkloadsInv
    <2>2. n \in Nat \ {0}
        BY <1>2, <1>5, WorkloadsNow
    <2>. HIDE DEF h, s, n, total, c, holding
    <2>3. Interruptions(h) <= total
        BY <1>1, <2>1, <2>2, AccountedIsReal
    <2>. QED
        BY <1>1, <2>3 DEF total
<1>. QED
    BY <1>3, <1>4, <1>5 DEF Keys, Workloads

(* No interruption is made up: of no node pool, JobSet, JobSet's nodes or  *)
(* LeaderWorkerSet are more recorded than there were, in clusters of any   *)
(* size, however far the caches lag and however often lists fail.  For     *)
(* JobSets it rests on completion being final, for node pools on the order *)
(* of NodePoller's lists and on deletion being final.                      *)
THEOREM RecordedInterruptionsWereReal == Spec => []InterruptionsWereReal
<1>1. Init => ObserversInv /\ RealInv
    BY ObserversInit, RealInit
<1>2. ObserversInv /\ RealInv /\ [Next]_vars => (ObserversInv /\ RealInv)'
    BY ObserversStep, RealStep
<1>3. ObserversInv /\ RealInv => InterruptionsWereReal
    BY RealInvIsReal
<1>. QED
    BY <1>1, <1>2, <1>3, PTL DEF Spec

-----------------------------------------------------------------------------
(* What is forgotten is gone.                                              *)

KeysWith(k) == IF k = "jobsets" THEN {"jobsets", "jobset-nodes"} ELSE {k}

(* The states a cache has yet to see, and the list that is being worked    *)
(* on, follow each other as a workload comes into being and goes; one of   *)
(* which there is a record had been created in all of them.                *)
Lasts(k, u) ==
    LET kind == KindOf(k)
        exists(i) == watch[kind][i][u].exists
    IN  /\ \A i \in 1..Len(watch[kind]) : \A j \in i..Len(watch[kind]) :
             Onward(exists(i), exists(j))
        /\ pc["workload"] = "nodes" =>
             /\ listed[kind][u].exists \in {"no", "yes", "gone"}
             /\ Onward(listed[kind][u].exists, exists(1))
        /\ \A key \in KeysWith(k) : u \in DOMAIN store[key] =>
             /\ exists(1) # "no"
             /\ pc["workload"] = "nodes" => listed[kind][u].exists # "no"

LastsInv ==
    /\ \A k \in Workloads : \A u \in Observed(k) : Lasts(k, u)
    /\ \A p \in DOMAIN store["node-pools"] : pools[p] # "NONE"

(* Nothing is recorded at first.                                           *)
LEMMA LastsInit ==
    ASSUME Init
    PROVE  LastsInv
<1>1. \A kind \in Kinds : Len(watch[kind]) = 1
    <2>1. /\ \E a : watch["nodes"] = <<a>>
          /\ \E a : watch["jobsets"] = <<a>>
          /\ \E a : watch["leaderworkersets"] = <<a>>
        BY Zenon DEF Init, Kinds
    <2>. QED
        BY <2>1, OneState DEF Kinds
<1>2. pc["workload"] # "nodes" /\ \A key \in Keys : DOMAIN store[key] = {}
    BY DEF Init
<1>3. ASSUME NEW k \in Workloads, NEW u \in Observed(k)
      PROVE  Lasts(k, u)
    <2>1. KindOf(k) \in Kinds /\ KeysWith(k) \subseteq Keys
        BY DEF Workloads, KindOf, Kinds, KeysWith, Keys
    <2>2. \A i \in 1..1 : \A j \in i..1 : i = j
        OBVIOUS
    <2>3. \A i \in 1..Len(watch[KindOf(k)]) : \A j \in i..Len(watch[KindOf(k)]) : i = j
        BY <1>1, <2>1, <2>2
    <2>. QED
        BY <1>2, <2>1, <2>3 DEF Lasts, Onward
<1>. QED
    BY <1>2, <1>3 DEF LastsInv, Keys

(* What happens to the cluster is the next state of its cache.             *)
LEMMA ClusterKeepsLasts ==
    ASSUME ObserversInv, RealInv, LastsInv, Cluster
    PROVE  LastsInv'
<1>. USE DEF ObserversInv, RealInv
<1>1. UNCHANGED <<pc, listed, store>>
    BY ClusterChanges
<1>2. ASSUME NEW p \in DOMAIN store["node-pools"]
      PROVE  pools'[p] # "NONE"
    <2>1. pools[p] # "NONE"
        BY <1>2 DEF LastsInv
    <2>2. CASE NodePoolChange
        <3>1. PICK q \in NodePools, c \in StatusChanges : pools' = [pools EXCEPT ![q] = c[2]]
            BY <2>2 DEF NodePoolChange
        <3>2. c[2] # "NONE"
            BY DEF StatusChanges
        <3>3. p \in NodePools
            BY ObservedIs DEF StoreInv, Keys
        <3>. QED
            BY <2>1, <3>1, <3>2, <3>3 DEF PoolsInv
    <2>. QED
        BY <2>1, <2>2, ClusterChanges DEF NodeChange, WorkloadsChange, Happens
<1>3. ASSUME NEW k \in Workloads, NEW u \in Observed(k)
      PROVE  Lasts(k, u)'
    <2>. DEFINE kind == KindOf(k)
                w == watch[kind]
                n == Len(w)
    <2>0. kind \in Kinds /\ n \in Nat /\ n >= 1 /\ Now(kind) = w[n]
        BY WorkloadsNow, CachedAndNow
    <2>1. Lasts(k, u)
        BY DEF LastsInv
    <2>2. CASE watch'[kind] = w
        BY <1>1, <2>1, <2>2 DEF Lasts
    <2>3. CASE WorkloadsChange(k)
        <3>1. PICK state : Happens(kind, state) /\ Onward(Now(kind)[u].exists, state[u].exists)
            BY <2>3 DEF WorkloadsChange
        <3>2. /\ Len(watch'[kind]) = n + 1 /\ watch'[kind][n + 1] = state
              /\ \A i \in 1..n : watch'[kind][i] = w[i]
            BY <2>0, <3>1, HappensShape
        <3>3. PICK v : v = watch'[kind]
            OBVIOUS
        <3>4. /\ \A i \in 1..n : \A j \in i..n : Onward(w[i][u].exists, w[j][u].exists)
              /\ Onward(w[n][u].exists, state[u].exists)
            BY <2>0, <2>1, <3>1 DEF Lasts
        <3>. HIDE DEF n, w, kind
        <3>5. ASSUME NEW i \in 1..(n + 1), NEW j \in i..(n + 1)
              PROVE  Onward(v[i][u].exists, v[j][u].exists)
            <4>1. CASE j <= n
                <5>1. i \in 1..n /\ j \in i..n /\ j \in 1..n
                    BY <2>0, <4>1
                <5>. QED
                    BY <3>2, <3>3, <3>4, <5>1
            <4>2. CASE i <= n /\ j = n + 1
                <5>1. i \in 1..n /\ n \in i..n
                    BY <2>0, <4>2
                <5>2. Onward(w[i][u].exists, w[n][u].exists)
                    BY <3>4, <5>1
                <5>. QED
                    BY <3>2, <3>3, <3>4, <4>2, <5>1, <5>2 DEF Onward
            <4>3. CASE i = n + 1 /\ j = n + 1
                BY <4>3 DEF Onward
            <4>. QED
                BY <2>0, <4>1, <4>2, <4>3
        <3>6. v[1] = w[1] /\ Len(v) = n + 1
            BY <2>0, <3>2, <3>3
        <3>. QED
            BY <1>1, <2>1, <3>3, <3>5, <3>6 DEF Lasts, kind, w, n
    <2>. QED
        BY <2>2, <2>3, OneKindChanges
<1>. QED
    BY <1>1, <1>2, <1>3 DEF LastsInv

(* A cache sees the next state.                                            *)
LEMMA CacheUpdateKeepsLasts ==
    ASSUME ObserversInv, RealInv, LastsInv, NEW kind \in Kinds, CacheUpdates(kind)
    PROVE  LastsInv'
<1>. USE DEF ObserversInv, RealInv
<1>1. UNCHANGED <<pools, pc, listed, store>>
    BY DEF CacheUpdates
<1>2. ASSUME NEW k \in Workloads, NEW u \in Observed(k)
      PROVE  Lasts(k, u)'
    <2>. DEFINE w == watch[KindOf(k)]
                n == Len(w)
    <2>0. KindOf(k) \in Kinds /\ n \in Nat /\ n >= 1
        BY WorkloadsNow, CachedAndNow
    <2>1. Lasts(k, u)
        BY DEF LastsInv
    <2>2. CASE KindOf(k) # kind
        <3>1. watch'[KindOf(k)] = w
            BY <2>0, <2>2, CacheShape
        <3>. QED
            BY <1>1, <2>1, <3>1 DEF Lasts
    <2>3. CASE KindOf(k) = kind
        <3>1. PICK v : v = watch'[KindOf(k)]
            OBVIOUS
        <3>2. n > 1 /\ Len(v) = n - 1 /\ \A i \in 1..(n - 1) : v[i] = w[i + 1]
            BY <2>3, <3>1, CacheShape
        <3>3. \A i \in 1..n : \A j \in i..n : Onward(w[i][u].exists, w[j][u].exists)
            BY <2>1 DEF Lasts
        <3>. HIDE DEF n, w
        <3>4. ASSUME NEW i \in 1..(n - 1), NEW j \in i..(n - 1)
              PROVE  Onward(v[i][u].exists, v[j][u].exists)
            <4>1. i + 1 \in 1..n /\ j + 1 \in (i + 1)..n /\ j \in 1..(n - 1)
                BY <2>0
            <4>. QED
                BY <3>2, <3>3, <4>1
        <3>5. Onward(w[1][u].exists, v[1][u].exists)
            <4>1. 1 \in 1..n /\ 2 \in 1..n /\ 1 \in 1..(n - 1) /\ 1 + 1 = 2
                BY <2>0, <3>2
            <4>. QED
                BY <3>2, <3>3, <4>1
        <3>6. /\ pc["workload"] = "nodes" =>
                   /\ listed[KindOf(k)][u].exists \in {"no", "yes", "gone"}
                   /\ Onward(listed[KindOf(k)][u].exists, w[1][u].exists)
              /\ \A key \in KeysWith(k) : u \in DOMAIN store[key] =>
                   /\ w[1][u].exists # "no"
                   /\ pc["workload"] = "nodes" => listed[KindOf(k)][u].exists # "no"
            BY <2>1 DEF Lasts, w
        <3>7. /\ pc["workload"] = "nodes" => Onward(listed[KindOf(k)][u].exists, v[1][u].exists)
              /\ \A key \in KeysWith(k) : u \in DOMAIN store[key] => v[1][u].exists # "no"
            BY <3>5, <3>6 DEF Onward
        <3>. QED
            BY <1>1, <3>1, <3>2, <3>4, <3>6, <3>7 DEF Lasts
    <2>. QED
        BY <2>2, <2>3
<1>. QED
    BY <1>1, <1>2 DEF LastsInv

(* A reconciliation leaves records of the workloads it has listed, ...     *)
LEMMA WhatListNodesLeaves ==
    ASSUME ObserversInv, ListNodes
    PROVE  /\ pc["workload"] = "nodes" /\ pc'["workload"] = "idle"
           /\ UNCHANGED <<watch, pools>> /\ store'["node-pools"] = store["node-pools"]
           /\ \A k \in Workloads : \A key \in KeysWith(k) :
                DOMAIN store'[key] = {u \in Observed(k) : listed[KindOf(k)][u].exists = "yes"}
<1>. USE DEF ObserversInv
<1>. DEFINE ups == Upnesses(Cached("nodes"), pools, listed["jobsets"], listed["leaderworkersets"])
<1>1. /\ pc["workload"] = "nodes" /\ AppendStateChanges(Keys \ {"node-pools"}, ups)
      /\ pc' = [pc EXCEPT !["workload"] = "idle"]
      /\ UNCHANGED <<watch, pools>>
    BY DEF ListNodes, Goto
<1>2. pc'["workload"] = "idle"
    BY <1>1 DEF ListInv
<1>3. /\ ups["jobsets"] = JobSetsUp(listed["jobsets"])
      /\ ups["jobset-nodes"] = JobSetNodesUp(listed["jobsets"], Cached("nodes"))
      /\ ups["leader-worker-sets"] = processLeaderWorkerSets(listed["leaderworkersets"])
    BY UpnessesAre
<1>. HIDE DEF ups
<1>4. ASSUME NEW k \in Workloads, NEW key \in KeysWith(k)
      PROVE  DOMAIN store'[key] = {u \in Observed(k) : listed[KindOf(k)][u].exists = "yes"}
    <2>1. key \in Keys /\ key \in Keys \ {"node-pools"}
        BY DEF Workloads, KeysWith, Keys
    <2>2. DOMAIN ups[key] = Listed(listed[KindOf(k)])
        BY <1>3 DEF Workloads, KeysWith, KindOf, JobSetsUp, JobSetNodesUp, processLeaderWorkerSets
    <2>3. DOMAIN listed[KindOf(k)] = Observed(k)
        BY <1>1, ObservedIs DEF ListInv, Workloads, KindOf
    <2>4. DOMAIN store'[key] = DOMAIN ups[key]
        BY <1>1, <2>1, Recorded
    <2>. QED
        BY <2>2, <2>3, <2>4 DEF Listed
<1>5. store'["node-pools"] = store["node-pools"]
    BY <1>1, Recorded DEF Keys
<1>. QED
    BY <1>1, <1>2, <1>4, <1>5

(* ... and a poll of the node pools there are.                             *)
LEMMA WhatPollLeaves ==
    ASSUME ObserversInv, PollResources \/ PollFails
    PROVE  /\ UNCHANGED <<watch, pools>> /\ pc'["workload"] = pc["workload"]
           /\ \A k \in Workloads : listed'[KindOf(k)] = listed[KindOf(k)]
           /\ \A key \in Keys \ {"node-pools"} : store'[key] = store[key]
           /\ \/ store'["node-pools"] = store["node-pools"]
              \/ DOMAIN store'["node-pools"] = {p \in Tracked : pools[p] \notin {"NONE", "GONE"}}
<1>. USE DEF ObserversInv
<1>1. /\ UNCHANGED <<watch, pools>>
      /\ \E a : pc' = [pc EXCEPT !["poller"] = a]
      /\ \E a : listed' = [listed EXCEPT !["nodes"] = a]
    BY DEF PollResources, PollFails, Goto
<1>2. /\ pc'["workload"] = pc["workload"]
      /\ \A k \in Workloads : listed'[KindOf(k)] = listed[KindOf(k)]
    BY <1>1 DEF ListInv, Kinds, Workloads, KindOf
<1>3. CASE UNCHANGED store
    BY <1>1, <1>2, <1>3
<1>4. CASE ~UNCHANGED store
    <2>. DEFINE up == NodePoolsUp(listed["nodes"], pools)
                ups == [j \in {"node-pools"} |-> up]
    <2>1. AppendStateChanges({"node-pools"}, ups)
        BY <1>4 DEF PollResources, PollFails
    <2>2. ups["node-pools"] = up /\ DOMAIN up = {p \in Tracked : pools[p] \notin {"NONE", "GONE"}}
        BY DEF NodePoolsUp, Tracked
    <2>. HIDE DEF up, ups
    <2>3. DOMAIN store'["node-pools"] = DOMAIN up
        BY <2>1, <2>2, Recorded DEF Keys
    <2>4. \A key \in Keys \ {"node-pools"} : store'[key] = store[key]
        BY <2>1, Recorded
    <2>. QED
        BY <1>1, <1>2, <2>2, <2>3, <2>4
<1>. QED
    BY <1>3, <1>4

(* Every step keeps the invariant.                                         *)
LEMMA LastsStep ==
    ASSUME ObserversInv, RealInv, LastsInv, [Next]_vars
    PROVE  LastsInv'
<1>. USE DEF ObserversInv, RealInv
<1>0. ASSUME NEW k \in Workloads, NEW u \in Observed(k)
      PROVE  /\ Lasts(k, u)
             /\ Cached(KindOf(k)) = watch[KindOf(k)][1]
             /\ watch[KindOf(k)][1][u].exists \in {"no", "yes", "gone"}
             /\ k \in Keys \ {"node-pools"} /\ KeysWith(k) \subseteq Keys \ {"node-pools"}
    <2>1. KindOf(k) \in Kinds
        BY WorkloadsNow
    <2>2. Cached(KindOf(k)) = watch[KindOf(k)][1] /\ 1 \in 1..Len(watch[KindOf(k)])
        BY <2>1, CachedAndNow
    <2>3. KeysWith(k) \subseteq Keys \ {"node-pools"} /\ k \in Keys \ {"node-pools"}
        BY DEF KeysWith, Keys, Workloads
    <2>. QED
        BY <2>2, <2>3 DEF LastsInv, ExistsInv
<1>1. CASE ListWorkloads
    <2>1. /\ pc' = [pc EXCEPT !["workload"] = "nodes"]
          /\ listed' = [listed EXCEPT !["jobsets"] = Cached("jobsets"),
                                      !["leaderworkersets"] = Cached("leaderworkersets")]
          /\ UNCHANGED <<watch, pools, store>>
        BY <1>1 DEF ListWorkloads, Goto
    <2>2. \A k \in Workloads : listed'[KindOf(k)] = Cached(KindOf(k))
        BY <2>1 DEF ListInv, Kinds, Workloads, KindOf
    <2>3. ASSUME NEW k \in Workloads, NEW u \in Observed(k)
          PROVE  Lasts(k, u)'
        <3>1. listed'[KindOf(k)][u].exists = watch[KindOf(k)][1][u].exists
            BY <1>0, <2>2
        <3>2. watch[KindOf(k)][1][u].exists \in {"no", "yes", "gone"} /\ Lasts(k, u)
            BY <1>0
        <3>3. Onward(watch[KindOf(k)][1][u].exists, watch[KindOf(k)][1][u].exists)
            BY DEF Onward
        <3>. QED
            BY <2>1, <3>1, <3>2, <3>3 DEF Lasts
    <2>. QED
        BY <2>1, <2>3 DEF LastsInv
<1>2. CASE ListNodes
    <2>1. ASSUME NEW k \in Workloads, NEW u \in Observed(k)
          PROVE  Lasts(k, u)'
        <3>1. /\ Lasts(k, u) /\ UNCHANGED watch
              /\ pc["workload"] = "nodes" /\ pc'["workload"] # "nodes"
              /\ \A key \in KeysWith(k) :
                   u \in DOMAIN store'[key] => listed[KindOf(k)][u].exists = "yes"
            BY <1>0, <1>2, WhatListNodesLeaves
        <3>2. listed[KindOf(k)][u].exists = "yes" => watch[KindOf(k)][1][u].exists # "no"
            BY <3>1 DEF Lasts, Onward
        <3>. QED
            BY <3>1, <3>2 DEF Lasts
    <2>. QED
        BY <1>2, <2>1, WhatListNodesLeaves DEF LastsInv
<1>3. CASE ListFails
    <2>1. /\ pc' = [pc EXCEPT !["workload"] = "idle"]
          /\ UNCHANGED <<watch, pools, store>>
        BY <1>3 DEF ListFails, Goto
    <2>2. pc'["workload"] # "nodes"
        BY <2>1 DEF ListInv
    <2>3. ASSUME NEW k \in Workloads, NEW u \in Observed(k)
          PROVE  Lasts(k, u)'
        BY <1>0, <2>1, <2>2 DEF Lasts
    <2>. QED
        BY <2>1, <2>3 DEF LastsInv
<1>4. CASE PollResources \/ PollFails
    <2>1. ASSUME NEW k \in Workloads, NEW u \in Observed(k)
          PROVE  Lasts(k, u)'
        <3>1. /\ Lasts(k, u) /\ UNCHANGED watch /\ pc'["workload"] = pc["workload"]
              /\ listed'[KindOf(k)] = listed[KindOf(k)]
              /\ \A key \in KeysWith(k) : store'[key] = store[key]
            BY <1>0, <1>4, WhatPollLeaves
        <3>. QED
            BY <3>1 DEF Lasts
    <2>2. \A p \in DOMAIN store'["node-pools"] : pools'[p] # "NONE"
        BY <1>4, WhatPollLeaves DEF LastsInv
    <2>. QED
        BY <2>1, <2>2 DEF LastsInv
<1>5. CASE UNCHANGED vars
    BY <1>5 DEF vars, LastsInv, Lasts
<1>. QED
    BY <1>1, <1>2, <1>3, <1>4, <1>5, ClusterKeepsLasts, CacheUpdateKeepsLasts DEF Next, Reconcile

(* What a step forgets is gone: the list it is missing from is followed by *)
(* every state that the cache has yet to see.                              *)
LEMMA ForgottenIsGone ==
    ASSUME ObserversInv, RealInv, LastsInv, [Next]_vars,
           NEW key \in Keys, NEW r \in DOMAIN store[key] \ DOMAIN store'[key]
    PROVE  Gone(key, r)
<1>. USE DEF ObserversInv, RealInv
<1>1. CASE ListNodes
    <2>1. PICK k \in Workloads : key \in KeysWith(k)
        <3>1. key # "node-pools"
            BY <1>1, WhatListNodesLeaves
        <3>. QED
            BY <3>1 DEF KeysWith, Workloads, Keys
    <2>2. r \in Observed(k)
        BY <2>1, ObservedIs DEF StoreInv, KeysWith, Workloads
    <2>3. Lasts(k, r) /\ pc["workload"] = "nodes" /\ listed[KindOf(k)][r].exists # "yes"
        BY <1>1, <2>1, <2>2, WhatListNodesLeaves DEF LastsInv
    <2>4. watch[KindOf(k)][1][r].exists = "gone"
        BY <2>1, <2>3 DEF Lasts, Onward
    <2>. DEFINE n == Len(watch[KindOf(k)])
    <2>5. n \in Nat /\ n >= 1 /\ Now(KindOf(k)) = watch[KindOf(k)][n]
        BY WorkloadsNow, CachedAndNow
    <2>6. 1 \in 1..n /\ n \in 1..n
        BY <2>5
    <2>7. Onward(watch[KindOf(k)][1][r].exists, watch[KindOf(k)][n][r].exists)
        BY <2>3, <2>6 DEF Lasts
    <2>8. Now(KindOf(k))[r].exists = "gone"
        BY <2>4, <2>5, <2>7 DEF Onward
    <2>. QED
        BY <2>1, <2>8 DEF Gone, KindOf, KeysWith, Workloads
<1>2. CASE PollResources \/ PollFails
    <2>1. /\ key = "node-pools"
          /\ DOMAIN store'["node-pools"] = {p \in Tracked : pools[p] \notin {"NONE", "GONE"}}
        BY <1>2, WhatPollLeaves
    <2>2. r \in Tracked /\ pools[r] # "NONE"
        BY <2>1 DEF NodePoolsInv, LastsInv
    <2>3. pools[r] = "GONE"
        BY <2>1, <2>2
    <2>. QED
        BY <2>1, <2>3 DEF Gone
<1>3. CASE UNCHANGED store
    BY <1>3
<1>4. ListNodes \/ PollResources \/ PollFails \/ UNCHANGED store
    <2>1. Cluster => UNCHANGED store
        BY ClusterChanges
    <2>. QED
        BY <2>1 DEF Next, Reconcile, CacheUpdates, ListWorkloads, ListFails, vars
<1>. QED
    BY <1>1, <1>2, <1>3, <1>4

(* Only what no longer exists is forgotten: no list that fails, and no     *)
(* cache that lags behind, makes an observer drop the history of a         *)
(* resource that does.                                                     *)
THEOREM OnlyTheGoneAreEverForgotten == Spec => OnlyTheGoneAreForgotten
<1>1. Init => ObserversInv /\ RealInv /\ LastsInv
    BY ObserversInit, RealInit, LastsInit
<1>2. ObserversInv /\ RealInv /\ LastsInv /\ [Next]_vars => (ObserversInv /\ RealInv /\ LastsInv)'
    BY ObserversStep, RealStep, LastsStep
<1>3. ObserversInv /\ RealInv /\ LastsInv /\ [Next]_vars =>
        [\A k \in Keys : \A r \in DOMAIN store[k] \ DOMAIN store'[k] : Gone(k, r)]_vars
    BY ForgottenIsGone
<1>. QED
    BY <1>1, <1>2, <1>3, PTL DEF Spec, OnlyTheGoneAreForgotten
=============================================================================
