--------------------------- MODULE HistoryProofs ----------------------------
(***************************************************************************)
(* Proofs about History, for histories of any length: what Summarize says  *)
(* of the outcome of provisioning, of the number of interruptions and      *)
(* recoveries, and of the time a resource was up or down.                  *)
(*                                                                         *)
(* Summarize adds up gaps between events.  What such a sum is is shown by  *)
(* induction over the size of the set of events it ranges over, and what   *)
(* the sums mean by induction over the events of a history.                *)
(***************************************************************************)
EXTENDS History, UpEventsProofs, FiniteSetTheorems, FunctionTheorems, WellFoundedInduction

-----------------------------------------------------------------------------
(* Induction over the natural numbers.                                     *)

(* Every non-empty set of numbers has a least one.                         *)
LEMMA LeastNumber ==
    ASSUME NEW T \in SUBSET Nat, T # {}
    PROVE  \E m \in T : \A k \in T : m <= k
<1>1. IsWellFoundedOn({ss \in Nat \X Nat : ss[1] < ss[2]}, Nat)
    BY NatLessThanWellFounded DEF OpToRel
<1>2. PICK m \in T : \A k \in T : <<k, m>> \notin {ss \in Nat \X Nat : ss[1] < ss[2]}
    BY <1>1, WFMin
<1>3. \A k \in T : ~(k < m)
    BY <1>2
<1>. QED
    BY <1>3

(* Induction, for a set instead of a predicate.                            *)
LEMMA SetInduction ==
    ASSUME NEW S \in SUBSET Nat, 0 \in S, \A n \in S : n + 1 \in S
    PROVE  \A n \in Nat : n \in S
<1>. DEFINE T == Nat \ S
<1>. SUFFICES ASSUME T # {} PROVE FALSE
    OBVIOUS
<1>1. T \in SUBSET Nat
    OBVIOUS
<1>. HIDE DEF T
<1>2. PICK m \in T : \A k \in T : m <= k
    BY <1>1, LeastNumber
<1>. USE DEF T
<1>3. m - 1 \in Nat
    OBVIOUS
<1>4. m - 1 \in S
    BY <1>2, <1>3
<1>5. (m - 1) + 1 \in S
    BY <1>4
<1>. QED
    BY <1>5

(* A non-empty set of indexes has a greatest one, which Max is.            *)
LEMMA MaxInSet ==
    ASSUME NEW n \in Nat, NEW S \in SUBSET (1..n), S # {}
    PROVE  Max(S) \in S /\ \A i \in S : i <= Max(S)
<1>. DEFINE T == {n - i : i \in S}
<1>1. T \in SUBSET Nat /\ T # {}
    OBVIOUS
<1>. HIDE DEF T
<1>2. PICK m \in T : \A k \in T : m <= k
    BY <1>1, LeastNumber
<1>3. PICK x \in S : m = n - x
    BY <1>2 DEF T
<1>4. \A i \in S : n - x <= n - i
    BY <1>2, <1>3 DEF T
<1>5. \A i \in S : x >= i
    BY <1>4
<1>6. Max(S) \in S /\ \A i \in S : Max(S) >= i
    BY <1>5 DEF Max
<1>. QED
    BY <1>6

-----------------------------------------------------------------------------
(* What TotalGap computes: a sum that does not depend on the order in      *)
(* which CHOOSE takes the events.                                          *)

Chosen(S) == CHOOSE x \in S : TRUE

(* g is the function on the subsets of S that the sum is computed with.    *)
Sums(h, S, g) ==
    g = [s \in SUBSET S |-> IF s = {} THEN 0 ELSE Gap(h, Chosen(s)) + g[s \ {Chosen(s)}]]

(* The total is taken from that function.                                  *)
LEMMA TotalIsSum ==
    ASSUME NEW h, NEW S
    PROVE  TotalGap(h, S) = (CHOOSE g : Sums(h, S, g))[S]
BY DEF TotalGap, MapThenSumSet, MapThenFoldSet, Sums, Chosen

(* One event at a time is taken out of a finite set.                       *)
LEMMA TakeChosen ==
    ASSUME NEW S, IsFiniteSet(S), S # {}
    PROVE  /\ Chosen(S) \in S
           /\ IsFiniteSet(S \ {Chosen(S)})
           /\ Cardinality(S \ {Chosen(S)}) = Cardinality(S) - 1
           /\ Cardinality(S) \in Nat \ {0}
<1>1. Chosen(S) \in S
    BY DEF Chosen
<1>. QED
    BY <1>1, FS_RemoveElement, FS_EmptySet, FS_CardinalityType

(* The subsets of at most n elements.                                      *)
UpTo(S, n) == {s \in SUBSET S : Cardinality(s) <= n}

(* There is such a function, as the set is finite.                         *)
LEMMA SumExists ==
    ASSUME NEW h, NEW S, IsFiniteSet(S)
    PROVE  \E g : Sums(h, S, g)
<1>. DEFINE Step(g, s) == IF s = {} THEN 0 ELSE Gap(h, Chosen(s)) + g[s \ {Chosen(s)}]
            Solves(g, n) == g = [s \in UpTo(S, n) |-> Step(g, s)]
            Good == {n \in Nat : \E g : Solves(g, n)}
<1>1. \A s \in SUBSET S : IsFiniteSet(s) /\ Cardinality(s) \in Nat
    BY FS_Subset, FS_CardinalityType
<1>2. 0 \in Good
    <2>. DEFINE g == [s \in UpTo(S, 0) |-> 0]
    <2>1. \A s \in UpTo(S, 0) : s = {}
        BY <1>1, FS_EmptySet DEF UpTo
    <2>2. g = [s \in UpTo(S, 0) |-> Step(g, s)]
        BY <2>1
    <2>. QED
        BY <2>2
<1>3. ASSUME NEW n \in Good PROVE n + 1 \in Good
    <2>1. PICK g : g = [s \in UpTo(S, n) |-> Step(g, s)]
        OBVIOUS
    <2>. DEFINE f == [s \in UpTo(S, n + 1) |-> Step(g, s)]
    <2>2. ASSUME NEW s \in UpTo(S, n + 1), s # {}
          PROVE  f[s \ {Chosen(s)}] = g[s \ {Chosen(s)}]
        <3>1. s \ {Chosen(s)} \in UpTo(S, n)
            BY <1>1, <2>2, TakeChosen DEF UpTo
        <3>2. s \ {Chosen(s)} \in UpTo(S, n + 1)
            BY <1>1, <3>1 DEF UpTo
        <3>. QED
            BY <2>1, <3>1, <3>2
    <2>3. \A s \in UpTo(S, n + 1) : Step(g, s) = Step(f, s)
        BY <2>2
    <2>4. Solves(f, n + 1)
        BY <2>3
    <2>. HIDE DEF f, Solves
    <2>. QED
        BY <2>4
<1>4. Cardinality(S) \in Good
    <2>. HIDE DEF Good
    <2>1. Good \in SUBSET Nat
        BY DEF Good
    <2>. QED
        BY <1>1, <1>2, <1>3, <2>1, SetInduction
<1>5. UpTo(S, Cardinality(S)) = SUBSET S
    BY FS_Subset DEF UpTo
<1>. QED
    BY <1>4, <1>5 DEF Sums

(* What the function says of a set depends on the set alone.               *)
LEMMA SumsAgree ==
    ASSUME NEW h, NEW S, IsFiniteSet(S), NEW f, Sums(h, S, f),
           NEW T \in SUBSET S, NEW g, Sums(h, T, g)
    PROVE  f[T] = g[T]
<1>. DEFINE Good == {n \in Nat : \A s \in SUBSET T : Cardinality(s) = n => f[s] = g[s]}
<1>1. \A s \in SUBSET T : IsFiniteSet(s) /\ Cardinality(s) \in Nat /\ s \in SUBSET S
    BY FS_Subset, FS_CardinalityType
<1>2. 0 \in Good
    <2>1. \A s \in SUBSET T : Cardinality(s) = 0 => s = {}
        BY <1>1, FS_EmptySet
    <2>2. f[{}] = 0 /\ g[{}] = 0
        BY DEF Sums
    <2>. QED
        BY <2>1, <2>2
<1>3. ASSUME NEW n \in Good PROVE n + 1 \in Good
    <2>. SUFFICES ASSUME NEW s \in SUBSET T, Cardinality(s) = n + 1
                  PROVE  f[s] = g[s]
        OBVIOUS
    <2>1. s # {}
        BY FS_EmptySet
    <2>2. /\ s \ {Chosen(s)} \in SUBSET T
          /\ Cardinality(s \ {Chosen(s)}) = n
        BY <1>1, <2>1, TakeChosen
    <2>3. f[s \ {Chosen(s)}] = g[s \ {Chosen(s)}]
        BY <2>2
    <2>4. f[s] = Gap(h, Chosen(s)) + f[s \ {Chosen(s)}]
        BY <1>1, <2>1 DEF Sums
    <2>5. g[s] = Gap(h, Chosen(s)) + g[s \ {Chosen(s)}]
        BY <2>1 DEF Sums
    <2>. QED
        BY <2>3, <2>4, <2>5
<1>4. Cardinality(T) \in Good
    <2>. HIDE DEF Good
    <2>1. Good \in SUBSET Nat
        BY DEF Good
    <2>. QED
        BY <1>1, <1>2, <1>3, <2>1, SetInduction
<1>. QED
    BY <1>4

(* The total is 0 of no event, else that of the chosen one and the rest.   *)
LEMMA TotalGapChosen ==
    ASSUME NEW h, NEW S, IsFiniteSet(S)
    PROVE  TotalGap(h, S) = IF S = {} THEN 0
                            ELSE Gap(h, Chosen(S)) + TotalGap(h, S \ {Chosen(S)})
<1>. DEFINE iter(T) == CHOOSE g : Sums(h, T, g)
<1>1. \A T \in SUBSET S : Sums(h, T, iter(T))
    <2>1. \A T \in SUBSET S : \E g : Sums(h, T, g)
        BY SumExists, FS_Subset
    <2>. QED
        BY <2>1
<1>2. \A T \in SUBSET S : TotalGap(h, T) = iter(T)[T]
    BY TotalIsSum
<1>. HIDE DEF iter
<1>3. \A T \in SUBSET S : iter(S)[T] = iter(T)[T]
    BY <1>1, SumsAgree
<1>4. iter(S)[S] = IF S = {} THEN 0 ELSE Gap(h, Chosen(S)) + iter(S)[S \ {Chosen(S)}]
    BY <1>1 DEF Sums
<1>. QED
    BY <1>2, <1>3, <1>4

(* The order does not matter: any event may be taken out first.            *)
LEMMA TotalGapRemove ==
    ASSUME NEW h, NEW S, IsFiniteSet(S), \A i \in S : Gap(h, i) \in Int
    PROVE  /\ TotalGap(h, S) \in Int
           /\ \A i \in S : TotalGap(h, S) = Gap(h, i) + TotalGap(h, S \ {i})
<1>. DEFINE V(s) == TotalGap(h, s)
            G(i) == Gap(h, i)
            Ok(s) == V(s) \in Int /\ \A i \in s : V(s) = G(i) + V(s \ {i})
            Good == {n \in Nat : \A s \in SUBSET S : Cardinality(s) <= n => Ok(s)}
<1>1. \A s \in SUBSET S : IsFiniteSet(s) /\ Cardinality(s) \in Nat
    BY FS_Subset, FS_CardinalityType
<1>2. \A s \in SUBSET S : s # {} =>
        V(s) = G(Chosen(s)) + V(s \ {Chosen(s)}) /\ G(Chosen(s)) \in Int
    BY <1>1, TotalGapChosen, TakeChosen
<1>3. V({}) = 0
    BY TotalGapChosen, FS_EmptySet
<1>4. \A i \in S : G(i) \in Int
    OBVIOUS
<1>. HIDE DEF V, G
<1>5. 0 \in Good
    <2>1. \A s \in SUBSET S : Cardinality(s) <= 0 => s = {}
        BY <1>1, FS_EmptySet
    <2>2. Ok({})
        BY <1>3
    <2>. HIDE DEF Ok
    <2>. QED
        BY <2>1, <2>2
<1>6. ASSUME NEW n \in Good PROVE n + 1 \in Good
    <2>. SUFFICES ASSUME NEW s \in SUBSET S, Cardinality(s) = n + 1
                  PROVE  Ok(s)
        <3>1. \A s \in SUBSET S : Cardinality(s) <= n + 1 <=>
                Cardinality(s) <= n \/ Cardinality(s) = n + 1
            BY <1>1
        <3>. HIDE DEF Ok
        <3>. QED
            BY <3>1
    <2>. DEFINE c == Chosen(s)
    <2>0. n \in Nat
        OBVIOUS
    <2>1. s # {} /\ c \in s
        BY <1>1, FS_EmptySet, TakeChosen
    <2>2. ASSUME NEW i \in s PROVE s \ {i} \in SUBSET S /\ Ok(s \ {i})
        <3>1. s \ {i} \in SUBSET S /\ Cardinality(s \ {i}) <= n
            BY <1>1, <2>0, FS_RemoveElement
        <3>. HIDE DEF Ok
        <3>. QED
            BY <3>1
    <2>3. V(s) = G(c) + V(s \ {c})
        BY <1>2, <2>1
    <2>4. V(s \ {c}) \in Int /\ G(c) \in Int
        BY <1>4, <2>1, <2>2
    <2>. HIDE DEF c
    <2>5. ASSUME NEW i \in s, i # c PROVE V(s) = G(i) + V(s \ {i})
        <3>1. V(s \ {c}) = G(i) + V((s \ {c}) \ {i})
            BY <2>1, <2>2, <2>5
        <3>2. V(s \ {i}) = G(c) + V((s \ {i}) \ {c})
            BY <2>1, <2>2, <2>5
        <3>3. (s \ {c}) \ {i} = (s \ {i}) \ {c}
            OBVIOUS
        <3>4. V((s \ {c}) \ {i}) \in Int
            <4>1. /\ (s \ {c}) \ {i} \in SUBSET S
                  /\ Cardinality((s \ {c}) \ {i}) <= Cardinality(s \ {c})
                BY <1>1, FS_Subset
            <4>2. IsFiniteSet(s) /\ Cardinality(s \ {c}) = Cardinality(s) - 1
                BY <1>1, <2>1, FS_RemoveElement
            <4>3. Cardinality((s \ {c}) \ {i}) <= n
                BY <1>1, <2>0, <4>1, <4>2
            <4>4. Ok((s \ {c}) \ {i})
                <5>. HIDE DEF Ok
                <5>. QED
                    BY <4>1, <4>3
            <4>. QED
                BY <4>4
        <3>5. G(i) \in Int
            BY <1>4
        <3>6. V(s) = G(c) + (G(i) + V((s \ {c}) \ {i}))
            BY <2>3, <3>1
        <3>7. G(i) + V(s \ {i}) = G(i) + (G(c) + V((s \ {c}) \ {i}))
            BY <3>2, <3>3
        <3>. QED
            BY <2>4, <3>4, <3>5, <3>6, <3>7
    <2>. QED
        BY <2>3, <2>4, <2>5
<1>7. Cardinality(S) \in Good
    <2>. HIDE DEF Good
    <2>1. Good \in SUBSET Nat
        BY DEF Good
    <2>. QED
        BY <1>1, <1>5, <1>6, <2>1, SetInduction
<1>8. Ok(S)
    BY <1>7
<1>. QED
    BY <1>8 DEF V, G

(* An event that is added adds its gap.                                    *)
LEMMA TotalGapAdd ==
    ASSUME NEW h, NEW S, IsFiniteSet(S), NEW i, i \notin S,
           \A j \in S \cup {i} : Gap(h, j) \in Int
    PROVE  TotalGap(h, S \cup {i}) = TotalGap(h, S) + Gap(h, i)
<1>1. IsFiniteSet(S \cup {i}) /\ (S \cup {i}) \ {i} = S
    BY FS_AddElement
<1>2. TotalGap(h, S \cup {i}) = Gap(h, i) + TotalGap(h, S)
    BY <1>1, TotalGapRemove
<1>3. TotalGap(h, S) \in Int /\ Gap(h, i) \in Int
    BY TotalGapRemove
<1>. QED
    BY <1>2, <1>3

-----------------------------------------------------------------------------
(* The two totals of Summarize, up to event k.                             *)
RecoveredUpTo(h, k) == {i \in 3..k : h[i].Up}
InterruptedUpTo(h, k) == {i \in 3..k : ~h[i].Up}

(* Time stamps are natural numbers; a gap may be negative.                 *)
LEMMA GapType ==
    ASSUME NEW h \in Seq(UpEvent)
    PROVE  /\ Len(h) \in Nat
           /\ \A i \in 1..Len(h) : h[i] \in UpEvent /\ h[i].Timestamp \in Nat /\ h[i].Up \in BOOLEAN
           /\ \A i \in 2..Len(h) : Gap(h, i) \in Int
<1>1. Len(h) \in Nat /\ \A i \in 1..Len(h) : h[i] \in UpEvent
    OBVIOUS
<1>2. \A i \in 1..Len(h) : h[i].Timestamp \in Nat /\ h[i].Up \in BOOLEAN
    BY <1>1 DEF UpEvent
<1>3. \A i \in 2..Len(h) : i - 1 \in 1..Len(h) /\ i \in 1..Len(h)
    BY <1>1
<1>. QED
    BY <1>1, <1>2, <1>3 DEF Gap

(* Going on by one event adds its gap to one of the totals.                *)
LEMMA TotalsStep ==
    ASSUME NEW h \in Seq(UpEvent), NEW k \in 2..(Len(h) - 1)
    PROVE  /\ TotalGap(h, RecoveredUpTo(h, k)) \in Int
           /\ TotalGap(h, InterruptedUpTo(h, k)) \in Int
           /\ TotalGap(h, RecoveredUpTo(h, k + 1)) =
                TotalGap(h, RecoveredUpTo(h, k)) + (IF h[k+1].Up THEN Gap(h, k + 1) ELSE 0)
           /\ TotalGap(h, InterruptedUpTo(h, k + 1)) =
                TotalGap(h, InterruptedUpTo(h, k)) + (IF h[k+1].Up THEN 0 ELSE Gap(h, k + 1))
<1>. DEFINE R == RecoveredUpTo(h, k)
            I == InterruptedUpTo(h, k)
<1>1. Len(h) \in Nat /\ k \in Nat /\ k + 1 \in 3..Len(h)
    BY GapType
<1>2. /\ R \subseteq 3..k /\ I \subseteq 3..k /\ k + 1 \notin 3..k
      /\ \A i \in (3..k) \cup {k + 1} : Gap(h, i) \in Int
    BY <1>1, GapType DEF RecoveredUpTo, InterruptedUpTo
<1>3. IsFiniteSet(3..k)
    BY <1>1, FS_Interval
<1>4. IsFiniteSet(R) /\ IsFiniteSet(I)
    BY <1>2, <1>3, FS_Subset
<1>5. /\ RecoveredUpTo(h, k + 1) = IF h[k+1].Up THEN R \cup {k + 1} ELSE R
      /\ InterruptedUpTo(h, k + 1) = IF h[k+1].Up THEN I ELSE I \cup {k + 1}
    BY <1>1 DEF RecoveredUpTo, InterruptedUpTo
<1>. HIDE DEF R, I
<1>6. /\ TotalGap(h, R) \in Int /\ TotalGap(h, I) \in Int
      /\ TotalGap(h, R \cup {k + 1}) = TotalGap(h, R) + Gap(h, k + 1)
      /\ TotalGap(h, I \cup {k + 1}) = TotalGap(h, I) + Gap(h, k + 1)
    BY <1>2, <1>4, TotalGapRemove, TotalGapAdd
<1>7. TotalGap(h, R) + 0 = TotalGap(h, R) /\ TotalGap(h, I) + 0 = TotalGap(h, I)
    BY <1>6
<1>8. /\ TotalGap(h, RecoveredUpTo(h, k + 1)) =
           TotalGap(h, R) + (IF h[k+1].Up THEN Gap(h, k + 1) ELSE 0)
      /\ TotalGap(h, InterruptedUpTo(h, k + 1)) =
           TotalGap(h, I) + (IF h[k+1].Up THEN 0 ELSE Gap(h, k + 1))
    <2>1. CASE h[k+1].Up
        BY <1>5, <1>6, <1>7, <2>1, Zenon
    <2>2. CASE ~h[k+1].Up
        BY <1>5, <1>6, <1>7, <2>2, Zenon
    <2>. QED
        BY <2>1, <2>2
<1>. QED
    BY <1>6, <1>8 DEF R, I

(* Together the totals are the time between the second event and event k.  *)
LEMMA TotalsTelescope ==
    ASSUME NEW h \in Seq(UpEvent), NEW k \in 2..Len(h)
    PROVE  /\ TotalGap(h, RecoveredUpTo(h, k)) \in Int
           /\ TotalGap(h, InterruptedUpTo(h, k)) \in Int
           /\ TotalGap(h, RecoveredUpTo(h, k)) + TotalGap(h, InterruptedUpTo(h, k))
                = h[k].Timestamp - h[2].Timestamp
<1>. DEFINE R(j) == TotalGap(h, RecoveredUpTo(h, j))
            I(j) == TotalGap(h, InterruptedUpTo(h, j))
            Ok(j) == R(j) \in Int /\ I(j) \in Int
                       /\ R(j) + I(j) = h[j].Timestamp - h[2].Timestamp
            Good == {n \in Nat : n + 2 <= Len(h) => Ok(n + 2)}
<1>1. Len(h) \in Nat /\ \A i \in 1..Len(h) : h[i].Timestamp \in Nat
    BY GapType
<1>2. 0 \in Good
    <2>1. RecoveredUpTo(h, 2) = {} /\ InterruptedUpTo(h, 2) = {}
        BY DEF RecoveredUpTo, InterruptedUpTo
    <2>2. TotalGap(h, {}) = 0
        BY TotalGapChosen, FS_EmptySet
    <2>3. 2 <= Len(h) => h[2].Timestamp \in Nat
        BY <1>1
    <2>4. R(2) = 0 /\ I(2) = 0
        BY <2>1, <2>2
    <2>5. 2 <= Len(h) => Ok(2)
        <3>. HIDE DEF R, I
        <3>. QED
            BY <2>3, <2>4
    <2>. HIDE DEF Ok
    <2>. QED
        BY <2>5
<1>3. ASSUME NEW n \in Good PROVE n + 1 \in Good
    <2>. DEFINE j == n + 2
    <2>. SUFFICES ASSUME j + 1 <= Len(h) PROVE Ok(j + 1)
        <3>. HIDE DEF Ok
        <3>1. n \in Nat /\ (n + 1) + 2 = j + 1
            OBVIOUS
        <3>. QED
            BY <3>1
    <2>1. n \in Nat /\ j \in 2..(Len(h) - 1)
        BY <1>1
    <2>2. Ok(j)
        <3>. HIDE DEF Ok
        <3>. QED
            BY <1>1, <2>1
    <2>. HIDE DEF j
    <2>3. /\ R(j + 1) = R(j) + (IF h[j+1].Up THEN Gap(h, j + 1) ELSE 0)
          /\ I(j + 1) = I(j) + (IF h[j+1].Up THEN 0 ELSE Gap(h, j + 1))
        BY <2>1, TotalsStep
    <2>4. /\ Gap(h, j + 1) = h[j+1].Timestamp - h[j].Timestamp
          /\ h[j+1].Timestamp \in Nat /\ h[j].Timestamp \in Nat /\ h[2].Timestamp \in Nat
        BY <1>1, <2>1 DEF Gap
    <2>. HIDE DEF R, I, Good
    <2>. DEFINE r == R(j)
                i == I(j)
                a == h[2].Timestamp
                b == h[j].Timestamp
                c == h[j+1].Timestamp
    <2>5. r \in Int /\ i \in Int /\ r + i = b - a
        BY <2>2, Zenon DEF r, i, a, b
    <2>6. CASE h[j+1].Up
        <3>1. R(j + 1) = r + (c - b) /\ I(j + 1) = i + 0
            BY <2>3, <2>4, <2>6, Zenon
        <3>. HIDE DEF r, i, a, b, c, Ok
        <3>2. r + (c - b) \in Int /\ i + 0 \in Int /\ (r + (c - b)) + (i + 0) = c - a
            <4>1. a \in Nat /\ b \in Nat /\ c \in Nat
                BY <2>4 DEF a, b, c
            <4>. QED
                BY <2>5, <4>1
        <3>. QED
            BY <3>1, <3>2, Zenon DEF Ok, a, c
    <2>7. CASE ~h[j+1].Up
        <3>1. R(j + 1) = r + 0 /\ I(j + 1) = i + (c - b)
            BY <2>3, <2>4, <2>7, Zenon
        <3>. HIDE DEF r, i, a, b, c, Ok
        <3>2. r + 0 \in Int /\ i + (c - b) \in Int /\ (r + 0) + (i + (c - b)) = c - a
            <4>1. a \in Nat /\ b \in Nat /\ c \in Nat
                BY <2>4 DEF a, b, c
            <4>. QED
                BY <2>5, <4>1
        <3>. QED
            BY <3>1, <3>2, Zenon DEF Ok, a, c
    <2>. QED
        BY <2>6, <2>7
<1>4. \A n \in Nat : n \in Good
    <2>. HIDE DEF Good
    <2>1. Good \in SUBSET Nat
        BY DEF Good
    <2>. QED
        BY <1>2, <1>3, <2>1, SetInduction
<1>5. k - 2 \in Nat /\ (k - 2) + 2 = k /\ k <= Len(h)
    BY <1>1
<1>6. Ok(k)
    <2>. HIDE DEF Ok
    <2>. QED
        BY <1>4, <1>5
<1>. QED
    BY <1>6

-----------------------------------------------------------------------------
(* The time a resource was up, instant by instant.                         *)

Ordered(h) == \A i, j \in 1..Len(h) : i <= j => h[i].Timestamp <= h[j].Timestamp

Alternates(h) == \A i \in 2..Len(h) : h[i].Up # h[i-1].Up

InForceOf(h, t) == Max({i \in 1..Len(h) : h[i].Timestamp <= t})

(* The instants before t at which history h says that the resource was up. *)
UpBefore(h, t) == {u \in h[1].Timestamp..(t - 1) : h[InForceOf(h, u)].Up}

(* From event k to the next one, event k is in force.                      *)
LEMMA InForceIs ==
    ASSUME NEW h \in Seq(UpEvent), Ordered(h), NEW k \in 1..Len(h), NEW t \in Int,
           h[k].Timestamp <= t, k = Len(h) \/ t < h[k+1].Timestamp
    PROVE  InForceOf(h, t) = k
<1>. DEFINE S == {i \in 1..Len(h) : h[i].Timestamp <= t}
<1>1. Len(h) \in Nat /\ \A i \in 1..Len(h) : h[i].Timestamp \in Nat
    BY GapType
<1>2. ASSUME NEW i \in S PROVE i <= k
    <2>. SUFFICES ASSUME k < i PROVE FALSE
        BY <1>1
    <2>1. k # Len(h) /\ k + 1 \in 1..Len(h) /\ k + 1 <= i
        BY <1>1
    <2>2. h[k+1].Timestamp <= h[i].Timestamp /\ t < h[k+1].Timestamp
        BY <2>1 DEF Ordered
    <2>3. h[k+1].Timestamp \in Nat /\ h[i].Timestamp \in Nat /\ h[i].Timestamp <= t
        BY <1>1, <2>1
    <2>. QED
        BY <2>2, <2>3
<1>3. k \in S /\ S \subseteq Nat
    BY <1>1
<1>. HIDE DEF S
<1>4. k \in S /\ \A y \in S : k >= y
    BY <1>2, <1>3
<1>5. \A x \in S : (\A y \in S : x >= y) => x = k
    BY <1>2, <1>3
<1>6. Max(S) = k
    BY <1>4, <1>5 DEF Max
<1>. QED
    BY <1>6 DEF InForceOf, S

(* An interval of time has as many instants as its ends are apart.         *)
LEMMA IntervalSize ==
    ASSUME NEW a \in Int, NEW b \in Int, a <= b
    PROVE  IsFiniteSet(a..(b - 1)) /\ Cardinality(a..(b - 1)) = b - a
<1>. DEFINE c == b - 1
<1>1. c \in Int /\ (IF a > c THEN 0 ELSE c - a + 1) = b - a
    OBVIOUS
<1>. HIDE DEF c
<1>2. IsFiniteSet(a..c) /\ Cardinality(a..c) = b - a
    BY <1>1, FS_Interval
<1>. QED
    BY <1>2 DEF c

(* Instants of two disjoint sets add up.                                   *)
LEMMA DisjointSize ==
    ASSUME NEW S, IsFiniteSet(S), NEW T, IsFiniteSet(T), S \cap T = {}
    PROVE  /\ IsFiniteSet(S \cup T)
           /\ Cardinality(S \cup T) = Cardinality(S) + Cardinality(T)
<1>1. /\ IsFiniteSet(S \cup T)
      /\ Cardinality(S \cup T) = Cardinality(S) + Cardinality(T) - Cardinality(S \cap T)
    BY FS_Union
<1>2. Cardinality(S \cap T) = 0
    BY FS_EmptySet
<1>3. Cardinality(S) \in Nat /\ Cardinality(T) \in Nat
    BY FS_CardinalityType
<1>. QED
    BY <1>1, <1>2, <1>3

(* While event k is in force, every instant counts if the event is up.     *)
LEMMA UpBeforeStep ==
    ASSUME NEW h \in Seq(UpEvent), Ordered(h), NEW k \in 1..Len(h), NEW t \in Nat,
           h[k].Timestamp <= t, k = Len(h) \/ t <= h[k+1].Timestamp
    PROVE  /\ IsFiniteSet(UpBefore(h, t)) /\ Cardinality(UpBefore(h, t)) \in Nat
           /\ Cardinality(UpBefore(h, h[k].Timestamp)) \in Nat
           /\ Cardinality(UpBefore(h, t)) =
                Cardinality(UpBefore(h, h[k].Timestamp))
                  + (IF h[k].Up THEN t - h[k].Timestamp ELSE 0)
<1>. DEFINE a == h[1].Timestamp
            b == h[k].Timestamp
            A == UpBefore(h, b)
            B == b..(t - 1)
<1>1. /\ Len(h) \in Nat /\ a \in Nat /\ b \in Nat /\ a <= b
      /\ k + 1 \in 1..Len(h) \/ k = Len(h)
      /\ b <= t /\ b - 1 \in Int /\ t - 1 \in Int
    <2>1. Len(h) \in Nat /\ \A i \in 1..Len(h) : h[i].Timestamp \in Nat
        BY GapType
    <2>2. 1 \in 1..Len(h) /\ 1 <= k /\ (k + 1 \in 1..Len(h) \/ k = Len(h))
        BY <2>1
    <2>3. a \in Nat /\ b \in Nat /\ a <= b
        BY <2>1, <2>2, Zenon DEF Ordered
    <2>. QED
        BY <2>1, <2>2, <2>3
<1>2. \A u \in B : InForceOf(h, u) = k
    <2>. SUFFICES ASSUME NEW u \in B PROVE InForceOf(h, u) = k
        OBVIOUS
    <2>1. u \in Int /\ b <= u /\ u < t
        BY <1>1
    <2>2. k = Len(h) \/ u < h[k+1].Timestamp
        BY <1>1, <2>1, GapType
    <2>. QED
        BY <2>1, <2>2, InForceIs
<1>. HIDE DEF a, b
<1>3. a..(t - 1) = (a..(b - 1)) \cup B /\ (a..(b - 1)) \cap B = {}
    BY <1>1 DEF b
<1>4. A = {u \in a..(b - 1) : h[InForceOf(h, u)].Up}
    BY DEF UpBefore, a
<1>5. UpBefore(h, t) = {u \in a..(t - 1) : h[InForceOf(h, u)].Up}
    BY DEF UpBefore, a
<1>6. UpBefore(h, t) = IF h[k].Up THEN A \cup B ELSE A
    BY <1>2, <1>3, <1>4, <1>5
<1>7. IsFiniteSet(A) /\ Cardinality(A) \in Nat /\ A \cap B = {}
    <2>1. IsFiniteSet(a..(b - 1))
        BY <1>1, FS_Interval
    <2>2. A \subseteq a..(b - 1)
        BY <1>4
    <2>. QED
        BY <1>3, <2>1, <2>2, FS_Subset, FS_CardinalityType
<1>8. IsFiniteSet(B) /\ Cardinality(B) = t - b
    BY <1>1, IntervalSize
<1>. HIDE DEF A, B
<1>9. IsFiniteSet(A \cup B) /\ Cardinality(A \cup B) = Cardinality(A) + (t - b)
    BY <1>7, <1>8, DisjointSize
<1>10. t - b \in Nat /\ Cardinality(A) + 0 = Cardinality(A)
    BY <1>1, <1>7 DEF b
<1>11. /\ IsFiniteSet(UpBefore(h, t)) /\ Cardinality(UpBefore(h, t)) \in Nat
       /\ Cardinality(UpBefore(h, t)) = Cardinality(A) + (IF h[k].Up THEN t - b ELSE 0)
    <2>1. CASE h[k].Up
        BY <1>6, <1>7, <1>9, <1>10, <2>1
    <2>2. CASE ~h[k].Up
        BY <1>6, <1>7, <1>10, <2>2
    <2>. QED
        BY <2>1, <2>2
<1>. QED
    BY <1>7, <1>11 DEF A, b

(* If the history alternates, the up total is the time it was up.          *)
LEMMA UpTotalExact ==
    ASSUME NEW h \in Seq(UpEvent), Ordered(h), Alternates(h), ~h[1].Up, NEW k \in 2..Len(h)
    PROVE  TotalGap(h, InterruptedUpTo(h, k)) = Cardinality(UpBefore(h, h[k].Timestamp))
<1>. DEFINE I(j) == TotalGap(h, InterruptedUpTo(h, j))
            C(j) == Cardinality(UpBefore(h, h[j].Timestamp))
            Good == {n \in Nat : n + 2 <= Len(h) => I(n + 2) = C(n + 2)}
<1>1. /\ Len(h) \in Nat
      /\ \A i \in 1..Len(h) : h[i].Timestamp \in Nat /\ h[i].Up \in BOOLEAN
    BY GapType
<1>2. ASSUME NEW j \in 1..(Len(h) - 1)
      PROVE  /\ C(j) \in Nat
             /\ C(j + 1) = C(j) + (IF h[j].Up THEN Gap(h, j + 1) ELSE 0)
    <2>1. /\ j \in 1..Len(h) /\ j + 1 \in 1..Len(h) /\ j <= j + 1 /\ (j + 1) - 1 = j
          /\ h[j+1].Timestamp \in Nat
        BY <1>1
    <2>2. h[j].Timestamp <= h[j+1].Timestamp
        BY <2>1 DEF Ordered
    <2>3. Gap(h, j + 1) = h[j+1].Timestamp - h[j].Timestamp
        BY <2>1 DEF Gap
    <2>4. h[j+1].Timestamp <= h[j+1].Timestamp
        BY <2>1
    <2>. QED
        BY <2>1, <2>2, <2>3, <2>4, UpBeforeStep
<1>3. 0 \in Good
    <2>. SUFFICES ASSUME 2 <= Len(h) PROVE I(2) = C(2)
        BY DEF Good
    <2>1. InterruptedUpTo(h, 2) = {}
        BY DEF InterruptedUpTo
    <2>2. I(2) = 0
        BY <2>1, TotalGapChosen, FS_EmptySet
    <2>3. UpBefore(h, h[1].Timestamp) = {}
        BY <1>1 DEF UpBefore
    <2>4. C(1) = 0
        BY <2>3, FS_EmptySet
    <2>5. 1 \in 1..(Len(h) - 1)
        BY <1>1
    <2>. HIDE DEF C, I
    <2>6. C(1 + 1) = C(1) + 0
        BY <1>2, <2>5
    <2>. QED
        BY <2>2, <2>4, <2>6
<1>4. ASSUME NEW n \in Good PROVE n + 1 \in Good
    <2>. DEFINE j == n + 2
    <2>. SUFFICES ASSUME j + 1 <= Len(h) PROVE I(j + 1) = C(j + 1)
        <3>. HIDE DEF I, C
        <3>1. n \in Nat /\ (n + 1) + 2 = j + 1
            OBVIOUS
        <3>. QED
            BY <3>1
    <2>1. /\ n \in Nat /\ j \in 2..(Len(h) - 1) /\ j \in 1..(Len(h) - 1)
          /\ j + 1 \in 2..Len(h) /\ (j + 1) - 1 = j
          /\ j \in 1..Len(h) /\ j + 1 \in 1..Len(h)
        BY <1>1
    <2>2. I(j) = C(j)
        <3>. HIDE DEF I, C
        <3>. QED
            BY <1>1, <2>1
    <2>. HIDE DEF j
    <2>3. I(j + 1) = I(j) + (IF h[j+1].Up THEN 0 ELSE Gap(h, j + 1))
        BY <2>1, TotalsStep
    <2>4. C(j + 1) = C(j) + (IF h[j].Up THEN Gap(h, j + 1) ELSE 0)
        BY <1>2, <2>1
    <2>5. h[j+1].Up = ~h[j].Up
        <3>1. h[j+1].Up # h[j].Up
            BY <2>1 DEF Alternates
        <3>. QED
            BY <1>1, <2>1, <3>1
    <2>. HIDE DEF I, C, Good
    <2>. QED
        BY <2>2, <2>3, <2>4, <2>5
<1>5. \A n \in Nat : n \in Good
    <2>. HIDE DEF Good
    <2>1. Good \in SUBSET Nat
        BY DEF Good
    <2>. QED
        BY <1>3, <1>4, <2>1, SetInduction
<1>6. k - 2 \in Nat /\ (k - 2) + 2 = k /\ k <= Len(h)
    BY <1>1
<1>7. I(k) = C(k)
    <2>. HIDE DEF I, C
    <2>. QED
        BY <1>5, <1>6
<1>. QED
    BY <1>7

-----------------------------------------------------------------------------
(* Which of its branches Summarize takes.                                  *)

Provisioned(h) == Len(h) > 1 /\ ~h[1].Up /\ h[2].Up

ProvisioningFailed(h) == Len(h) > 1 /\ ~h[1].Up /\ ~h[2].Up /\ h[2].Failed

(* The second event says that provisioning succeeded.                      *)
LEMMA SummaryOfProvisioned ==
    ASSUME NEW h \in Seq(UpEvent), NEW now, Provisioned(h)
    PROVE  LET s == Summarize(h, now) IN
           /\ s.ProvisioningState = "success" /\ s.ProvisioningDuration = Gap(h, 2)
           /\ s.InterruptionCount =
                Cardinality({i \in {j \in 3..Len(h) : ~h[j].Up} : ~h[i].ExpectedDown})
           /\ s.RecoveryCount =
                Cardinality({i \in {j \in 3..Len(h) : h[j].Up} : ~h[i-1].ExpectedDown})
<1>1. Len(h) # 0 /\ Len(h) # 1
    BY DEF Provisioned
<1>2. Summarize(h, now) = SummarizeProvisioned(h, now)
    BY <1>1 DEF Provisioned, Summarize
<1>. QED
    BY <1>2 DEF SummarizeProvisioned

(* The second event says that it failed.                                   *)
LEMMA SummaryOfFailed ==
    ASSUME NEW h \in Seq(UpEvent), NEW now, ProvisioningFailed(h)
    PROVE  LET s == Summarize(h, now) IN
           /\ s.ProvisioningState = "failed" /\ s.ProvisioningDuration = Gap(h, 2)
           /\ s.InterruptionCount = 0 /\ s.RecoveryCount = 0
<1>1. Len(h) # 0 /\ Len(h) # 1
    BY DEF ProvisioningFailed
<1>2. Summarize(h, now) = FailedSummary(h, now)
    BY <1>1 DEF ProvisioningFailed, Summarize
<1>. QED
    BY <1>2 DEF FailedSummary, ZeroSummary

(* Neither: nothing is counted.                                            *)
LEMMA SummaryOfOthers ==
    ASSUME NEW h \in Seq(UpEvent), NEW now, ~Provisioned(h), ~ProvisioningFailed(h)
    PROVE  LET s == Summarize(h, now) IN
           /\ s.ProvisioningState \in {"none", "provisioning"}
           /\ s.InterruptionCount = 0 /\ s.RecoveryCount = 0
<1>1. CASE Len(h) = 0 \/ h[1].Up
    <2>1. Summarize(h, now) = ZeroSummary
        BY <1>1 DEF Summarize
    <2>. QED
        BY <2>1 DEF ZeroSummary
<1>2. CASE Len(h) = 1 /\ ~h[1].Up
    <2>1. Summarize(h, now) =
            [ZeroSummary EXCEPT !.DownTime = now - h[1].Timestamp,
                                !.ProvisioningDuration = now - h[1].Timestamp,
                                !.ProvisioningState = "provisioning"]
        BY <1>2 DEF Summarize
    <2>. QED
        BY <2>1 DEF ZeroSummary
<1>3. CASE Len(h) > 1 /\ ~h[1].Up
    <2>1. Summarize(h, now) = ZeroSummary
        BY <1>3 DEF Summarize, Provisioned, ProvisioningFailed
    <2>. QED
        BY <2>1 DEF ZeroSummary
<1>4. Len(h) \in Nat
    OBVIOUS
<1>5. Len(h) = 0 \/ Len(h) = 1 \/ Len(h) > 1
    BY <1>4
<1>. QED
    BY <1>1, <1>2, <1>3, <1>5, Zenon

-----------------------------------------------------------------------------
(* How a history changes.                                                  *)

(* Every history starts with a down event.                                 *)
StartsDown == history # << >> => ~history[1].Up

(* A step only adds events at the end.                                     *)
LEMMA HistoryStep ==
    ASSUME TypeOK, [Next]_vars
    PROVE  /\ TypeOK'
           /\ Len(history') >= Len(history)
           /\ \A j \in 1..Len(history) : history'[j] = history[j]
<1>1. CASE UNCHANGED history
    <2>1. clock' \in Nat
        BY DEF TypeOK, Next, Tick, Observe, vars
    <2>. QED
        BY <1>1, <2>1 DEF TypeOK
<1>2. ASSUME NEW up \in Observed, Observe(up)
      PROVE  /\ TypeOK'
             /\ Len(history') >= Len(history)
             /\ \A j \in 1..Len(history) : history'[j] = history[j]
    <2>1. EventOf(up, clock) \in UpEvent
        BY EventOfType, HistoryAssumption DEF TypeOK
    <2>2. /\ history' \in Seq(UpEvent) /\ Len(history') >= Len(history)
          /\ \A j \in 1..Len(history) : history'[j] = history[j]
        BY <1>2, <2>1, AppendUpEventExtends DEF Observe, TypeOK
    <2>. QED
        BY <1>2, <2>2 DEF Observe, TypeOK
<1>. QED
    BY <1>1, <1>2 DEF Next, Tick, vars

(* Every state is well typed.                                              *)
THEOREM HistoryTypeCorrect == Spec => []TypeOK
<1>1. Init => TypeOK
    BY DEF Init, TypeOK
<1>2. TypeOK /\ [Next]_vars => TypeOK'
    BY HistoryStep
<1>. QED
    BY <1>1, <1>2, PTL DEF Spec

(* The branch of Summarize, once taken, is taken for ever.                 *)
LEMMA OutcomeStep ==
    ASSUME TypeOK, [Next]_vars
    PROVE  /\ Provisioned(history) => /\ Provisioned(history')
                                      /\ Gap(history', 2) = Gap(history, 2)
           /\ ProvisioningFailed(history) => /\ ProvisioningFailed(history')
                                             /\ Gap(history', 2) = Gap(history, 2)
<1>. SUFFICES ASSUME Len(history) > 1
              PROVE  /\ history'[1] = history[1] /\ history'[2] = history[2]
                     /\ Len(history') > 1
    BY DEF Provisioned, ProvisioningFailed, Gap
<1>1. Len(history) \in Nat /\ Len(history') \in Nat
    BY HistoryStep DEF TypeOK
<1>. QED
    BY <1>1, HistoryStep

(* The outcome of provisioning is final, however the resource fares and    *)
(* however often it is observed later.                                     *)
THEOREM OutcomeStaysFinal == Spec => ProvisioningOutcomeFinal
<1>1. TypeOK /\ [Next]_vars =>
        [summary.ProvisioningState \in {"success", "failed"} =>
           /\ summary'.ProvisioningState = summary.ProvisioningState
           /\ summary'.ProvisioningDuration = summary.ProvisioningDuration]_vars
    <2>. SUFFICES ASSUME TypeOK, [Next]_vars,
                         summary.ProvisioningState \in {"success", "failed"}
                  PROVE  /\ summary'.ProvisioningState = summary.ProvisioningState
                         /\ summary'.ProvisioningDuration = summary.ProvisioningDuration
        OBVIOUS
    <2>1. history \in Seq(UpEvent) /\ history' \in Seq(UpEvent)
        BY HistoryStep DEF TypeOK
    <2>2. CASE Provisioned(history)
        <3>1. Provisioned(history') /\ Gap(history', 2) = Gap(history, 2)
            BY <2>2, OutcomeStep
        <3>2. /\ summary.ProvisioningState = "success"
              /\ summary.ProvisioningDuration = Gap(history, 2)
            BY <2>1, <2>2, SummaryOfProvisioned DEF summary
        <3>3. /\ summary'.ProvisioningState = "success"
              /\ summary'.ProvisioningDuration = Gap(history', 2)
            BY <2>1, <3>1, SummaryOfProvisioned DEF summary
        <3>. QED
            BY <3>1, <3>2, <3>3
    <2>3. CASE ProvisioningFailed(history)
        <3>1. ProvisioningFailed(history') /\ Gap(history', 2) = Gap(history, 2)
            BY <2>3, OutcomeStep
        <3>2. /\ summary.ProvisioningState = "failed"
              /\ summary.ProvisioningDuration = Gap(history, 2)
            BY <2>1, <2>3, SummaryOfFailed DEF summary
        <3>3. /\ summary'.ProvisioningState = "failed"
              /\ summary'.ProvisioningDuration = Gap(history', 2)
            BY <2>1, <3>1, SummaryOfFailed DEF summary
        <3>. QED
            BY <3>1, <3>2, <3>3
    <2>4. CASE ~Provisioned(history) /\ ~ProvisioningFailed(history)
        <3>1. summary.ProvisioningState \in {"none", "provisioning"}
            BY <2>1, <2>4, SummaryOfOthers DEF summary
        <3>. QED
            BY <3>1
    <2>. QED
        BY <2>2, <2>3, <2>4
<1>. QED
    BY <1>1, HistoryTypeCorrect, PTL DEF Spec, ProvisioningOutcomeFinal

-----------------------------------------------------------------------------
(* The counts.                                                             *)

(* Events of a history are finitely many.                                  *)
LEMMA EventsFinite ==
    ASSUME NEW h \in Seq(UpEvent), NEW T, T \subseteq 3..Len(h)
    PROVE  IsFiniteSet(T) /\ Cardinality(T) \in Nat
<1>1. IsFiniteSet(3..Len(h))
    BY FS_Interval
<1>. QED
    BY <1>1, FS_Subset, FS_CardinalityType

(* A step never takes back an interruption or a recovery.                  *)
LEMMA CountsStep ==
    ASSUME TypeOK, [Next]_vars
    PROVE  /\ summary'.InterruptionCount >= summary.InterruptionCount
           /\ summary'.RecoveryCount >= summary.RecoveryCount
<1>. DEFINE I(h) == {i \in {j \in 3..Len(h) : ~h[j].Up} : ~h[i].ExpectedDown}
            R(h) == {i \in {j \in 3..Len(h) : h[j].Up} : ~h[i-1].ExpectedDown}
<1>1. /\ history \in Seq(UpEvent) /\ history' \in Seq(UpEvent)
      /\ Len(history') >= Len(history)
      /\ \A j \in 1..Len(history) : history'[j] = history[j]
    BY HistoryStep DEF TypeOK
<1>2. /\ Len(history) \in Nat /\ Len(history') \in Nat
      /\ I(history) \subseteq 3..Len(history) /\ I(history') \subseteq 3..Len(history')
      /\ R(history) \subseteq 3..Len(history) /\ R(history') \subseteq 3..Len(history')
    BY <1>1
<1>3. /\ IsFiniteSet(I(history')) /\ Cardinality(I(history')) \in Nat
      /\ IsFiniteSet(R(history')) /\ Cardinality(R(history')) \in Nat
    BY <1>1, <1>2, EventsFinite
<1>4. I(history) \subseteq I(history') /\ R(history) \subseteq R(history')
    <2>1. ASSUME NEW i \in 3..Len(history)
          PROVE  /\ i \in 3..Len(history')
                 /\ history'[i] = history[i] /\ history'[i-1] = history[i-1]
        BY <1>1, <1>2
    <2>. QED
        BY <2>1
<1>5. /\ Provisioned(history) => /\ summary.InterruptionCount = Cardinality(I(history))
                                 /\ summary.RecoveryCount = Cardinality(R(history))
      /\ Provisioned(history') => /\ summary'.InterruptionCount = Cardinality(I(history'))
                                  /\ summary'.RecoveryCount = Cardinality(R(history'))
    BY <1>1, SummaryOfProvisioned DEF summary
<1>6. /\ ~Provisioned(history) => summary.InterruptionCount = 0 /\ summary.RecoveryCount = 0
      /\ ~Provisioned(history') => summary'.InterruptionCount = 0 /\ summary'.RecoveryCount = 0
    BY <1>1, SummaryOfFailed, SummaryOfOthers DEF summary
<1>. HIDE DEF I, R
<1>7. CASE Provisioned(history)
    <2>1. Provisioned(history')
        BY <1>7, OutcomeStep
    <2>2. /\ Cardinality(I(history)) <= Cardinality(I(history'))
          /\ Cardinality(R(history)) <= Cardinality(R(history'))
        BY <1>3, <1>4, FS_Subset
    <2>3. Cardinality(I(history)) \in Nat /\ Cardinality(R(history)) \in Nat
        BY <1>1, <1>2, EventsFinite
    <2>. QED
        BY <1>3, <1>5, <1>7, <2>1, <2>2, <2>3
<1>8. CASE ~Provisioned(history)
    BY <1>3, <1>5, <1>6, <1>8
<1>. QED
    BY <1>7, <1>8

(* On a history that alternates the counts are those of the unexpected     *)
(* downtimes, and of those that are over.                                  *)
LEMMA CountsExact ==
    ASSUME TypeOK, StartsDown, history # << >>, Alternating
    PROVE  /\ summary.InterruptionCount = Cardinality(Interruptions)
           /\ summary.RecoveryCount = Cardinality(Recoveries)
<1>1. history \in Seq(UpEvent) /\ Len(history) \in Nat /\ ~history[1].Up
    BY DEF TypeOK, StartsDown
<1>2. \A i \in 1..Len(history) : history[i].Up \in BOOLEAN
    <2>1. \A i \in 1..Len(history) : history[i] \in UpEvent
        BY <1>1
    <2>. QED
        BY <2>1 DEF UpEvent
<1>3. CASE Len(history) > 1
    <2>1. history[2].Up
        BY <1>1, <1>2, <1>3 DEF Alternating
    <2>2. Provisioned(history)
        BY <1>1, <1>3, <2>1 DEF Provisioned
    <2>3. {i \in {j \in 3..Len(history) : ~history[j].Up} : ~history[i].ExpectedDown}
            = Interruptions
        BY <1>1, <1>2, <2>1 DEF Interruptions, Alternating
    <2>4. {i \in {j \in 3..Len(history) : history[j].Up} : ~history[i-1].ExpectedDown}
            = Recoveries
        BY <1>1, <1>2 DEF Recoveries, Alternating
    <2>. QED
        BY <1>1, <2>2, <2>3, <2>4, SummaryOfProvisioned DEF summary
<1>4. CASE Len(history) <= 1
    <2>1. Interruptions = {} /\ Recoveries = {}
        BY <1>1, <1>4 DEF Interruptions, Recoveries
    <2>2. ~Provisioned(history) /\ ~ProvisioningFailed(history)
        BY <1>1, <1>4 DEF Provisioned, ProvisioningFailed
    <2>3. summary.InterruptionCount = 0 /\ summary.RecoveryCount = 0
        BY <1>1, <2>2, SummaryOfOthers DEF summary
    <2>. QED
        BY <2>1, <2>3, FS_EmptySet
<1>. QED
    BY <1>1, <1>3, <1>4

-----------------------------------------------------------------------------
(* The times.                                                              *)

(* The times Summarize gives of a provisioned resource.                    *)
LEMMA TimesOfProvisioned ==
    ASSUME NEW h \in Seq(UpEvent), NEW now, Provisioned(h)
    PROVE  LET s    == Summarize(h, now)
               n    == Len(h)
               up   == TotalGap(h, InterruptedUpTo(h, n))
               down == TotalGap(h, RecoveredUpTo(h, n))
           IN  /\ s.UpTime = up + (IF h[n].Up THEN now - h[n].Timestamp ELSE 0)
               /\ s.DownTime = Gap(h, 2) + down
                                 + (IF h[n].Up THEN 0 ELSE now - h[n].Timestamp)
               /\ s.TotalUpTimeBetweenInterruption = IF s.InterruptionCount > 0 THEN up ELSE 0
               /\ s.TotalDownTimeBetweenRecovery = down
<1>1. Len(h) # 0 /\ Len(h) # 1
    BY DEF Provisioned
<1>2. Summarize(h, now) = SummarizeProvisioned(h, now)
    BY <1>1 DEF Provisioned, Summarize
<1>. DEFINE s    == SummarizeProvisioned(h, now)
            n    == Len(h)
            up   == TotalGap(h, InterruptedUpTo(h, n))
            down == TotalGap(h, RecoveredUpTo(h, n))
<1>3. /\ s.UpTime = up + (IF h[n].Up THEN OpenStretch(h, now) ELSE 0)
      /\ s.DownTime = Gap(h, 2) + down + (IF h[n].Up THEN 0 ELSE OpenStretch(h, now))
    BY DEF SummarizeProvisioned, InterruptedUpTo, RecoveredUpTo
<1>4. s.TotalUpTimeBetweenInterruption = IF s.InterruptionCount > 0 THEN up ELSE 0
    BY DEF SummarizeProvisioned, CountedTotal, InterruptedUpTo
<1>5. s.TotalDownTimeBetweenRecovery = down
    BY DEF SummarizeProvisioned, RecoveredUpTo
<1>. HIDE DEF s
<1>. QED
    BY <1>2, <1>3, <1>4, <1>5 DEF OpenStretch, s

(* Those it gives if provisioning neither succeeded nor failed.            *)
LEMMA TimesOfOthers ==
    ASSUME NEW h \in Seq(UpEvent), NEW now, ~Provisioned(h), ~ProvisioningFailed(h)
    PROVE  LET s == Summarize(h, now) IN
           /\ s.UpTime = 0
           /\ Len(h) = 0 => s.DownTime = 0
           /\ s.ProvisioningState = "provisioning" => Len(h) = 1 /\ ~h[1].Up
           /\ Len(h) = 1 /\ ~h[1].Up => /\ s.DownTime = now - h[1].Timestamp
                                       /\ s.ProvisioningState = "provisioning"
<1>1. Len(h) \in Nat
    OBVIOUS
<1>2. CASE Len(h) = 0 \/ h[1].Up
    <2>1. Summarize(h, now) = ZeroSummary
        BY <1>2 DEF Summarize
    <2>. QED
        BY <1>2, <2>1 DEF ZeroSummary
<1>3. CASE Len(h) = 1 /\ ~h[1].Up
    <2>1. Summarize(h, now) =
            [ZeroSummary EXCEPT !.DownTime = now - h[1].Timestamp,
                                !.ProvisioningDuration = now - h[1].Timestamp,
                                !.ProvisioningState = "provisioning"]
        BY <1>3 DEF Summarize
    <2>. QED
        BY <1>3, <2>1 DEF ZeroSummary
<1>4. CASE Len(h) > 1 /\ ~h[1].Up
    <2>1. Summarize(h, now) = ZeroSummary
        BY <1>4 DEF Summarize, Provisioned, ProvisioningFailed
    <2>2. \A n \in Nat : n > 1 => n # 0 /\ n # 1
        OBVIOUS
    <2>3. Len(h) # 0 /\ Len(h) # 1
        BY <1>1, <1>4, <2>2, Zenon
    <2>4. /\ ZeroSummary.UpTime = 0 /\ ZeroSummary.ProvisioningState = "none"
          /\ "none" # "provisioning"
        BY DEF ZeroSummary
    <2>. QED
        BY <2>1, <2>3, <2>4, Zenon
<1>5. Len(h) = 0 \/ Len(h) = 1 \/ Len(h) > 1
    BY <1>1
<1>. QED
    BY <1>2, <1>3, <1>4, <1>5

(* Up and down time account for all time, whatever the history.            *)
LEMMA AllTimeAccounted ==
    ASSUME NEW h \in Seq(UpEvent), NEW now \in Nat,
           Summarize(h, now).ProvisioningState \in {"provisioning", "success"}
    PROVE  /\ Summarize(h, now).UpTime \in Int /\ Summarize(h, now).DownTime \in Int
           /\ Summarize(h, now).UpTime + Summarize(h, now).DownTime = now - h[1].Timestamp
<1>1. CASE Provisioned(h)
    <2>. DEFINE n    == Len(h)
                up   == TotalGap(h, InterruptedUpTo(h, n))
                down == TotalGap(h, RecoveredUpTo(h, n))
                open == now - h[n].Timestamp
                t(i) == h[i].Timestamp
                s    == Summarize(h, now)
    <2>1. n \in Nat /\ n \in 2..n /\ 1 \in 1..n /\ 2 \in 1..n /\ n \in 1..n
        BY <1>1 DEF Provisioned
    <2>2. /\ t(1) \in Nat /\ t(2) \in Nat /\ t(n) \in Nat
          /\ Gap(h, 2) = t(2) - t(1) /\ open = now - t(n)
        BY <2>1, GapType DEF Gap
    <2>3. up \in Int /\ down \in Int /\ down + up = t(n) - t(2)
        BY <2>1, TotalsTelescope
    <2>4. /\ s.UpTime = up + (IF h[n].Up THEN open ELSE 0)
          /\ s.DownTime = Gap(h, 2) + down + (IF h[n].Up THEN 0 ELSE open)
        BY <1>1, TimesOfProvisioned
    <2>. DEFINE a == t(1)
                b == t(2)
                c == t(n)
    <2>. HIDE DEF n, up, down, open, t, s
    <2>5. a \in Nat /\ b \in Nat /\ c \in Nat /\ down + up = c - b
        BY <2>2, <2>3
    <2>6. CASE h[n].Up
        <3>1. s.UpTime = up + (now - c) /\ s.DownTime = (b - a) + down + 0
            BY <2>2, <2>4, <2>6, Zenon
        <3>. HIDE DEF a, b, c
        <3>2. /\ up + (now - c) \in Int /\ (b - a) + down + 0 \in Int
              /\ (up + (now - c)) + ((b - a) + down + 0) = now - a
            BY <2>3, <2>5
        <3>. QED
            BY <3>1, <3>2, Zenon DEF s, t, a
    <2>7. CASE ~h[n].Up
        <3>1. s.UpTime = up + 0 /\ s.DownTime = (b - a) + down + (now - c)
            BY <2>2, <2>4, <2>7, Zenon
        <3>. HIDE DEF a, b, c
        <3>2. /\ up + 0 \in Int /\ (b - a) + down + (now - c) \in Int
              /\ (up + 0) + ((b - a) + down + (now - c)) = now - a
            BY <2>3, <2>5
        <3>. QED
            BY <3>1, <3>2, Zenon DEF s, t, a
    <2>. QED
        BY <2>6, <2>7
<1>2. CASE ~Provisioned(h)
    <2>1. ~ProvisioningFailed(h)
        BY SummaryOfFailed
    <2>2. Summarize(h, now).ProvisioningState = "provisioning"
        BY <1>2, <2>1, SummaryOfOthers
    <2>3. /\ Len(h) = 1 /\ Summarize(h, now).UpTime = 0
          /\ Summarize(h, now).DownTime = now - h[1].Timestamp
        BY <1>2, <2>1, <2>2, TimesOfOthers
    <2>4. h[1].Timestamp \in Nat
        BY <2>3, GapType
    <2>. QED
        BY <2>3, <2>4
<1>. QED
    BY <1>1, <1>2

(* The reported up and down times account for all the time since the first *)
(* event, for histories of every length.                                   *)
THEOREM TimeStaysAccounted == Spec => []TimeAccounted
<1>1. TypeOK => TimeAccounted
    BY AllTimeAccounted DEF TypeOK, TimeAccounted, summary
<1>. QED
    BY <1>1, HistoryTypeCorrect, PTL

-----------------------------------------------------------------------------
(* Histories start down and are in the order of time.                      *)

InOrder == Ordered(history) /\ \A i \in 1..Len(history) : history[i].Timestamp <= clock

(* An event is recorded with the time of the clock, after all others.      *)
LEMMA InOrderStep ==
    ASSUME TypeOK, StartsDown, InOrder, [Next]_vars
    PROVE  /\ StartsDown' /\ InOrder'
           /\ \A i \in (Len(history) + 1)..Len(history') : history'[i].Timestamp = clock
           /\ clock' \in {clock, clock + 1}
<1>. USE DEF TypeOK
<1>1. CASE UNCHANGED history
    <2>1. clock' \in {clock, clock + 1}
        BY DEF Next, Tick, Observe, vars
    <2>2. InOrder'
        BY <1>1, <2>1, GapType DEF InOrder
    <2>. QED
        BY <1>1, <2>1, <2>2, GapType DEF StartsDown
<1>2. ASSUME NEW up \in Observed, Observe(up)
      PROVE  /\ StartsDown' /\ InOrder' /\ clock' = clock
             /\ \A i \in (Len(history) + 1)..Len(history') : history'[i].Timestamp = clock
    <2>1. EventOf(up, clock) \in UpEvent /\ EventOf(up, clock).Timestamp = clock
        BY EventOfType, HistoryAssumption
    <2>2. StartsDown'
        BY <1>2, <2>1, AppendUpEventStartsDown DEF Observe, StartsDown
    <2>3. /\ history' \in Seq(UpEvent) /\ Len(history') >= Len(history)
          /\ \A i \in 1..Len(history) : history'[i] = history[i]
          /\ \A i \in (Len(history) + 1)..Len(history') : history'[i].Timestamp = clock
        BY <1>2, <2>1, AppendUpEventExtends DEF Observe
    <2>4. clock' = clock /\ Len(history) \in Nat /\ Len(history') \in Nat
        BY <1>2, <2>3 DEF Observe
    <2>5. ASSUME NEW i \in 1..Len(history')
          PROVE  /\ history'[i].Timestamp <= clock
                 /\ \A j \in 1..Len(history') :
                      i <= j => history'[i].Timestamp <= history'[j].Timestamp
        <3>1. \A j \in 1..Len(history') :
                 \/ j \in 1..Len(history) /\ history'[j] = history[j]
                                          /\ history[j].Timestamp \in Nat
                                          /\ history[j].Timestamp <= clock
                 \/ j > Len(history) /\ history'[j].Timestamp = clock
            BY <2>3, <2>4, GapType DEF InOrder
        <3>2. history'[i].Timestamp <= clock
            BY <3>1
        <3>3. ASSUME NEW j \in 1..Len(history'), i <= j
              PROVE  history'[i].Timestamp <= history'[j].Timestamp
            <4>1. CASE j > Len(history) /\ history'[j].Timestamp = clock
                BY <3>2, <4>1
            <4>2. CASE j \in 1..Len(history) /\ history'[j] = history[j]
                <5>1. i \in 1..Len(history) /\ history'[i] = history[i]
                    BY <2>3, <2>4, <3>3, <4>2
                <5>. QED
                    BY <3>3, <4>2, <5>1, Zenon DEF InOrder, Ordered
            <4>. QED
                BY <3>1, <4>1, <4>2
        <3>. QED
            BY <3>2, <3>3
    <2>. QED
        BY <2>2, <2>3, <2>4, <2>5 DEF InOrder, Ordered
<1>. QED
    BY <1>1, <1>2 DEF Next, Tick, vars

(* So every history starts down and is in the order of time.               *)
LEMMA HistoryInOrder == Spec => [](TypeOK /\ StartsDown /\ InOrder)
<1>1. Init => TypeOK /\ StartsDown /\ InOrder
    BY DEF Init, TypeOK, StartsDown, InOrder, Ordered
<1>2. TypeOK /\ StartsDown /\ InOrder /\ [Next]_vars => (TypeOK /\ StartsDown /\ InOrder)'
    BY HistoryStep, InOrderStep
<1>. QED
    BY <1>1, <1>2, PTL DEF Spec

-----------------------------------------------------------------------------
(* On a history that alternates, the times are exact.                      *)

(* The up time is the number of instants at which the resource was up.     *)
LEMMA UpTimeExact ==
    ASSUME NEW h \in Seq(UpEvent), NEW now \in Nat, h # << >>, ~h[1].Up,
           Ordered(h), Alternates(h), h[Len(h)].Timestamp <= now
    PROVE  /\ Summarize(h, now).ProvisioningState \in {"provisioning", "success"}
           /\ IsFiniteSet(UpBefore(h, now)) /\ Cardinality(UpBefore(h, now)) \in Nat
           /\ Summarize(h, now).UpTime = Cardinality(UpBefore(h, now))
<1>. DEFINE n == Len(h)
            C(t) == Cardinality(UpBefore(h, t))
<1>1. /\ n \in Nat /\ n >= 1 /\ n \in 1..n
      /\ \A i \in 1..n : h[i].Timestamp \in Nat /\ h[i].Up \in BOOLEAN
    BY GapType
<1>2. /\ IsFiniteSet(UpBefore(h, now)) /\ C(now) \in Nat /\ C(h[n].Timestamp) \in Nat
      /\ C(now) = C(h[n].Timestamp) + (IF h[n].Up THEN now - h[n].Timestamp ELSE 0)
    BY <1>1, UpBeforeStep
<1>3. CASE n = 1
    <2>1. ~Provisioned(h) /\ ~ProvisioningFailed(h)
        BY <1>3 DEF Provisioned, ProvisioningFailed
    <2>2. /\ Summarize(h, now).UpTime = 0
          /\ Summarize(h, now).ProvisioningState = "provisioning"
        BY <1>3, <2>1, TimesOfOthers
    <2>3. UpBefore(h, h[1].Timestamp) = {}
        BY <1>1 DEF UpBefore
    <2>4. C(h[n].Timestamp) = 0
        BY <1>3, <2>3, FS_EmptySet
    <2>5. ~h[n].Up
        BY <1>3
    <2>. HIDE DEF C
    <2>6. C(now) = 0
        BY <1>2, <2>4, <2>5
    <2>. QED
        BY <1>2, <2>2, <2>6 DEF C
<1>4. CASE n > 1
    <2>1. h[2].Up
        BY <1>1, <1>4 DEF Alternates
    <2>2. Provisioned(h) /\ n \in 2..n
        BY <1>1, <1>4, <2>1 DEF Provisioned
    <2>3. /\ Summarize(h, now).ProvisioningState = "success"
          /\ Summarize(h, now).UpTime = TotalGap(h, InterruptedUpTo(h, n))
                                          + (IF h[n].Up THEN now - h[n].Timestamp ELSE 0)
        BY <2>2, SummaryOfProvisioned, TimesOfProvisioned
    <2>4. TotalGap(h, InterruptedUpTo(h, n)) = C(h[n].Timestamp)
        BY <2>2, UpTotalExact
    <2>. HIDE DEF C
    <2>5. Summarize(h, now).UpTime = C(now)
        BY <1>2, <2>3, <2>4
    <2>. QED
        BY <1>2, <2>3, <2>5 DEF C
<1>5. n = 1 \/ n > 1
    <2>. HIDE DEF n
    <2>. QED
        BY <1>1
<1>. QED
    BY <1>3, <1>4, <1>5

(* The same of the resource and its summary, and of the down time.         *)
TimesMatch ==
    history # << >> /\ Alternating =>
        /\ IsFiniteSet(InstantsUp) /\ IsFiniteSet(Instants \ InstantsUp)
        /\ summary.UpTime = Cardinality(InstantsUp)
        /\ summary.DownTime = Cardinality(Instants \ InstantsUp)

(* DownTime is the rest, as all time is accounted for.                     *)
LEMMA TimesExact ==
    ASSUME TypeOK, StartsDown, InOrder PROVE TimesMatch
<1>. SUFFICES ASSUME history # << >>, Alternating
              PROVE  /\ IsFiniteSet(InstantsUp) /\ IsFiniteSet(Instants \ InstantsUp)
                     /\ summary.UpTime = Cardinality(InstantsUp)
                     /\ summary.DownTime = Cardinality(Instants \ InstantsUp)
    BY DEF TimesMatch
<1>1. /\ history \in Seq(UpEvent) /\ clock \in Nat /\ ~history[1].Up
      /\ Len(history) \in Nat /\ 1 \in 1..Len(history) /\ Len(history) \in 1..Len(history)
    BY GapType DEF TypeOK, StartsDown
<1>2. /\ Ordered(history) /\ Alternates(history)
      /\ history[1].Timestamp \in Nat /\ history[1].Timestamp <= clock
      /\ history[Len(history)].Timestamp <= clock
    BY <1>1, GapType DEF InOrder, Alternating, Alternates
<1>3. InstantsUp = UpBefore(history, clock)
    BY DEF InstantsUp, UpBefore, InForce, InForceOf
<1>4. /\ summary.ProvisioningState \in {"provisioning", "success"}
      /\ IsFiniteSet(InstantsUp) /\ Cardinality(InstantsUp) \in Nat
      /\ summary.UpTime = Cardinality(InstantsUp)
    BY <1>1, <1>2, <1>3, UpTimeExact DEF summary
<1>5. /\ summary.DownTime \in Int
      /\ summary.UpTime + summary.DownTime = clock - history[1].Timestamp
    BY <1>1, <1>4, AllTimeAccounted DEF summary
<1>6. IsFiniteSet(Instants) /\ Cardinality(Instants) = clock - history[1].Timestamp
    BY <1>1, <1>2, IntervalSize DEF Instants
<1>7. InstantsUp \subseteq Instants
    BY DEF InstantsUp, Instants
<1>8. /\ IsFiniteSet(Instants \ InstantsUp) /\ Cardinality(Instants \ InstantsUp) \in Nat
      /\ Cardinality(Instants) = Cardinality(Instants \ InstantsUp) + Cardinality(InstantsUp)
    <2>1. IsFiniteSet(Instants \ InstantsUp)
        BY <1>6, FS_Difference
    <2>2. (Instants \ InstantsUp) \cap InstantsUp = {}
        OBVIOUS
    <2>3. (Instants \ InstantsUp) \cup InstantsUp = Instants
        BY <1>7
    <2>. QED
        BY <1>4, <2>1, <2>2, <2>3, DisjointSize, FS_CardinalityType
<1>. QED
    BY <1>1, <1>2, <1>4, <1>5, <1>6, <1>8

(* On a history that alternates, of whatever length, times and counts are  *)
(* exactly what the history means, instant by instant.                     *)
THEOREM SummaryStaysExact == Spec => []ExactWhenAlternating
<1>1. TypeOK /\ StartsDown /\ InOrder => ExactWhenAlternating
    BY TimesExact, CountsExact DEF ExactWhenAlternating, TimesMatch
<1>. QED
    BY <1>1, HistoryInOrder, PTL

-----------------------------------------------------------------------------
(* Nothing that is reported goes back.                                     *)

(* What was up at an instant in the past stays so.                         *)
LEMMA PastStays ==
    ASSUME TypeOK, StartsDown, InOrder, [Next]_vars, history # << >>
    PROVE  /\ InstantsUp \subseteq InstantsUp'
           /\ Instants \ InstantsUp \subseteq Instants' \ InstantsUp'
<1>1. /\ Len(history) \in Nat /\ Len(history') \in Nat /\ Len(history') >= Len(history)
      /\ \A i \in 1..Len(history) : history'[i] = history[i]
      /\ \A i \in (Len(history) + 1)..Len(history') : history'[i].Timestamp = clock
      /\ clock \in Nat /\ clock' \in Nat /\ clock <= clock'
    BY HistoryStep, InOrderStep DEF TypeOK
<1>2. 1 \in 1..Len(history) /\ history'[1] = history[1] /\ history[1].Timestamp \in Nat
    BY <1>1, GapType DEF TypeOK
<1>3. Instants \subseteq Instants'
    BY <1>1, <1>2 DEF Instants
<1>4. ASSUME NEW t \in Instants
      PROVE  history'[InForce(t)'] = history[InForce(t)]
    <2>. DEFINE S == {i \in 1..Len(history) : history[i].Timestamp <= t}
                Q == {i \in 1..Len(history') : history'[i].Timestamp <= t}
    <2>1. t \in Int /\ t < clock /\ history[1].Timestamp <= t
        BY <1>1, <1>2 DEF Instants
    <2>2. Q = S
        <3>1. \A i \in 1..Len(history') : i \in 1..Len(history) \/ history'[i].Timestamp = clock
            BY <1>1
        <3>2. \A i \in Q : i \in 1..Len(history)
            BY <1>1, <2>1, <3>1
        <3>3. \A i \in 1..Len(history) : i \in 1..Len(history')
            BY <1>1
        <3>. QED
            BY <1>1, <3>2, <3>3
    <2>3. InForce(t)' = InForce(t)
        BY <2>2 DEF InForce
    <2>4. InForce(t) \in 1..Len(history)
        <3>1. S \subseteq 1..Len(history) /\ 1 \in S
            BY <1>2, <2>1
        <3>. HIDE DEF S
        <3>2. Max(S) \in S
            BY <1>1, <3>1, MaxInSet
        <3>. QED
            BY <3>1, <3>2 DEF InForce, S
    <2>. QED
        BY <1>1, <2>3, <2>4
<1>. QED
    BY <1>3, <1>4 DEF InstantsUp, Instants

(* What a monitor adds up never goes back: the counts only grow, and on a  *)
(* history that alternates so do the up and the down time.                 *)
THEOREM NothingGoesBack == Spec => CountsNeverDecrease
<1>. DEFINE Grow == /\ summary'.InterruptionCount >= summary.InterruptionCount
                    /\ summary'.RecoveryCount >= summary.RecoveryCount
                    /\ Alternating' => /\ summary'.UpTime >= summary.UpTime
                                       /\ summary'.DownTime >= summary.DownTime
<1>1. TypeOK /\ StartsDown /\ InOrder => TimesMatch
    BY TimesExact
<1>2. TypeOK /\ StartsDown /\ InOrder /\ TimesMatch /\ TimesMatch' /\ [Next]_vars => Grow
    <2>. SUFFICES ASSUME TypeOK, StartsDown, InOrder, TimesMatch, TimesMatch', [Next]_vars
                  PROVE  Grow
        OBVIOUS
    <2>1. /\ summary'.InterruptionCount >= summary.InterruptionCount
          /\ summary'.RecoveryCount >= summary.RecoveryCount
        BY CountsStep
    <2>. SUFFICES ASSUME Alternating'
                  PROVE  summary'.UpTime >= summary.UpTime /\ summary'.DownTime >= summary.DownTime
        BY <2>1
    <2>2. CASE history' = << >>
        <3>1. history = << >>
            BY <2>2, HistoryStep DEF TypeOK
        <3>2. /\ summary.UpTime = 0 /\ summary.DownTime = 0
              /\ summary'.UpTime = 0 /\ summary'.DownTime = 0
            BY <2>2, <3>1 DEF summary, Summarize, ZeroSummary
        <3>. QED
            BY <3>2
    <2>3. CASE history' # << >>
        <3>1. /\ IsFiniteSet(InstantsUp)' /\ IsFiniteSet(Instants \ InstantsUp)'
              /\ summary'.UpTime = Cardinality(InstantsUp')
              /\ summary'.DownTime = Cardinality(Instants' \ InstantsUp')
            BY <2>3 DEF TimesMatch
        <3>2. CASE history = << >>
            <4>1. summary.UpTime = 0 /\ summary.DownTime = 0
                BY <3>2 DEF summary, Summarize, ZeroSummary
            <4>. QED
                BY <3>1, <4>1, FS_CardinalityType
        <3>3. CASE history # << >>
            <4>1. Alternating
                <5>1. /\ Len(history) \in Nat /\ Len(history') \in Nat
                      /\ Len(history') >= Len(history)
                      /\ \A i \in 1..Len(history) : history'[i] = history[i]
                    BY HistoryStep DEF TypeOK
                <5>2. \A i \in 2..Len(history) :
                        /\ i \in 2..Len(history') /\ i - 1 \in 1..Len(history)
                        /\ i \in 1..Len(history)
                    BY <5>1
                <5>. QED
                    BY <5>1, <5>2, Zenon DEF Alternating
            <4>2. /\ summary.UpTime = Cardinality(InstantsUp)
                  /\ summary.DownTime = Cardinality(Instants \ InstantsUp)
                  /\ IsFiniteSet(InstantsUp) /\ IsFiniteSet(Instants \ InstantsUp)
                BY <3>3, <4>1 DEF TimesMatch
            <4>3. /\ Cardinality(InstantsUp) <= Cardinality(InstantsUp')
                  /\ Cardinality(Instants \ InstantsUp) <= Cardinality(Instants' \ InstantsUp')
                BY <3>1, <3>3, PastStays, FS_Subset
            <4>. QED
                BY <3>1, <4>2, <4>3, FS_CardinalityType
        <3>. QED
            BY <3>2, <3>3
    <2>. QED
        BY <2>2, <2>3
<1>. QED
    BY <1>1, <1>2, HistoryInOrder, PTL DEF Spec, CountsNeverDecrease

-----------------------------------------------------------------------------
(* The totals and the counts.                                              *)

(* Every recovery ends the interruption before it, and every interruption  *)
(* but one that is the last event has its recovery.                        *)
LEMMA CountsPair ==
    ASSUME TypeOK, StartsDown, history # << >>, Alternating
    PROVE  /\ Cardinality(Interruptions) \in Nat /\ Cardinality(Recoveries) \in Nat
           /\ Cardinality(Interruptions) - Cardinality(Recoveries) =
                IF Len(history) \in Interruptions THEN 1 ELSE 0
           /\ Interruptions # {} <=> Cardinality(Interruptions) > 0
<1>. DEFINE n == Len(history)
            Over == Interruptions \ {n}
            next == [i \in Over |-> i + 1]
<1>1. /\ history \in Seq(UpEvent) /\ n \in Nat /\ n >= 1
      /\ \A i \in 1..n : history[i].Up \in BOOLEAN
    BY GapType DEF TypeOK
<1>2. ~history[1].Up
    BY DEF StartsDown
<1>3. Interruptions \subseteq 3..n /\ Recoveries \subseteq 3..n
    BY <1>1, <1>2 DEF Interruptions, Recoveries
<1>4. /\ IsFiniteSet(Interruptions) /\ Cardinality(Interruptions) \in Nat
      /\ IsFiniteSet(Recoveries) /\ Cardinality(Recoveries) \in Nat
    BY <1>1, <1>3, EventsFinite
<1>5. ASSUME NEW i \in Over PROVE i + 1 \in Recoveries
    <2>1. i \in 3..n /\ i # n /\ i + 1 \in 3..n /\ (i + 1) - 1 = i
        BY <1>1, <1>3
    <2>2. ~history[i].Up /\ ~history[i].ExpectedDown
        BY DEF Interruptions
    <2>3. history[i+1].Up # history[i].Up
        BY <1>1, <2>1 DEF Alternating
    <2>4. history[i+1].Up
        BY <1>1, <2>1, <2>2, <2>3
    <2>. QED
        BY <2>1, <2>2, <2>4 DEF Recoveries
<1>6. ASSUME NEW j \in Recoveries PROVE j - 1 \in Over /\ (j - 1) + 1 = j
    <2>1. j \in 3..n /\ ~history[j-1].Up /\ ~history[j-1].ExpectedDown
        BY DEF Recoveries
    <2>2. j - 1 \in 2..n /\ j - 1 # n /\ (j - 1) - 1 \in 1..n /\ (j - 1) + 1 = j
        BY <1>1, <2>1
    <2>3. history[j-1].Up # history[(j-1)-1].Up
        BY <2>2 DEF Alternating
    <2>4. history[(j-1)-1].Up
        BY <1>1, <2>1, <2>2, <2>3
    <2>. QED
        BY <2>1, <2>2, <2>4 DEF Interruptions
<1>7. next \in Bijection(Over, Recoveries)
    <2>1. next \in [Over -> Recoveries]
        BY <1>5
    <2>2. \A i, j \in Over : i + 1 = j + 1 => i = j
        BY <1>1, <1>3
    <2>3. \A j \in Recoveries : \E i \in Over : next[i] = j
        BY <1>6
    <2>. QED
        BY <2>1, <2>2, <2>3, Fun_IsBij
<1>8. IsFiniteSet(Over) /\ Cardinality(Recoveries) = Cardinality(Over)
    <2>1. IsFiniteSet(Over)
        BY <1>4, FS_Subset
    <2>2. ExistsBijection(Over, Recoveries)
        BY <1>7 DEF ExistsBijection
    <2>. QED
        BY <2>1, <2>2, FS_Bijection
<1>9. /\ n \in Interruptions => Cardinality(Over) = Cardinality(Interruptions) - 1
      /\ n \notin Interruptions => Over = Interruptions
    <2>1. CASE n \in Interruptions
        <3>1. Over = Interruptions \ {n}
            OBVIOUS
        <3>. HIDE DEF Over
        <3>. QED
            BY <1>4, <2>1, <3>1, FS_RemoveElement
    <2>2. CASE n \notin Interruptions
        BY <2>2
    <2>. QED
        BY <2>1, <2>2
<1>10. Interruptions # {} <=> Cardinality(Interruptions) > 0
    BY <1>4, FS_EmptySet
<1>. HIDE DEF Over
<1>. QED
    BY <1>4, <1>8, <1>9, <1>10

(* The up total is over the instants up between the first time up and the  *)
(* last event, the down total over the others.                             *)
LEMMA TotalsExact ==
    ASSUME NEW h \in Seq(UpEvent), Ordered(h), Alternates(h), ~h[1].Up, Len(h) > 1,
           NEW now \in Nat, h[Len(h)].Timestamp <= now
    PROVE  LET n       == Len(h)
               between == h[2].Timestamp..(h[n].Timestamp - 1)
           IN  /\ TotalGap(h, InterruptedUpTo(h, n)) = Cardinality(between \cap UpBefore(h, now))
               /\ TotalGap(h, RecoveredUpTo(h, n)) = Cardinality(between \ UpBefore(h, now))
<1>. DEFINE n  == Len(h)
            a  == h[1].Timestamp
            b  == h[2].Timestamp
            c  == h[n].Timestamp
            between == b..(c - 1)
            up == between \cap UpBefore(h, now)
            down == between \ UpBefore(h, now)
            U == TotalGap(h, InterruptedUpTo(h, n))
            D == TotalGap(h, RecoveredUpTo(h, n))
<1>1. n \in Nat /\ n \in 2..n /\ 1 \in 1..n /\ 2 \in 1..n /\ n \in 1..n
    BY GapType
<1>2. a \in Nat /\ b \in Nat /\ c \in Nat /\ a <= b /\ b <= c
    BY <1>1, GapType DEF Ordered
<1>3. ASSUME NEW t \in a..(b - 1) PROVE ~h[InForceOf(h, t)].Up
    <2>1. t \in Int /\ a <= t /\ t < b
        BY <1>2
    <2>2. InForceOf(h, t) = 1
        BY <1>1, <2>1, InForceIs
    <2>. QED
        BY <2>2
<1>4. UpBefore(h, c) = up
    <2>1. /\ UpBefore(h, c) = {u \in a..(c - 1) : h[InForceOf(h, u)].Up}
          /\ UpBefore(h, now) = {u \in a..(now - 1) : h[InForceOf(h, u)].Up}
        BY DEF UpBefore
    <2>2. /\ \A u \in a..(c - 1) : u \in a..(b - 1) \/ u \in between
          /\ \A u \in between : u \in a..(c - 1)
          /\ \A u \in a..(c - 1) : u \in a..(now - 1)
        BY <1>2
    <2>. HIDE DEF a, b, c, between
    <2>. QED
        BY <1>3, <2>1, <2>2 DEF up
<1>5. U = Cardinality(up)
    BY <1>1, <1>4, UpTotalExact
<1>6. D \in Int /\ U \in Int /\ D + U = c - b
    BY <1>1, TotalsTelescope
<1>7. IsFiniteSet(between) /\ Cardinality(between) = c - b
    <2>1. b \in Int /\ c \in Int /\ b <= c
        BY <1>2
    <2>. HIDE DEF b, c, U, D
    <2>. QED
        BY <2>1, IntervalSize
<1>. HIDE DEF between, U, D, b, c
<1>8. IsFiniteSet(up) /\ IsFiniteSet(down)
    BY <1>7, FS_Subset
<1>9. up \cap down = {} /\ up \cup down = between
    OBVIOUS
<1>10. /\ Cardinality(between) = Cardinality(up) + Cardinality(down)
       /\ Cardinality(up) \in Nat /\ Cardinality(down) \in Nat
    <2>. HIDE DEF up, down
    <2>. QED
        BY <1>8, <1>9, DisjointSize, FS_CardinalityType
<1>. HIDE DEF up, down
<1>11. D = Cardinality(down)
    BY <1>2, <1>5, <1>6, <1>7, <1>10 DEF b, c
<1>. QED
    BY <1>5, <1>11 DEF U, D, up, down, between, b, c

(* On a history that alternates, the totals are over all of the time       *)
(* between the first time up and the last event, expected downtimes        *)
(* included, and interruptions and recoveries pair up.                     *)
THEOREM TotalsStayExact == Spec => []TotalsMatchCounts
<1>1. ASSUME TypeOK, StartsDown, InOrder, history # << >>, Alternating
      PROVE  /\ summary.TotalDownTimeBetweenRecovery = Cardinality(InstantsBetween \ InstantsUp)
             /\ summary.TotalUpTimeBetweenInterruption =
                   IF Interruptions = {} THEN 0 ELSE Cardinality(InstantsBetween \cap InstantsUp)
             /\ summary.InterruptionCount - summary.RecoveryCount =
                   IF Len(history) \in Interruptions THEN 1 ELSE 0
    <2>. DEFINE n == Len(history)
    <2>1. /\ history \in Seq(UpEvent) /\ clock \in Nat /\ ~history[1].Up
          /\ n \in Nat /\ n >= 1 /\ n \in 1..n
        BY <1>1, GapType DEF TypeOK, StartsDown
    <2>2. Ordered(history) /\ Alternates(history) /\ history[n].Timestamp <= clock
        BY <1>1, <2>1 DEF InOrder, Alternating, Alternates
    <2>3. /\ summary.InterruptionCount = Cardinality(Interruptions)
          /\ summary.RecoveryCount = Cardinality(Recoveries)
        BY <1>1, CountsExact
    <2>4. /\ Cardinality(Interruptions) - Cardinality(Recoveries) =
               IF n \in Interruptions THEN 1 ELSE 0
          /\ Interruptions # {} <=> Cardinality(Interruptions) > 0
        BY <1>1, CountsPair
    <2>5. CASE n = 1
        <3>1. /\ summary.TotalDownTimeBetweenRecovery = 0
              /\ summary.TotalUpTimeBetweenInterruption = 0
            <4>1. n # 0 /\ ~(n > 1)
                BY <2>5
            <4>2. summary = [ZeroSummary EXCEPT !.DownTime = clock - history[1].Timestamp,
                                                !.ProvisioningDuration = clock - history[1].Timestamp,
                                                !.ProvisioningState = "provisioning"]
                BY <2>1, <2>5, <4>1, Zenon DEF summary, Summarize
            <4>. QED
                BY <4>2 DEF ZeroSummary
        <3>2. InstantsBetween = {} /\ Interruptions = {}
            BY <2>5 DEF InstantsBetween, Interruptions
        <3>3. InstantsBetween \ InstantsUp = {}
            BY <3>2
        <3>. QED
            BY <2>3, <2>4, <3>1, <3>2, <3>3, FS_EmptySet
    <2>6. CASE n > 1
        <3>1. InstantsUp = UpBefore(history, clock)
            BY DEF InstantsUp, UpBefore, InForce, InForceOf
        <3>2. InstantsBetween = history[2].Timestamp..(history[n].Timestamp - 1)
            BY <2>1, <2>6 DEF InstantsBetween
        <3>3. Provisioned(history)
            <4>1. /\ history[2].Up # history[1].Up
                  /\ history[1].Up \in BOOLEAN /\ history[2].Up \in BOOLEAN
                BY <1>1, <2>1, <2>6, GapType DEF Alternating
            <4>. QED
                BY <2>1, <2>6, <4>1 DEF Provisioned
        <3>4. /\ summary.TotalUpTimeBetweenInterruption =
                   IF summary.InterruptionCount > 0
                   THEN TotalGap(history, InterruptedUpTo(history, n)) ELSE 0
              /\ summary.TotalDownTimeBetweenRecovery = TotalGap(history, RecoveredUpTo(history, n))
            BY <2>1, <3>3, TimesOfProvisioned DEF summary
        <3>5. /\ TotalGap(history, InterruptedUpTo(history, n))
                   = Cardinality(InstantsBetween \cap InstantsUp)
              /\ TotalGap(history, RecoveredUpTo(history, n))
                   = Cardinality(InstantsBetween \ InstantsUp)
            BY <2>1, <2>2, <2>6, <3>1, <3>2, TotalsExact
        <3>. QED
            BY <2>3, <2>4, <3>4, <3>5
    <2>7. n = 1 \/ n > 1
        <3>1. n \in Nat /\ n >= 1
            BY <2>1, Zenon
        <3>. HIDE DEF n
        <3>. QED
            BY <3>1
    <2>. QED
        BY <2>5, <2>6, <2>7, Zenon
<1>2. TypeOK /\ StartsDown /\ InOrder => TotalsMatchCounts
    BY <1>1 DEF TotalsMatchCounts
<1>. QED
    BY <1>2, HistoryInOrder, PTL
=============================================================================
