------------------------- MODULE DailySummary_proofs --------------------------
(***************************************************************************)
(* Proofs about DailySummary for every set of readings, every calendar     *)
(* and any number of days, readings and runs of the process.               *)
(***************************************************************************)
EXTENDS DailySummary, Induction, TLAPS

(* A day has four periods, and each has its place in it. *)
LEMMA TimeFacts ==
  ASSUME NEW t \in Nat
  PROVE  /\ DateOf(t) \in Nat
         /\ 4 * DateOf(t) <= t /\ t <= 4 * DateOf(t) + 3
         /\ PeriodOf(t) = "23:59" <=> t = 4 * DateOf(t) + 3
         /\ PeriodOf(t) = "01:xx" <=> t = 4 * DateOf(t) + 1
<1>1. t % 4 \in 0..3 /\ DateOf(t) \in Nat /\ t = 4 * DateOf(t) + (t % 4)
  BY DEF DateOf
<1>2. /\ Periods[1] = "00:xx" /\ Periods[2] = "01:xx"
      /\ Periods[3] = "day" /\ Periods[4] = "23:59"
  BY DEF Periods
<1>3. PeriodOf(t) = Periods[(t % 4) + 1]
  BY DEF PeriodOf
<1>4. PeriodOf(t) = "23:59" <=> t % 4 = 3
  BY <1>1, <1>2, <1>3
<1>5. PeriodOf(t) = "01:xx" <=> t % 4 = 1
  BY <1>1, <1>2, <1>3
<1>. QED
  BY <1>1, <1>4, <1>5

(* Dates follow the clock. *)
LEMMA DatesAreMonotonic ==
  ASSUME NEW t \in Nat, NEW u \in Nat, t <= u
  PROVE  DateOf(t) <= DateOf(u)
BY TimeFacts

(* The constants that bound a run are positive. *)
LEMMA BoundsFacts ==
  MaxDays \in Nat \ {0} /\ MaxReadings \in Nat \ {0} /\ MaxBoots \in Nat \ {0}
BY BoundsAssumption

(* What TypeOK says of the clock and the history. *)
LEMMA TypeFacts ==
  ASSUME TypeOK
  PROVE  /\ time \in Nat
         /\ reads \subseteq Nat /\ \A u \in reads : u <= time
         /\ nights \in Seq(Nat)
         /\ \A i \in DOMAIN nights : nights[i] \in 0..DateOf(time)
<1>1. time \in Nat /\ reads \subseteq 0..time
  BY BoundsFacts DEF TypeOK
<1>2. DateOf(time) \in Nat
  BY <1>1, TimeFacts
<1>3. nights \in Seq(0..DateOf(time))
  BY DEF TypeOK
<1>. QED
  BY <1>1, <1>2, <1>3

-----------------------------------------------------------------------------
(* What ds holds. *)

(* The element a sum begins with, the sum of the rain of some readings, and its recursion. *)
Pick(s) == CHOOSE x \in s : TRUE
Rain(q, S) == MapThenSumSet(LAMBDA i : q[i][2], S)
RainStep(q, g, s) == IF s = {} THEN 0 ELSE q[Pick(s)][2] + g[s \ {Pick(s)}]
IsRain(q, g, D) == g = [s \in D |-> RainStep(q, g, s)]

LEMMA RainfallIsRain ==
  ASSUME NEW q
  PROVE  Rainfall(q) = Rain(q, DOMAIN q)
BY DEF Rainfall, Rain

(* What the library's definition says. *)
LEMMA RainUnfold ==
  ASSUME NEW q, NEW S
  PROVE  Rain(q, S) = (CHOOSE g : IsRain(q, g, SUBSET S))[S]
BY DEF Rain, MapThenSumSet, MapThenFoldSet, Pick, RainStep, IsRain

(* There is such a function, by induction on the sizes of the sets. *)
LEMMA RainExists ==
  ASSUME NEW q, NEW S, IsFiniteSet(S)
  PROVE  \E g : IsRain(q, g, SUBSET S)
<1>. DEFINE T == {n \in Nat : \E g : IsRain(q, g, SubsetsUpTo(S, n))}
<1>1. 0 \in T
  <2>. DEFINE g == [s \in SubsetsUpTo(S, 0) |-> 0]
  <2>1. \A s \in SubsetsUpTo(S, 0) : RainStep(q, g, s) = 0
    BY SubsetsUpToFacts DEF RainStep
  <2>2. IsRain(q, g, SubsetsUpTo(S, 0))
    BY <2>1 DEF IsRain
  <2>. QED
    BY <2>2
<1>2. ASSUME NEW n \in T PROVE n + 1 \in T
  <2>. DEFINE D == SubsetsUpTo(S, n)
              E == SubsetsUpTo(S, n + 1)
  <2>1. n \in Nat /\ \E g : IsRain(q, g, D)
    OBVIOUS
  <2>2. PICK g : IsRain(q, g, D)
    BY <2>1
  <2>. DEFINE h == [s \in E |-> RainStep(q, g, s)]
  <2>3. D \subseteq E /\ \A s \in E : s # {} => s \ {Pick(s)} \in D
    BY <2>1, SubsetsUpToFacts DEF Pick
  <2>4. \A s \in D : h[s] = g[s]
    BY <2>2, <2>3 DEF IsRain
  <2>. HIDE DEF D, E
  <2>5. \A s \in E : RainStep(q, g, s) = RainStep(q, h, s)
    <3>. HIDE DEF h
    <3>. QED
      BY <2>3, <2>4 DEF RainStep
  <2>6. IsRain(q, h, E)
    BY <2>5 DEF IsRain
  <2>7. \E f : IsRain(q, f, E)
    <3>. HIDE DEF h
    <3>. QED
      BY <2>6
  <2>. QED
    BY <2>1, <2>7 DEF E
<1>3. T = Nat
  <2>. HIDE DEF T
  <2>1. T \in SUBSET Nat
    BY DEF T
  <2>. QED
    BY <1>1, <1>2, <2>1, NaturalInduction
<1>4. \E g : IsRain(q, g, SubsetsUpTo(S, Cardinality(S)))
  <2>1. Cardinality(S) \in Nat
    BY SubsetsUpToFacts
  <2>. QED
    BY <1>3, <2>1
<1>5. SubsetsUpTo(S, Cardinality(S)) = SUBSET S
  BY SubsetsUpToFacts
<1>. QED
  BY <1>4, <1>5

(* And but one, so that it is also the sum of every smaller set. *)
LEMMA RainUnique ==
  ASSUME NEW q, NEW S, IsFiniteSet(S), NEW S2 \in SUBSET S,
         NEW g, IsRain(q, g, SUBSET S)
  PROVE  Rain(q, S2) = g[S2]
<1>1. PICK h : IsRain(q, h, SUBSET S2) /\ h = CHOOSE f : IsRain(q, f, SUBSET S2)
  BY FS_Subset, RainExists
<1>2. Rain(q, S2) = h[S2]
  BY <1>1, RainUnfold
<1>. DEFINE T == {s \in SUBSET S2 : g[s] # h[s]}
<1>3. T = {}
  <2>. SUFFICES ASSUME T # {} PROVE FALSE
    OBVIOUS
  <2>1. T \in SUBSET SUBSET S
    OBVIOUS
  <2>2. PICK s \in T : \A x \in s : s \ {x} \notin T
    <3>. HIDE DEF T
    <3>. QED
      BY <2>1, SmallestSet
  <2>3. g[s] = RainStep(q, g, s) /\ h[s] = RainStep(q, h, s)
    BY <1>1, <2>1 DEF IsRain
  <2>4. CASE s = {}
    BY <2>3, <2>4 DEF RainStep
  <2>5. CASE s # {}
    <3>1. Pick(s) \in s
      BY <2>5 DEF Pick
    <3>2. g[s \ {Pick(s)}] = h[s \ {Pick(s)}]
      BY <2>2, <3>1
    <3>. QED
      BY <2>3, <3>2 DEF RainStep
  <2>. QED
    BY <2>4, <2>5
<1>. QED
  BY <1>2, <1>3

(* So a sum is its first element and the sum of the others. *)
LEMMA RainRecursion ==
  ASSUME NEW q, NEW S, IsFiniteSet(S)
  PROVE  /\ S = {} => Rain(q, S) = 0
         /\ S # {} => /\ Pick(S) \in S
                      /\ Rain(q, S) = q[Pick(S)][2] + Rain(q, S \ {Pick(S)})
<1>1. PICK g : IsRain(q, g, SUBSET S)
  BY RainExists
<1>2. Rain(q, S) = RainStep(q, g, S)
  <2>1. Rain(q, S) = g[S]
    BY <1>1, RainUnique
  <2>. QED
    BY <1>1, <2>1 DEF IsRain
<1>3. S # {} => Pick(S) \in S
  BY DEF Pick
<1>4. S # {} => Rain(q, S \ {Pick(S)}) = g[S \ {Pick(S)}]
  BY <1>1, RainUnique
<1>. QED
  BY <1>2, <1>3, <1>4 DEF RainStep

(* A sum of natural numbers is one. *)
LEMMA RainType ==
  ASSUME NEW q, NEW S, IsFiniteSet(S), \A i \in S : q[i][2] \in Nat
  PROVE  Rain(q, S) \in Nat
<1>. DEFINE T == {s \in SUBSET S : Rain(q, s) \notin Nat}
<1>1. T = {}
  <2>. SUFFICES ASSUME T # {} PROVE FALSE
    OBVIOUS
  <2>1. PICK s \in T : \A x \in s : s \ {x} \notin T
    <3>1. T \in SUBSET SUBSET S
      OBVIOUS
    <3>. HIDE DEF T
    <3>. QED
      BY <3>1, SmallestSet
  <2>2. IsFiniteSet(s)
    BY FS_Subset
  <2>3. s # {} /\ Pick(s) \in s /\ Rain(q, s) = q[Pick(s)][2] + Rain(q, s \ {Pick(s)})
    <3>1. Rain(q, s) \notin Nat
      BY <2>1
    <3>2. /\ s = {} => Rain(q, s) = 0
          /\ s # {} => /\ Pick(s) \in s
                       /\ Rain(q, s) = q[Pick(s)][2] + Rain(q, s \ {Pick(s)})
      BY <2>2, RainRecursion
    <3>. QED
      BY <3>1, <3>2
  <2>4. q[Pick(s)][2] \in Nat /\ Rain(q, s \ {Pick(s)}) \in Nat
    BY <2>1, <2>3
  <2>. QED
    BY <2>3, <2>4
<1>. QED
  BY <1>1

(* It depends on the readings that are summed up, *)
LEMMA RainAgrees ==
  ASSUME NEW q, NEW p, NEW S, IsFiniteSet(S), \A i \in S : q[i] = p[i]
  PROVE  Rain(q, S) = Rain(p, S)
<1>. DEFINE T == {s \in SUBSET S : Rain(q, s) # Rain(p, s)}
<1>1. T = {}
  <2>. SUFFICES ASSUME T # {} PROVE FALSE
    OBVIOUS
  <2>1. PICK s \in T : \A x \in s : s \ {x} \notin T
    <3>1. T \in SUBSET SUBSET S
      OBVIOUS
    <3>. HIDE DEF T
    <3>. QED
      BY <3>1, SmallestSet
  <2>2. IsFiniteSet(s)
    BY FS_Subset
  <2>3. /\ s # {} /\ Pick(s) \in s
        /\ Rain(q, s) = q[Pick(s)][2] + Rain(q, s \ {Pick(s)})
        /\ Rain(p, s) = p[Pick(s)][2] + Rain(p, s \ {Pick(s)})
    BY <2>2, RainRecursion
  <2>4. q[Pick(s)] = p[Pick(s)] /\ Rain(q, s \ {Pick(s)}) = Rain(p, s \ {Pick(s)})
    BY <2>1, <2>3
  <2>. QED
    BY <2>3, <2>4
<1>. QED
  BY <1>1

(* and not on the one it begins with. *)
LEMMA RainRemove ==
  ASSUME NEW q, NEW S, IsFiniteSet(S), \A i \in S : q[i][2] \in Nat, NEW e \in S
  PROVE  Rain(q, S) = q[e][2] + Rain(q, S \ {e})
<1>. DEFINE T == {s \in SUBSET S : \E x \in s : Rain(q, s) # q[x][2] + Rain(q, s \ {x})}
<1>1. T = {}
  <2>. SUFFICES ASSUME T # {} PROVE FALSE
    OBVIOUS
  <2>1. PICK s \in T : \A x \in s : s \ {x} \notin T
    <3>1. T \in SUBSET SUBSET S
      OBVIOUS
    <3>. HIDE DEF T
    <3>. QED
      BY <3>1, SmallestSet
  <2>2. PICK x \in s : Rain(q, s) # q[x][2] + Rain(q, s \ {x})
    BY <2>1
  <2>. DEFINE b == Pick(s)
  <2>3. b \in s /\ Rain(q, s) = q[b][2] + Rain(q, s \ {b})
    <3>1. IsFiniteSet(s)
      BY FS_Subset
    <3>. QED
      BY <3>1, RainRecursion
  <2>. HIDE DEF b
  <2>4. x # b
    BY <2>2, <2>3
  <2>5. Rain(q, s \ {b}) = q[x][2] + Rain(q, (s \ {b}) \ {x})
    BY <2>1, <2>3, <2>4
  <2>6. Rain(q, s \ {x}) = q[b][2] + Rain(q, (s \ {x}) \ {b})
    BY <2>1, <2>3, <2>4
  <2>7. (s \ {b}) \ {x} = (s \ {x}) \ {b}
    OBVIOUS
  <2>8. Rain(q, (s \ {x}) \ {b}) \in Nat /\ q[x][2] \in Nat /\ q[b][2] \in Nat
    <3>1. IsFiniteSet((s \ {x}) \ {b})
      BY FS_Subset
    <3>. QED
      BY <2>3, <3>1, RainType
  <2>9. Rain(q, s) = q[b][2] + (q[x][2] + Rain(q, (s \ {x}) \ {b}))
    BY <2>3, <2>5, <2>7
  <2>10. q[x][2] + Rain(q, s \ {x}) = q[x][2] + (q[b][2] + Rain(q, (s \ {x}) \ {b}))
    BY <2>6
  <2>11. Rain(q, s) = q[x][2] + Rain(q, s \ {x})
    BY <2>8, <2>9, <2>10
  <2>. QED
    BY <2>2, <2>11
<1>. QED
  BY <1>1

(* So the rain of one more reading is added to that of the others. *)
LEMMA RainAppend ==
  ASSUME NEW q \in Seq(Readings), NEW r \in Readings
  PROVE  /\ Rain(q, DOMAIN q) \in Nat
         /\ Rain(Append(q, r), DOMAIN Append(q, r)) = Rain(q, DOMAIN q) + r[2]
<1>. DEFINE a == Append(q, r)
            n == Len(q) + 1
<1>1. /\ a \in Seq(Readings) /\ n \in Nat /\ n \in 1..n
      /\ DOMAIN a = 1..n /\ DOMAIN q = 1 .. n - 1
      /\ a[n] = r /\ \A i \in 1 .. n - 1 : a[i] = q[i]
  OBVIOUS
<1>. HIDE DEF a, n
<1>2. (1..n) \ {n} = 1 .. n - 1
  BY <1>1
<1>3. /\ \A i \in 1..n : a[i] \in Readings /\ a[i][2] \in Nat
      /\ \A i \in 1 .. n - 1 : q[i] \in Readings /\ q[i][2] \in Nat
  BY <1>1, ReadingsAssumption
<1>4. IsFiniteSet(1..n) /\ IsFiniteSet(1 .. n - 1)
  BY <1>1, FS_Interval
<1>5. Rain(a, 1..n) = r[2] + Rain(a, 1 .. n - 1)
  BY <1>1, <1>2, <1>3, <1>4, RainRemove
<1>6. Rain(a, 1 .. n - 1) = Rain(q, 1 .. n - 1)
  BY <1>1, <1>4, RainAgrees
<1>7. Rain(q, 1 .. n - 1) \in Nat
  BY <1>3, <1>4, RainType
<1>8. r[2] \in Nat
  BY <1>1, <1>3
<1>. QED
  BY <1>1, <1>5, <1>6, <1>7, <1>8 DEF a

(* The summary of no readings, at the start of a process. *)
LEMMA EmptyIsExact ==
  ASSUME folded = <<>>, ds = EmptySummary
  PROVE  ExactInv
<1>1. DOMAIN folded = {} /\ Values = {}
  BY DEF Values
<1>2. Rain(folded, DOMAIN folded) = 0
  BY <1>1, FS_EmptySet, RainRecursion
<1>. QED
  BY <1>1, <1>2, RainfallIsRain DEF ExactInv, EmptySummary

(* And after a summary has been written. *)
LEMMA EmptiedIsExact ==
  ASSUME folded' = <<>>, ds' = EmptySummary
  PROVE  ExactInv'
<1>1. DOMAIN folded' = {} /\ Values' = {}
  BY DEF Values
<1>2. Rain(folded', DOMAIN folded') = 0
  BY <1>1, FS_EmptySet, RainRecursion
<1>. QED
  BY <1>1, <1>2, RainfallIsRain DEF ExactInv, EmptySummary

(* updateSummary keeps the exact summary of one more reading. *)
LEMMA FoldKeepsExact ==
  ASSUME TypeOK, ExactInv, FoldReading
  PROVE  ExactInv'
<1>1. PICK r \in Readings : ds' = UpdateSummary(ds, r) /\ folded' = Append(folded, r)
  BY DEF FoldReading
<1>2. folded \in Seq(Readings) /\ ds \in [min : Int, max : Int, rain : Nat] /\ r[1] \in Int
  BY ReadingsAssumption DEF TypeOK
<1>3. Values' = Values \cup {r[1]}
  <2>1. /\ DOMAIN folded' = DOMAIN folded \cup {Len(folded) + 1}
        /\ \A i \in DOMAIN folded : folded'[i] = folded[i]
        /\ folded'[Len(folded) + 1] = r
    BY <1>1, <1>2
  <2>. QED
    BY <2>1 DEF Values
<1>4. Values \subseteq Int
  BY <1>2, ReadingsAssumption DEF Values
<1>5. /\ ds'.min = IF r[1] < ds.min \/ (ds.min = 0 /\ r[1] > 0) THEN r[1] ELSE ds.min
      /\ ds'.max = IF r[1] > ds.max THEN r[1] ELSE ds.max
      /\ ds'.rain = ds.rain + r[2]
  BY <1>1 DEF UpdateSummary
<1>6. ds'.rain = Rain(folded', DOMAIN folded')
  <2>1. ds.rain = Rain(folded, DOMAIN folded)
    BY RainfallIsRain DEF ExactInv
  <2>. QED
    BY <1>1, <1>2, <1>5, <2>1, RainAppend
<1>7. ds'.max \in Values' \cup {0} /\ \A v \in Values' \cup {0} : v <= ds'.max
  <2>1. ds.max \in Values \cup {0} /\ \A v \in Values \cup {0} : v <= ds.max
    BY DEF ExactInv
  <2>. QED
    BY <1>2, <1>3, <1>4, <1>5, <2>1
<1>8. (\A v \in Values' : v >= 0) => ds'.min >= 0
  <2>1. (\A v \in Values : v >= 0) => ds.min >= 0
    BY DEF ExactInv
  <2>. QED
    BY <1>2, <1>3, <1>4, <1>5, <2>1
<1>9. (\A v \in Values' : v > 0) \/ (\E v \in Values' : v < 0)
         => ds'.min \in Values' /\ \A v \in Values' : ds'.min <= v
  <2>1. CASE Values = {}
    <3>1. ds.min = 0
      BY <2>1 DEF ExactInv
    <3>. QED
      BY <1>2, <1>3, <1>5, <2>1, <3>1
  <2>2. CASE Values # {} /\ ((\A v \in Values : v > 0) \/ (\E v \in Values : v < 0))
    <3>1. ds.min \in Values /\ \A v \in Values : ds.min <= v
      BY <2>2 DEF ExactInv
    <3>. QED
      BY <1>2, <1>3, <1>4, <1>5, <2>2, <3>1
  <2>3. CASE (\E v \in Values : ~(v > 0)) /\ ~\E v \in Values : v < 0
    <3>1. (\A v \in Values : v >= 0) /\ ds.min >= 0
      BY <1>4, <2>3 DEF ExactInv
    <3>. QED
      BY <1>2, <1>3, <1>4, <1>5, <2>3, <3>1
  <2>. QED
    BY <2>1, <2>2, <2>3
<1>. QED
  BY <1>3, <1>6, <1>7, <1>8, <1>9, RainfallIsRain DEF ExactInv

(* Max and Min are those of the library. *)
LEMMA ExactSuffices ==
  ASSUME TypeOK, ExactInv
  PROVE  SummaryIsExact
<1>1. Values \subseteq Int
  BY ReadingsAssumption DEF TypeOK, Values
<1>2. ds.max = Max(Values \cup {0})
  <2>1. ds.max \in Values \cup {0} /\ \A v \in Values \cup {0} : v <= ds.max
    BY DEF ExactInv
  <2>2. Values \cup {0} \in SUBSET Int
    BY <1>1
  <2>. QED
    BY <2>1, <2>2, MaxFact
<1>3. ASSUME ds.min \in Values, \A v \in Values : ds.min <= v
      PROVE  ds.min = Min(Values)
  BY <1>1, <1>3, MinFact
<1>. QED
  BY <1>2, <1>3 DEF ExactInv, SummaryIsExact

-----------------------------------------------------------------------------
(* The initial state. *)

(* Nothing has been read yet. *)
LEMMA InitInvariant ==
  Init => IInv
<1>. SUFFICES ASSUME Init
     PROVE  IInv
  OBVIOUS
<1>1. time \in 0..3 /\ time \in Nat
  BY DEF Init
<1>2. TypeOK
  <2>1. 3 <= 4 * MaxDays - 1
    BY BoundsFacts
  <2>2. ds \in [min : Int, max : Int, rain : Nat]
    BY DEF Init, EmptySummary
  <2>3. dailySummary = <<>> /\ folded = <<>> /\ nights = <<>>
    BY DEF Init
  <2>4. time \in 0 .. 4 * MaxDays - 1 /\ reads \subseteq 0..time
    BY <1>1, <2>1, BoundsFacts DEF Init
  <2>5. \A S : <<>> \in Seq(S)
    OBVIOUS
  <2>6. pc = "poll" /\ isSummaryDone = FALSE /\ count \in 0..MaxReadings /\ boots \in 1..MaxBoots
    BY BoundsFacts DEF Init
  <2>. QED
    BY <2>2, <2>3, <2>4, <2>5, <2>6 DEF TypeOK
<1>3. FlagInv
  BY DEF Init, FlagInv
<1>4. OneSummaryPerNight /\ NightSkippedOnlyAsleep
  BY DEF Init, OneSummaryPerNight, NightSkippedOnlyAsleep
<1>5. pc # "dead"
  BY DEF Init
<1>6. ExactInv
  BY EmptyIsExact DEF Init
<1>. QED
  BY <1>2, <1>3, <1>4, <1>5, <1>6 DEF IInv

-----------------------------------------------------------------------------
(* TypeOK. *)

(* updateSummary yields a summary. *)
LEMMA UpdateSummaryType ==
  ASSUME NEW s \in [min : Int, max : Int, rain : Nat], NEW r \in Readings
  PROVE  UpdateSummary(s, r) \in [min : Int, max : Int, rain : Nat]
<1>1. r[1] \in Int /\ r[2] \in Nat
  BY ReadingsAssumption
<1>. QED
  BY <1>1 DEF UpdateSummary

(* A longer day leaves the sequences of dates well typed. *)
LEMMA DatesKept ==
  ASSUME NEW m \in Nat, NEW n \in Nat, m <= n
  PROVE  /\ Seq(0..m) \subseteq Seq(0..n)
         /\ Seq([created : 0..m, min : Int, max : Int, rain : Nat])
              \subseteq Seq([created : 0..n, min : Int, max : Int, rain : Nat])
<1>1. 0..m \subseteq 0..n
  OBVIOUS
<1>3. ASSUME NEW S, NEW T, S \subseteq T
      PROVE  Seq(S) \subseteq Seq(T)
  BY <1>3
<1>2. [created : 0..m, min : Int, max : Int, rain : Nat]
        \subseteq [created : 0..n, min : Int, max : Int, rain : Nat]
  BY <1>1
<1>. QED
  BY <1>1, <1>2, <1>3

(* Every step keeps the types. *)
LEMMA NextType ==
  ASSUME TypeOK, [Next]_vars, pc = "dead" => boots < MaxBoots
  PROVE  TypeOK'
<1>. USE BoundsFacts
<1>1. CASE FoldReading
  <2>1. PICK r \in Readings : ds' = UpdateSummary(ds, r) /\ folded' = Append(folded, r)
    BY <1>1 DEF FoldReading
  <2>2. ds' \in [min : Int, max : Int, rain : Nat]
    BY <2>1, UpdateSummaryType DEF TypeOK
  <2>3. folded' \in Seq(Readings)
    BY <2>1 DEF TypeOK
  <2>. QED
    BY <1>1, <2>2, <2>3 DEF FoldReading, TypeOK
<1>2. CASE ReadClock
  <2>1. nights' \in Seq(0..DateOf(time))
    <3>1. DateOf(time) \in 0..DateOf(time)
      BY TypeFacts, TimeFacts
    <3>2. nights' \in {nights, Append(nights, DateOf(time))}
      BY <1>2 DEF ReadClock
    <3>3. nights \in Seq(0..DateOf(time))
      BY DEF TypeOK
    <3>. QED
      BY <3>1, <3>2, <3>3
  <2>2. reads' \subseteq 0..time
    BY <1>2, TypeFacts DEF ReadClock, TypeOK
  <2>3. pc' \in {"poll", "clock", "summary", "dead"} /\ isSummaryDone' \in BOOLEAN
    BY <1>2 DEF ReadClock
  <2>. QED
    BY <1>2, <2>1, <2>2, <2>3 DEF ReadClock, TypeOK
<1>3. CASE InsertSummary
  <2>1. RowOf(DateOf(time), ds) \in [created : 0..DateOf(time), min : Int, max : Int, rain : Nat]
    BY TimeFacts, TypeFacts DEF RowOf, TypeOK
  <2>2. dailySummary' \in Seq([created : 0..DateOf(time), min : Int, max : Int, rain : Nat])
    BY <1>3, <2>1 DEF InsertSummary, TypeOK
  <2>3. ds' \in [min : Int, max : Int, rain : Nat]
    BY <1>3 DEF InsertSummary, EmptySummary
  <2>. QED
    BY <1>3, <2>2, <2>3 DEF InsertSummary, TypeOK
<1>4. CASE Tick
  <2>1. time' \in {time + 1, time + 2} /\ time' \in 0 .. 4 * MaxDays - 1
    <3>1. CASE Shown(time + 1)
      BY <1>4, <3>1, TypeFacts DEF Tick
    <3>2. CASE ~Shown(time + 1)
      <4>1. time + 1 = 4 * DateOf(time + 1) + 1 /\ DateOf(time + 1) \in Nat
        BY <3>2, TypeFacts, TimeFacts DEF Shown
      <4>. QED
        BY <1>4, <3>2, <4>1, TypeFacts DEF Tick
    <3>. QED
      BY <3>1, <3>2
  <2>2. DateOf(time) \in Nat /\ DateOf(time') \in Nat /\ DateOf(time) <= DateOf(time')
    <3>1. time \in Nat /\ time' \in Nat /\ time <= time'
      BY <2>1, TypeFacts
    <3>. QED
      BY <3>1, TimeFacts, DatesAreMonotonic
  <2>3. reads \subseteq 0..time'
    BY <2>1, TypeFacts
  <2>. QED
    BY <1>4, <2>1, <2>2, <2>3, DatesKept DEF Tick, TypeOK, local, history
<1>5. CASE Die
  BY <1>5 DEF Die, TypeOK, history
<1>6. CASE Boot
  <2>1. ds' \in [min : Int, max : Int, rain : Nat]
    BY <1>6 DEF Boot, EmptySummary
  <2>2. folded' = <<>> /\ nights' = <<>> /\ reads' = {}
    BY <1>6 DEF Boot
  <2>3. boots' \in 1..MaxBoots
    BY <1>6 DEF Boot, TypeOK
  <2>4. \A S : <<>> \in Seq(S)
    OBVIOUS
  <2>5. pc' = "poll" /\ isSummaryDone' = FALSE /\ UNCHANGED <<time, dailySummary, count>>
    BY <1>6 DEF Boot
  <2>. QED
    BY <2>1, <2>2, <2>3, <2>4, <2>5 DEF TypeOK
<1>7. CASE UNCHANGED vars
  BY <1>7 DEF vars, local, history, TypeOK
<1>. QED
  BY <1>1, <1>2, <1>3, <1>4, <1>5, <1>6, <1>7 DEF Next, DbStep

-----------------------------------------------------------------------------
(* The invariant of the flag and of the nights. *)

(* The part of IInv about the nights that have their summary. *)
NightsInv == FlagInv /\ OneSummaryPerNight /\ NightSkippedOnlyAsleep

(* Steps that read no clock and finish no summary leave the nights alone. *)
LEMMA NightsKept ==
  ASSUME NightsInv, UNCHANGED <<nights, reads>>
  PROVE  OneSummaryPerNight' /\ NightSkippedOnlyAsleep'
<1>1. OneSummaryPerNight'
  BY DEF NightsInv, OneSummaryPerNight
<1>2. NightSkippedOnlyAsleep'
  BY DEF NightsInv, NightSkippedOnlyAsleep, Summarised
<1>. QED
  BY <1>1, <1>2

(* What Append does to the nights. *)
LEMMA AppendNight ==
  ASSUME NEW q \in Seq(Nat), NEW d \in Nat
  PROVE  /\ Append(q, d) \in Seq(Nat) /\ Append(q, d) # <<>>
         /\ DOMAIN Append(q, d) = 1..Len(q) + 1 /\ Len(q) \in Nat
         /\ Len(Append(q, d)) = Len(q) + 1
         /\ \A i \in 1..Len(q) : Append(q, d)[i] = q[i]
         /\ Append(q, d)[Len(q) + 1] = d
OBVIOUS

(* No night is later than the last. *)
LEMMA LastNightIsLast ==
  ASSUME TypeOK, OneSummaryPerNight, nights # <<>>
  PROVE  /\ LastNight \in Nat /\ LastNight \in Summarised
         /\ \A i \in DOMAIN nights : nights[i] <= LastNight
<1>1. nights \in Seq(Nat) /\ Len(nights) \in DOMAIN nights
  BY TypeFacts
<1>2. LastNight \in Nat /\ LastNight \in Summarised
  BY <1>1 DEF LastNight, Summarised
<1>3. ASSUME NEW i \in DOMAIN nights
      PROVE  nights[i] <= LastNight
  <2>1. i \in 1..Len(nights) /\ nights[i] \in Nat
    BY <1>1
  <2>2. CASE i = Len(nights)
    BY <1>2, <2>2 DEF LastNight
  <2>3. CASE i < Len(nights)
    BY <1>1, <1>2, <2>1, <2>3 DEF LastNight, OneSummaryPerNight
  <2>. QED
    BY <1>1, <2>1, <2>2, <2>3
<1>. QED
  BY <1>2, <1>3

(* 23:59, and no summary yet: the night that is written now is a new one. *)
LEMMA WriteKeepsNights ==
  ASSUME TypeOK, NightsInv, ReadClock, At2359(time), ~isSummaryDone
  PROVE  NightsInv'
<1>. USE DEF NightsInv
<1>1. time \in Nat /\ nights \in Seq(Nat) /\ reads \subseteq Nat /\ \A u \in reads : u <= time
  BY TypeFacts
<1>2. DateOf(time) \in Nat /\ time = 4 * DateOf(time) + 3
  BY <1>1, TimeFacts DEF At2359
<1>3. /\ pc' = "summary" /\ time' = time /\ reads' = reads \cup {time}
      /\ nights' = Append(nights, DateOf(time))
  BY DEF ReadClock, At2359
<1>4. LastNight' = DateOf(time) /\ nights' # <<>>
  BY <1>1, <1>2, <1>3, AppendNight DEF LastNight
<1>5. FlagInv'
  <2>1. AsleepSince(DateOf(time))'
    <3>1. ASSUME NEW u \in reads'
          PROVE  DateOf(u) <= DateOf(time)
      <4>1. u \in Nat /\ u <= time
        BY <1>1, <1>3
      <4>. QED
        BY <1>1, <4>1, DatesAreMonotonic
    <3>. QED
      BY <1>3, <3>1 DEF AsleepSince
  <2>. QED
    BY <1>2, <1>3, <1>4, <2>1 DEF FlagInv
<1>6. OneSummaryPerNight'
  <2>1. ASSUME NEW i \in 1..Len(nights)
        PROVE  nights[i] < DateOf(time)
    <3>1. nights # <<>> /\ LastNight < DateOf(time)
      BY <1>1 DEF FlagInv, ReadClock
    <3>. QED
      BY <1>1, <1>2, <3>1, LastNightIsLast
  <2>2. ASSUME NEW i \in 1..Len(nights), NEW j \in 1..Len(nights), i < j
        PROVE  nights[i] < nights[j]
    BY <1>1, <2>2 DEF OneSummaryPerNight
  <2>. QED
    BY <1>1, <1>2, <1>3, <2>1, <2>2, AppendNight DEF OneSummaryPerNight
<1>7. NightSkippedOnlyAsleep'
  <2>1. Summarised \subseteq Summarised'
    <3>1. ASSUME NEW i \in DOMAIN nights
          PROVE  i \in DOMAIN nights' /\ nights'[i] = nights[i]
      BY <1>1, <1>2, <1>3, AppendNight
    <3>. QED
      BY <3>1 DEF Summarised
  <2>2. ASSUME NEW t \in reads', At2359(t), DateOf(t) \notin Summarised'
        PROVE  \E n \in Summarised' :
                 /\ n < DateOf(t)
                 /\ \A u \in reads' : ~(In01xx(u) /\ DateOf(u) \in n + 1 .. DateOf(t))
    <3>1. t \in reads /\ DateOf(t) \notin Summarised
      <4>1. Len(nights) + 1 \in DOMAIN nights' /\ nights'[Len(nights) + 1] = DateOf(time)
        BY <1>1, <1>2, <1>3, AppendNight
      <4>2. DateOf(time) \in Summarised'
        BY <4>1 DEF Summarised
      <4>. QED
        BY <1>3, <2>1, <2>2, <4>2
    <3>2. PICK n \in Summarised :
            /\ n < DateOf(t)
            /\ \A u \in reads : ~(In01xx(u) /\ DateOf(u) \in n + 1 .. DateOf(t))
      BY <2>2, <3>1 DEF NightSkippedOnlyAsleep
    <3>3. ~In01xx(time)
      BY <1>1, <1>2, TimeFacts DEF In01xx
    <3>. QED
      BY <1>3, <2>1, <3>2, <3>3
  <2>. QED
    BY <2>2 DEF NightSkippedOnlyAsleep
<1>. QED
  BY <1>5, <1>6, <1>7

(* Any other time, or a summary written already: 01:xx resets the flag. *)
LEMMA ReadKeepsNights ==
  ASSUME TypeOK, NightsInv, ReadClock, ~At2359(time) \/ isSummaryDone
  PROVE  NightsInv'
<1>. USE DEF NightsInv
<1>1. time \in Nat /\ nights \in Seq(Nat) /\ reads \subseteq Nat /\ \A u \in reads : u <= time
  BY TypeFacts
<1>2. /\ pc' = "poll" /\ time' = time /\ reads' = reads \cup {time} /\ nights' = nights
      /\ isSummaryDone' = (isSummaryDone /\ ~In01xx(time)) /\ pc = "clock"
  BY DEF ReadClock, At2359, In01xx
<1>3. DateOf(time) \in Nat
  BY <1>1, TimeFacts
<1>4. nights # <<>> => LastNight \in Nat /\ LastNight' = LastNight /\ 4 * LastNight + 3 <= time
  BY <1>2, LastNightIsLast DEF LastNight, FlagInv
<1>5. FlagInv'
  <2>1. CASE isSummaryDone /\ In01xx(time)
    <3>1. nights # <<>> /\ time = 4 * DateOf(time) + 1
      BY <1>1, <1>2, <2>1, TimeFacts DEF FlagInv, In01xx
    <3>2. LastNight < DateOf(time)
      BY <1>1, <1>3, <1>4, <3>1
    <3>. QED
      BY <1>2, <1>4, <2>1, <3>2 DEF FlagInv
  <2>2. CASE isSummaryDone /\ ~In01xx(time)
    BY <1>2, <1>4, <2>2 DEF FlagInv, AsleepSince
  <2>3. CASE ~isSummaryDone
    BY <1>2, <1>4, <2>3 DEF FlagInv
  <2>. QED
    BY <2>1, <2>2, <2>3
<1>6. OneSummaryPerNight'
  BY <1>2 DEF OneSummaryPerNight
<1>7. NightSkippedOnlyAsleep'
  <2>1. Summarised' = Summarised
    BY <1>2 DEF Summarised
  <2>2. ASSUME NEW t \in reads', At2359(t), DateOf(t) \notin Summarised
        PROVE  \E n \in Summarised :
                 /\ n < DateOf(t)
                 /\ \A u \in reads' : ~(In01xx(u) /\ DateOf(u) \in n + 1 .. DateOf(t))
    <3>1. t \in Nat /\ t <= time /\ DateOf(t) \in Nat /\ t = 4 * DateOf(t) + 3
      BY <1>1, <1>2, <2>2, TimeFacts DEF At2359
    <3>2. In01xx(time) => DateOf(time) > DateOf(t)
      BY <1>1, <1>3, <3>1, TimeFacts DEF In01xx
    <3>3. CASE t \in reads
      <4>1. PICK n \in Summarised :
              /\ n < DateOf(t)
              /\ \A u \in reads : ~(In01xx(u) /\ DateOf(u) \in n + 1 .. DateOf(t))
        BY <2>2, <3>3 DEF NightSkippedOnlyAsleep
      <4>2. ~(In01xx(time) /\ DateOf(time) \in n + 1 .. DateOf(t))
        BY <1>3, <3>1, <3>2
      <4>. QED
        BY <1>2, <4>1, <4>2
    <3>4. CASE t = time /\ t \notin reads
      <4>1. nights # <<>> /\ AsleepSince(LastNight) /\ ~In01xx(time)
        BY <1>1, <1>2, <2>2, <3>1, <3>2, <3>4 DEF FlagInv
      <4>2. LastNight \in Summarised /\ LastNight < DateOf(t)
        BY <1>1, <1>4, <2>2, <3>1, <3>4, <4>1, LastNightIsLast
      <4>3. ASSUME NEW u \in reads'
            PROVE  ~(In01xx(u) /\ DateOf(u) \in LastNight + 1 .. DateOf(t))
        <5>1. u \in Nat /\ DateOf(u) \in Nat
          BY <1>1, <1>2, TimeFacts
        <5>2. In01xx(u) => DateOf(u) <= LastNight
          BY <1>2, <4>1 DEF AsleepSince
        <5>. QED
          BY <1>4, <3>1, <4>1, <5>1, <5>2
      <4>. QED
        BY <4>2, <4>3
    <3>. QED
      BY <1>2, <3>3, <3>4
  <2>. QED
    BY <2>1, <2>2 DEF NightSkippedOnlyAsleep
<1>. QED
  BY <1>5, <1>6, <1>7

(* Every step preserves the invariant. *)
LEMMA NextPreserves ==
  IInv /\ [Next]_vars => IInv'
<1>. SUFFICES ASSUME IInv, [Next]_vars
     PROVE  IInv'
  OBVIOUS
<1>. USE DEF NightsInv
<1>1. TypeOK /\ NightsInv /\ (pc = "dead" => boots < MaxBoots)
  BY DEF IInv
<1>2. TypeOK'
  BY <1>1, NextType
<1>3. (pc = "dead" => boots < MaxBoots)'
  BY <1>1 DEF Next, DbStep, FoldReading, ReadClock, InsertSummary, Tick, Die, Boot,
     vars, local, history
<1>4. NightsInv'
  <2>1. CASE FoldReading
    <3>1. FlagInv'
      BY <1>1, <2>1 DEF FoldReading, FlagInv, LastNight, AsleepSince
    <3>. QED
      BY <1>1, <2>1, <3>1, NightsKept DEF FoldReading
  <2>2. CASE ReadClock
    BY <1>1, <2>2, WriteKeepsNights, ReadKeepsNights
  <2>3. CASE InsertSummary
    <3>1. FlagInv'
      BY <1>1, <2>3 DEF InsertSummary, FlagInv, LastNight, AsleepSince
    <3>. QED
      BY <1>1, <2>3, <3>1, NightsKept DEF InsertSummary
  <2>4. CASE Tick
    <3>1. UNCHANGED <<pc, isSummaryDone, nights, reads>>
      BY <2>4 DEF Tick, local, history
    <3>2. time' \in {time + 1, time + 2} /\ time \in Nat
      BY <1>1, <2>4, TypeFacts DEF Tick
    <3>3. nights # <<>> => LastNight \in Nat
      BY <1>1, LastNightIsLast
    <3>4. pc = "summary" => time' <= 4 * LastNight + 4
      <4>1. CASE pc = "summary"
        <5>1. time = 4 * DateOf(time) + 3 /\ DateOf(time) \in Nat
          BY <2>4, <3>2, <4>1, TimeFacts DEF Tick
        <5>2. nights # <<>> /\ 4 * LastNight + 3 <= time /\ time <= 4 * LastNight + 4
          BY <1>1, <4>1 DEF FlagInv
        <5>3. time = 4 * LastNight + 3
          BY <3>2, <3>3, <5>1, <5>2
        <5>4. time' = time + 1
          <6>1. time + 1 = 4 * (LastNight + 1)
            BY <3>3, <5>2, <5>3
          <6>2. PeriodOf(time + 1) # "01:xx"
            <7>1. \A d \in Nat : 4 * (LastNight + 1) # 4 * d + 1
              BY <3>3, <5>2
            <7>2. time + 1 \in Nat
              BY <3>2
            <7>. QED
              BY <6>1, <7>1, <7>2, TimeFacts
          <6>. QED
            BY <2>4, <6>2 DEF Tick, Shown
        <5>. QED
          BY <3>3, <5>2, <5>3, <5>4
      <4>. QED
        BY <4>1
    <3>5. DateOf(time) \in Nat /\ DateOf(time') \in Nat /\ DateOf(time) <= DateOf(time')
      BY <3>2, TimeFacts, DatesAreMonotonic
    <3>6. nights # <<>> => LastNight' = LastNight
      BY <3>1 DEF LastNight
    <3>7. FlagInv'
      BY <1>1, <3>1, <3>2, <3>3, <3>4, <3>5, <3>6 DEF FlagInv, AsleepSince
    <3>. QED
      BY <1>1, <3>1, <3>7, NightsKept
  <2>5. CASE Die
    <3>1. FlagInv'
      BY <1>1, <2>5 DEF Die, history, FlagInv, LastNight
    <3>. QED
      BY <1>1, <2>5, <3>1, NightsKept DEF Die, history
  <2>6. CASE Boot
    BY <2>6 DEF Boot, FlagInv, OneSummaryPerNight, NightSkippedOnlyAsleep
  <2>7. CASE UNCHANGED vars
    <3>1. FlagInv'
      BY <1>1, <2>7 DEF vars, local, history, FlagInv, LastNight, AsleepSince
    <3>. QED
      BY <1>1, <2>7, <3>1, NightsKept DEF vars, history
  <2>. QED
    BY <2>1, <2>2, <2>3, <2>4, <2>5, <2>6, <2>7 DEF Next, DbStep
<1>5. ExactInv'
  <2>1. CASE FoldReading
    BY <1>1, <2>1, FoldKeepsExact DEF IInv
  <2>2. CASE InsertSummary \/ Boot
    BY <2>2, EmptiedIsExact DEF InsertSummary, Boot
  <2>3. CASE UNCHANGED <<ds, folded>>
    <3>1. Values' = Values
      BY <2>3 DEF Values
    <3>2. ExactInv
      BY DEF IInv
    <3>. QED
      BY <2>3, <3>1, <3>2 DEF ExactInv
  <2>. QED
    BY <2>1, <2>2, <2>3 DEF Next, DbStep, ReadClock, Tick, Die, vars, local, history
<1>. QED
  BY <1>2, <1>3, <1>4, <1>5 DEF IInv

-----------------------------------------------------------------------------
(* The inductive invariant of the daily summary. *)
THEOREM Invariance == Spec => []IInv
BY InitInvariant, NextPreserves, PTL DEF Spec

(* Every variable keeps its type. *)
THEOREM TypeCorrect == Spec => []TypeOK
<1>1. IInv => TypeOK
  BY DEF IInv
<1>. QED
  BY <1>1, Invariance, PTL

(* What ds says of the readings folded into it, however many and in whatever order. *)
THEOREM SummariesAreExact == Spec => []SummaryIsExact
<1>1. IInv => SummaryIsExact
  BY ExactSuffices DEF IInv
<1>. QED
  BY <1>1, Invariance, PTL

(* A run of the process writes at most one summary for a night. *)
THEOREM SummariesAreNightly == Spec => []OneSummaryPerNight
<1>1. IInv => OneSummaryPerNight
  BY DEF IInv
<1>. QED
  BY <1>1, Invariance, PTL

(* A night is skipped only if no reading came in an hour 1 since an earlier summary. *)
THEOREM SkippingIsExplained == Spec => []NightSkippedOnlyAsleep
<1>1. IInv => NightSkippedOnlyAsleep
  BY DEF IInv
<1>. QED
  BY <1>1, Invariance, PTL
=============================================================================
