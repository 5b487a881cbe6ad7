----------------------------- MODULE RiskProofs -----------------------------
(* What is added up over a set: the profit, and its peak, of RiskMonitor; the   *)
(* exposure of Exposure; the nets of Greeks; and the equity of Backtester, for  *)
(* any keys, callers, signals and histories.                                    *)
EXTENDS RiskMonitor, Exposure, Greeks, Backtester, FiniteSetTheorems, WellFoundedInduction,
        TLAPS

-----------------------------------------------------------------------------
(* Sums over finite sets. Induction is by a least counterexample.               *)
\* g[T] adds up f over T, for every T of D, in the order in which CHOOSE picks.
Picked(T) == CHOOSE x \in T : TRUE
AddsUp(f, g, T) == IF T = {} THEN 0 ELSE f[Picked(T)] + g[T \ {Picked(T)}]
Adding(f, D) == CHOOSE g : g = [T \in D |-> AddsUp(f, g, T)]

LEMMA PickedIn == \A T : T # {} => Picked(T) \in T
  BY DEF Picked

LEMMA SumIsAdding ==
    ASSUME NEW f, NEW S
    PROVE  SumFunctionOnSet(f, S) = Adding(f, SUBSET S)[S]
  BY DEF SumFunctionOnSet, FoldFunctionOnSet, MapThenFoldSet, Adding, AddsUp, Picked

LEMMA LeastNumber ==
    ASSUME NEW B \in SUBSET Nat, B # {}
    PROVE  \E n \in B : \A m \in B : n <= m
<1>1. IsWellFoundedOn(OpToRel(<, Nat), Nat)
  BY NatLessThanWellFounded
<1>2. PICK n \in B : \A m \in B : <<m, n>> \notin OpToRel(<, Nat)
  <2> DEFINE R == OpToRel(<, Nat)
  <2> HIDE DEF R
  <2>1. IsWellFoundedOn(R, Nat)
    BY <1>1 DEF R
  <2>2. \E n \in B : \A m \in B : ~ (<<m, n>> \in R)
    BY <2>1, WFMin
  <2>3. QED
    BY <2>2 DEF R
<1>3. \A m \in B : ~ (m < n)
  BY <1>2 DEF OpToRel
<1>4. QED
  BY <1>3

LEMMA LeastPart ==
    ASSUME NEW S, IsFiniteSet(S), NEW B \in SUBSET (SUBSET S), B # {}
    PROVE  \E T \in B : \A U \in B : U \subseteq T => U = T
<1> DEFINE Sizes == {Cardinality(T) : T \in B}
<1>1. \A T \in B : IsFiniteSet(T) /\ Cardinality(T) \in Nat
  BY FS_Subset, FS_CardinalityType
<1>2. PICK n \in Sizes : \A m \in Sizes : n <= m
  <2>1. Sizes \in SUBSET Nat /\ Sizes # {}
    BY <1>1
  <2>2. QED
    BY <2>1, LeastNumber
<1>3. PICK T \in B : Cardinality(T) = n
  OBVIOUS
<1>4. ASSUME NEW U \in B, U \subseteq T PROVE U = T
  <2>1. Cardinality(T) <= Cardinality(U)
    BY <1>2, <1>3
  <2>2. Cardinality(U) <= Cardinality(T)
    BY <1>1, <1>4, FS_Subset
  <2>3. Cardinality(U) = Cardinality(T)
    BY <2>1, <2>2, <1>1
  <2>4. QED
    BY <2>3, <1>1, <1>4, FS_Subset
<1>5. QED
  BY <1>4

\* The parts of S with at most n elements.
Parts(S, n) == {T \in SUBSET S : Cardinality(T) <= n}

LEMMA AddingExists ==
    ASSUME NEW f, NEW S, IsFiniteSet(S)
    PROVE  \A T \in SUBSET S : Adding(f, SUBSET S)[T] = AddsUp(f, Adding(f, SUBSET S), T)
<1> DEFINE Has(n) == \E g : g = [T \in Parts(S, n) |-> AddsUp(f, g, T)]
           Lacks == {n \in Nat : ~Has(n)}
<1>1. \A T \in SUBSET S : IsFiniteSet(T) /\ Cardinality(T) \in Nat /\ Cardinality(T) <= Cardinality(S)
  BY FS_Subset, FS_CardinalityType
<1>2. Has(0)
  <2> DEFINE g == [T \in Parts(S, 0) |-> 0]
  <2>1. \A T \in Parts(S, 0) : T = {}
    BY <1>1, FS_EmptySet DEF Parts
  <2>2. g = [T \in Parts(S, 0) |-> AddsUp(f, g, T)]
    BY <2>1 DEF AddsUp
  <2>3. QED
    BY <2>2
<1>3. ASSUME NEW n \in Nat, Has(n) PROVE Has(n + 1)
  <2>1. PICK h : h = [T \in Parts(S, n) |-> AddsUp(f, h, T)]
    BY <1>3
  <2> DEFINE g == [T \in Parts(S, n + 1) |-> AddsUp(f, h, T)]
  <2>2. ASSUME NEW T \in Parts(S, n + 1), T # {}
        PROVE  T \ {Picked(T)} \in Parts(S, n) /\ T \ {Picked(T)} \in Parts(S, n + 1)
    <3>1. Cardinality(T \ {Picked(T)}) = Cardinality(T) - 1
      BY <1>1, <2>2, PickedIn, FS_RemoveElement DEF Parts
    <3>2. QED
      BY <3>1, <1>1 DEF Parts
  <2>3. \A T \in Parts(S, n + 1) : T \in Parts(S, n) => g[T] = h[T]
    BY <2>1
  <2>4. \A T \in Parts(S, n + 1) : AddsUp(f, h, T) = AddsUp(f, g, T)
    BY <2>2, <2>3 DEF AddsUp
  <2>5. g = [T \in Parts(S, n + 1) |-> AddsUp(f, g, T)]
    BY <2>4
  <2>6. QED
    BY <2>5
<1>4. Lacks = {}
  <2>1. SUFFICES ASSUME Lacks # {} PROVE FALSE
    OBVIOUS
  <2>2. PICK n \in Lacks : \A m \in Lacks : n <= m
    BY <2>1, LeastNumber
  <2> HIDE DEF Has
  <2>3. n # 0 /\ n - 1 \in Nat /\ ~(n <= n - 1)
    BY <1>2, <2>2
  <2>4. Has(n - 1)
    BY <2>2, <2>3
  <2>5. Has(n - 1 + 1)
    BY <1>3, <2>3, <2>4
  <2>6. n - 1 + 1 = n
    BY <2>2
  <2>7. QED
    BY <2>2, <2>5, <2>6
<1>5. Parts(S, Cardinality(S)) = SUBSET S
  BY <1>1 DEF Parts
<1>6. Has(Cardinality(S))
  <2>1. Cardinality(S) \in Nat
    BY <1>1
  <2> HIDE DEF Has
  <2>2. QED
    BY <2>1, <1>4
<1>7. \E g : g = [T \in SUBSET S |-> AddsUp(f, g, T)]
  BY <1>5, <1>6
<1>8. PICK g : g = Adding(f, SUBSET S)
  OBVIOUS
<1>9. g = [T \in SUBSET S |-> AddsUp(f, g, T)]
  BY <1>7, <1>8, Zenon DEF Adding
<1>10. \A T \in SUBSET S : g[T] = AddsUp(f, g, T)
  BY <1>9
<1>11. QED
  BY <1>8, <1>10

\* The sum of a part is the same whatever set it is a part of.
LEMMA AddingAgrees ==
    ASSUME NEW f, NEW S, IsFiniteSet(S), NEW T \in SUBSET S
    PROVE  Adding(f, SUBSET S)[T] = SumFunctionOnSet(f, T)
<1> DEFINE g == Adding(f, SUBSET S)
           h == Adding(f, SUBSET T)
           Differ == {U \in SUBSET T : g[U] # h[U]}
<1>0. IsFiniteSet(T)
  BY FS_Subset
<1>1. /\ \A U \in SUBSET S : g[U] = AddsUp(f, g, U)
      /\ \A U \in SUBSET T : h[U] = AddsUp(f, h, U)
  BY AddingExists, <1>0
<1> HIDE DEF g, h
<1>2. Differ = {}
  <2>1. SUFFICES ASSUME Differ # {} PROVE FALSE
    OBVIOUS
  <2>2. PICK U \in Differ : \A V \in Differ : V \subseteq U => V = U
    <3>1. Differ \in SUBSET (SUBSET T)
      OBVIOUS
    <3> HIDE DEF Differ
    <3>2. QED
      BY <3>1, <2>1, <1>0, LeastPart
  <2>3. CASE U = {}
    BY <2>2, <2>3, <1>1 DEF AddsUp
  <2>4. CASE U # {}
    <3>1. g[U \ {Picked(U)}] = h[U \ {Picked(U)}]
      BY <2>2, <2>4, PickedIn
    <3>2. QED
      BY <3>1, <2>2, <2>4, <1>1 DEF AddsUp
  <2>5. QED
    BY <2>3, <2>4
<1>3. g[T] = h[T]
  BY <1>2
<1>4. QED
  BY <1>3, SumIsAdding DEF g, h

LEMMA SumOfNone == ASSUME NEW f PROVE SumFunctionOnSet(f, {}) = 0
<1>1. IsFiniteSet({})
  BY FS_EmptySet
<1>2. Adding(f, SUBSET {})[{}] = AddsUp(f, Adding(f, SUBSET {}), {})
  BY <1>1, AddingExists
<1>3. Adding(f, SUBSET {})[{}] = 0
  BY <1>2 DEF AddsUp
<1>4. QED
  BY <1>3, SumIsAdding

LEMMA SumOfSome ==
    ASSUME NEW f, NEW S, IsFiniteSet(S), S # {}
    PROVE  SumFunctionOnSet(f, S) = f[Picked(S)] + SumFunctionOnSet(f, S \ {Picked(S)})
<1> DEFINE g == Adding(f, SUBSET S)
<1>1. g[S] = AddsUp(f, g, S)
  BY AddingExists
<1>2. SumFunctionOnSet(f, S) = g[S]
  BY SumIsAdding
<1>3. SumFunctionOnSet(f, S \ {Picked(S)}) = g[S \ {Picked(S)}]
  BY AddingAgrees
<1> HIDE DEF g
<1>4. g[S] = f[Picked(S)] + g[S \ {Picked(S)}]
  BY <1>1 DEF AddsUp
<1>5. QED
  BY <1>2, <1>3, <1>4

LEMMA SumType ==
    ASSUME NEW S, IsFiniteSet(S), NEW f, \A x \in S : f[x] \in Int
    PROVE  SumFunctionOnSet(f, S) \in Int
<1> DEFINE B == {T \in SUBSET S : SumFunctionOnSet(f, T) \notin Int}
<1>1. SUFFICES ASSUME B # {} PROVE FALSE
  OBVIOUS
<1>2. PICK T \in B : \A U \in B : U \subseteq T => U = T
  <2>1. B \in SUBSET (SUBSET S)
    OBVIOUS
  <2> HIDE DEF B
  <2>2. QED
    BY <2>1, <1>1, LeastPart
<1>3. T # {}
  <2>1. SumFunctionOnSet(f, {}) \in Int
    BY SumOfNone
  <2>2. QED
    BY <1>2, <2>1
<1>4. Picked(T) \in T /\ T \ {Picked(T)} \notin B
  BY <1>2, <1>3, PickedIn
<1>5. SumFunctionOnSet(f, T \ {Picked(T)}) \in Int /\ f[Picked(T)] \in Int /\ IsFiniteSet(T)
  BY <1>2, <1>4, FS_Subset
<1>6. SumFunctionOnSet(f, T) \in Int
  BY <1>3, <1>5, SumOfSome
<1>7. QED
  BY <1>2, <1>6

\* One more summand, whichever CHOOSE picks first.
LEMMA SumOfOneMore ==
    ASSUME NEW S, IsFiniteSet(S), NEW f, \A y \in S : f[y] \in Int, NEW x \in S
    PROVE  SumFunctionOnSet(f, S) = f[x] + SumFunctionOnSet(f, S \ {x})
<1> DEFINE Sum(T) == SumFunctionOnSet(f, T)
           B == {T \in SUBSET S : \E y \in T : Sum(T) # f[y] + Sum(T \ {y})}
<1>1. SUFFICES ASSUME B # {} PROVE FALSE
  <2>1. x \in S /\ S \in SUBSET S
    OBVIOUS
  <2>2. QED
    BY <2>1
<1>2. PICK T \in B : \A U \in B : U \subseteq T => U = T
  <2>1. B \in SUBSET (SUBSET S)
    OBVIOUS
  <2> HIDE DEF B
  <2>2. QED
    BY <2>1, <1>1, LeastPart
<1>3. PICK y \in T : Sum(T) # f[y] + Sum(T \ {y})
  BY <1>2
<1> DEFINE p == Picked(T)
<1>4. p \in T /\ T \subseteq S
  BY <1>2, <1>3, PickedIn
<1>5. Sum(T) = f[p] + Sum(T \ {p})
  <2>1. IsFiniteSet(T)
    BY <1>4, FS_Subset
  <2>2. QED
    BY <2>1, <1>4, SumOfSome
<1>6. p # y
  BY <1>3, <1>5
<1> HIDE DEF p, Sum
<1>7. /\ Sum(T \ {p}) = f[y] + Sum((T \ {p}) \ {y})
      /\ Sum(T \ {y}) = f[p] + Sum((T \ {y}) \ {p})
  <2>1. ASSUME NEW z \in T PROVE T \ {z} \in SUBSET S /\ T \ {z} \notin B
    BY <1>2, <1>4
  <2>2. \A z \in T : \A w \in T \ {z} : Sum(T \ {z}) = f[w] + Sum((T \ {z}) \ {w})
    BY <2>1
  <2>3. QED
    BY <2>2, <1>3, <1>4, <1>6
<1>8. (T \ {p}) \ {y} = (T \ {y}) \ {p}
  OBVIOUS
<1>9. \A U \in SUBSET T : Sum(U) \in Int
  <2>1. ASSUME NEW U \in SUBSET T PROVE IsFiniteSet(U) /\ \A z \in U : f[z] \in Int
    BY <1>4, FS_Subset
  <2>2. QED
    BY <2>1, SumType DEF Sum
<1>10. f[p] \in Int /\ f[y] \in Int
  BY <1>4
<1>11. PICK rest \in Int : rest = Sum((T \ {p}) \ {y})
  BY <1>9
<1>12. Sum(T) = f[p] + (f[y] + rest) /\ Sum(T \ {y}) = f[p] + rest
  BY <1>5, <1>7, <1>8, <1>11
<1>13. Sum(T) = f[y] + Sum(T \ {y})
  <2>1. f[p] + (f[y] + rest) = f[y] + (f[p] + rest)
    BY <1>10
  <2>2. QED
    BY <2>1, <1>12
<1>14. QED
  BY <1>3, <1>13

\* The sum looks at its summands only.
LEMMA SumOfSame ==
    ASSUME NEW S, IsFiniteSet(S), NEW f, NEW g, \A x \in S : f[x] \in Int /\ g[x] = f[x]
    PROVE  SumFunctionOnSet(g, S) = SumFunctionOnSet(f, S)
<1> DEFINE B == {T \in SUBSET S : SumFunctionOnSet(g, T) # SumFunctionOnSet(f, T)}
<1>1. SUFFICES ASSUME B # {} PROVE FALSE
  OBVIOUS
<1>2. PICK T \in B : \A U \in B : U \subseteq T => U = T
  <2>1. B \in SUBSET (SUBSET S)
    OBVIOUS
  <2> HIDE DEF B
  <2>2. QED
    BY <2>1, <1>1, LeastPart
<1>3. T # {}
  BY <1>2, SumOfNone
<1>4. Picked(T) \in T /\ T \ {Picked(T)} \notin B /\ IsFiniteSet(T)
  BY <1>2, <1>3, PickedIn, FS_Subset
<1>5. SumFunctionOnSet(g, T \ {Picked(T)}) = SumFunctionOnSet(f, T \ {Picked(T)})
  BY <1>2, <1>4
<1>6. SumFunctionOnSet(g, T) = SumFunctionOnSet(f, T)
  BY <1>2, <1>3, <1>4, <1>5, SumOfSome
<1>7. QED
  BY <1>2, <1>6

LEMMA SumOfZeros ==
    ASSUME NEW S, IsFiniteSet(S), NEW f, \A x \in S : f[x] = 0
    PROVE  SumFunctionOnSet(f, S) = 0
<1> DEFINE B == {T \in SUBSET S : SumFunctionOnSet(f, T) # 0}
<1>1. SUFFICES ASSUME B # {} PROVE FALSE
  OBVIOUS
<1>2. PICK T \in B : \A U \in B : U \subseteq T => U = T
  <2>1. B \in SUBSET (SUBSET S)
    OBVIOUS
  <2> HIDE DEF B
  <2>2. QED
    BY <2>1, <1>1, LeastPart
<1>3. T # {}
  BY <1>2, SumOfNone
<1>4. Picked(T) \in T /\ T \ {Picked(T)} \notin B /\ IsFiniteSet(T)
  BY <1>2, <1>3, PickedIn, FS_Subset
<1>5. SumFunctionOnSet(f, T \ {Picked(T)}) = 0 /\ f[Picked(T)] = 0
  BY <1>2, <1>4
<1>6. SumFunctionOnSet(f, T) = 0
  BY <1>3, <1>4, <1>5, SumOfSome
<1>7. QED
  BY <1>2, <1>6

-----------------------------------------------------------------------------
(* RiskMonitor.                                                                 *)
\* What is needed of the types: profits, sums and the peak are integers.
MonitorShape ==
    /\ profit \in [Strategies -> Profits] /\ peak \in Int
    /\ round \in [Tasks -> Rounds]

\* A task about to write, whose peak nobody has replaced, writes a higher one.
Rises ==
    \A t \in Tasks : round[t].pc = "raise" /\ ~round[t].overtaken => peak < Reads(t)

MonitorInv == MonitorShape /\ Rises

LEMMA RoundShapes ==
    /\ Ended \in Rounds /\ Ended.pc = "off"
    /\ Asleep \in Rounds /\ Asleep.pc = "sleep"
    /\ \A loop \in BOOLEAN : Fresh(loop) \in Rounds /\ Fresh(loop).pc = "scan"
    /\ CheckingStrategies \in Rounds /\ CheckingStrategies.pc = "strategies"
<1>1. Ended \in Rounds /\ Ended.pc = "off"
  BY DEF Ended, Rounds, Pcs
<1>2. Asleep \in Rounds /\ Asleep.pc = "sleep"
  BY <1>1 DEF Asleep, Rounds, Pcs
<1>3. \A loop \in BOOLEAN : Fresh(loop) \in Rounds /\ Fresh(loop).pc = "scan"
  BY <1>1 DEF Fresh, Rounds, Pcs
<1>4. CheckingStrategies \in Rounds /\ CheckingStrategies.pc = "strategies"
  BY <1>3 DEF CheckingStrategies, Rounds, Pcs
<1>5. QED
  BY <1>1, <1>2, <1>3, <1>4

LEMMA MonitorInitInv == MonitorInit => MonitorInv
<1> SUFFICES ASSUME MonitorInit PROVE MonitorInv
  OBVIOUS
<1>1. MonitorShape
  BY RoundShapes, RiskAssumption DEF MonitorInit, MonitorShape
<1>2. Rises
  BY RoundShapes DEF MonitorInit, Rises
<1>3. QED
  BY <1>1, <1>2 DEF MonitorInv

\* A step that leaves the peak alone keeps the invariant when the task it moves is
\* not about to write, or has read a lower peak.
LEMMA QuietKeeps ==
    ASSUME MonitorInv, UNCHANGED <<profit, peak>>, NEW t \in Tasks, NEW r \in Rounds, Goes(t, r),
           r.pc = "raise" => r.sum = round[t].sum /\ peak < Reads(t)
    PROVE  MonitorInv'
<1>1. round' \in [Tasks -> Rounds] /\ round'[t] = r
      /\ \A u \in Tasks \ {t} : round'[u] = round[u]
  BY DEF MonitorInv, MonitorShape, Goes
<1>2. MonitorShape'
  BY <1>1 DEF MonitorInv, MonitorShape
<1>3. Rises'
  BY <1>1 DEF MonitorInv, Rises, Reads
<1>4. QED
  BY <1>2, <1>3 DEF MonitorInv

LEMMA VerdictShape ==
    ASSUME NEW t \in Tasks, NEW high
    PROVE  Verdict(t, high) \in Rounds /\ Verdict(t, high).pc \in {"off", "trip", "strategies"}
<1>1. [Fresh(TRUE) EXCEPT !.pc = "trip"] \in Rounds /\ [Fresh(TRUE) EXCEPT !.pc = "trip"].pc = "trip"
  BY RoundShapes DEF Rounds, Pcs
<1>2. QED
  BY <1>1, RoundShapes DEF Verdict

\* None of these steps makes a task one that is about to write.
LEMMA StepsKeep ==
    ASSUME MonitorInv, NEW t \in Tasks,
           \/ StartMonitor(t) \/ DailyDrawdown(t) \/ NextRound(t) \/ Trip(t) \/ MonitorFails(t)
           \/ \E s \in Strategies : CheckStrategy(t, s)
    PROVE  MonitorInv'
<1>1. CASE StartMonitor(t) \/ DailyDrawdown(t)
  <2>1. \E loop \in BOOLEAN : Goes(t, Fresh(loop)) /\ UNCHANGED <<profit, peak>>
    BY <1>1 DEF StartMonitor, DailyDrawdown
  <2>2. QED
    BY <2>1, RoundShapes, QuietKeeps
<1>2. CASE NextRound(t) \/ MonitorFails(t)
  <2>1. \E r \in {Fresh(TRUE), Ended, Asleep} : Goes(t, r) /\ UNCHANGED <<profit, peak>>
    BY <1>2 DEF NextRound, MonitorFails
  <2>2. QED
    BY <2>1, RoundShapes, QuietKeeps
<1>3. CASE Trip(t)
  BY <1>3, RoundShapes, QuietKeeps DEF Trip
<1>4. CASE \E s \in Strategies : CheckStrategy(t, s)
  <2>1. PICK s \in Strategies : CheckStrategy(t, s)
    BY <1>4
  <2> DEFINE left == round[t].left \ {s}
             r == [round[t] EXCEPT !.left = left]
  <2>2. r \in Rounds /\ r.pc = "strategies"
    BY <2>1 DEF CheckStrategy, MonitorInv, MonitorShape, Rounds
  <2>3. (Goes(t, Asleep) \/ Goes(t, r)) /\ UNCHANGED <<profit, peak>>
    BY <2>1 DEF CheckStrategy
  <2>4. QED
    BY <2>2, <2>3, RoundShapes, QuietKeeps
<1>5. QED
  BY <1>1, <1>2, <1>3, <1>4

LEMMA ReadProfitKeeps ==
    ASSUME MonitorInv, NEW t \in Tasks, NEW s \in Strategies, ReadProfit(t, s)
    PROVE  MonitorInv'
<1> DEFINE left == round[t].left \ {s}
           next == IF left = {} THEN "peak" ELSE "scan"
           r == [round[t] EXCEPT !.left = left, !.sum = @ + profit[s], !.pc = next]
<1>1. profit[s] \in Int
  BY RiskAssumption DEF MonitorInv, MonitorShape
<1>2. round[t] \in Rounds
  BY DEF MonitorInv, MonitorShape
<1>3. r \in Rounds /\ r.pc = next
  <2>1. round[t].sum + profit[s] \in Int /\ next \in Pcs /\ left \in SUBSET Strategies
    BY <1>1, <1>2 DEF Rounds, Pcs
  <2>2. QED
    BY <1>2, <2>1 DEF Rounds
<1>4. Goes(t, r) /\ UNCHANGED <<profit, peak>>
  BY DEF ReadProfit
<1>5. QED
  <2>1. next # "raise"
    OBVIOUS
  <2>2. QED
    BY <1>3, <1>4, <2>1, QuietKeeps

LEMMA ReadProfitAgainKeeps ==
    ASSUME MonitorInv, NEW t \in Tasks, NEW s \in Strategies, ReadProfitAgain(t, s)
    PROVE  MonitorInv'
<1> DEFINE r == [round[t] EXCEPT !.sum = @ + profit[s], !.torn = TRUE]
<1>1. profit[s] \in Int
  BY RiskAssumption DEF MonitorInv, MonitorShape
<1>2. round[t] \in Rounds /\ round[t].pc = "scan"
  BY DEF MonitorInv, MonitorShape, ReadProfitAgain
<1>3. r \in Rounds /\ r.pc = "scan"
  <2>1. round[t].sum + profit[s] \in Int /\ TRUE \in BOOLEAN
    BY <1>1, <1>2 DEF Rounds
  <2>2. r \in Rounds
    BY <1>2, <2>1 DEF Rounds
  <2>3. r.pc = round[t].pc
    BY <1>2 DEF Rounds
  <2>4. QED
    BY <1>2, <2>2, <2>3
<1>4. Goes(t, r) /\ UNCHANGED <<profit, peak>>
  BY DEF ReadProfitAgain
<1>5. QED
  BY <1>3, <1>4, QuietKeeps

\* Here the comparison is made that the write relies on.
LEMMA ReadPeakKeeps ==
    ASSUME MonitorInv, NEW t \in Tasks, ReadPeak(t)
    PROVE  MonitorInv'
<1> DEFINE r == [round[t] EXCEPT !.pc = "raise"]
<1>1. round[t] \in Rounds /\ peak \in Int
  BY DEF MonitorInv, MonitorShape
<1>2. r \in Rounds /\ r.sum = round[t].sum
  BY <1>1 DEF Rounds, Pcs
<1>3. Reads(t) \in Int
  BY <1>1, RiskAssumption DEF Reads, Rounds
<1>4. CASE Reads(t) > peak /\ Goes(t, r)
  BY <1>1, <1>2, <1>3, <1>4, QuietKeeps DEF ReadPeak
<1>5. CASE Goes(t, Verdict(t, peak))
  BY <1>5, VerdictShape, QuietKeeps DEF ReadPeak
<1>6. QED
  BY <1>4, <1>5 DEF ReadPeak

\* Every other task that was about to write has been overtaken.
LEMMA RaisePeakKeeps ==
    ASSUME MonitorInv, NEW t \in Tasks, RaisePeak(t)
    PROVE  MonitorInv'
<1> DEFINE over(u) == [round[u] EXCEPT !.overtaken = @ \/ round[u].pc = "raise"]
<1>1. Reads(t) \in Int
  BY RiskAssumption DEF MonitorInv, MonitorShape, Reads, Rounds
<1>2. \A u \in Tasks : /\ over(u) \in Rounds /\ over(u).pc = round[u].pc
                       /\ over(u).overtaken = (round[u].overtaken \/ round[u].pc = "raise")
  BY DEF MonitorInv, MonitorShape, Rounds
<1>3. /\ peak' = Reads(t) /\ profit' = profit
      /\ round' = [u \in Tasks |-> IF u = t THEN Verdict(t, Reads(t)) ELSE over(u)]
  BY DEF RaisePeak
<1>4. MonitorShape'
  BY <1>1, <1>2, <1>3, VerdictShape DEF MonitorInv, MonitorShape
<1>5. Rises'
  BY <1>2, <1>3, VerdictShape DEF Rises
<1>6. QED
  BY <1>4, <1>5 DEF MonitorInv

\* stop ends rounds, and a profit that changes leaves what the tasks have added up.
LEMMA MonitorOthersKeep ==
    ASSUME MonitorInv,
           \/ StopMonitor \/ TurnOff \/ \E s \in Strategies : ResumeStrategy(s)
           \/ \E s \in Strategies, p \in Profits : UpdatePnl(s, p)
    PROVE  MonitorInv'
<1>1. CASE StopMonitor
  <2>1. MonitorShape'
    BY <1>1, RoundShapes DEF StopMonitor, MonitorInv, MonitorShape
  <2>2. Rises'
    BY <1>1, RoundShapes DEF StopMonitor, MonitorInv, Rises, Reads
  <2>3. QED
    BY <2>1, <2>2 DEF MonitorInv
<1>2. CASE TurnOff \/ \E s \in Strategies : ResumeStrategy(s)
  BY <1>2 DEF TurnOff, ResumeStrategy, MonitorInv, MonitorShape, Rises, Reads
<1>3. ASSUME NEW s \in Strategies, NEW p \in Profits, UpdatePnl(s, p) PROVE MonitorInv'
  <2> DEFINE torn(t) ==
                [round[t] EXCEPT !.torn = @ \/ (round[t].pc = "scan" /\ round[t].left # Strategies)]
  <2>1. /\ profit' = [profit EXCEPT ![s] = p] /\ peak' = peak
        /\ round' = [t \in Tasks |-> torn(t)]
    BY <1>3 DEF UpdatePnl
  <2>2. \A t \in Tasks : /\ torn(t) \in Rounds /\ torn(t).pc = round[t].pc
                         /\ torn(t).sum = round[t].sum /\ torn(t).overtaken = round[t].overtaken
    BY DEF MonitorInv, MonitorShape, Rounds
  <2>3. MonitorShape'
    BY <2>1, <2>2 DEF MonitorInv, MonitorShape
  <2>4. Rises'
    BY <2>1, <2>2 DEF MonitorInv, Rises, Reads
  <2>5. QED
    BY <2>3, <2>4 DEF MonitorInv
<1>4. QED
  BY <1>1, <1>2, <1>3

LEMMA MonitorNextKeeps == MonitorInv /\ [MonitorNext]_monitorVars => MonitorInv'
<1> SUFFICES ASSUME MonitorInv, [MonitorNext]_monitorVars PROVE MonitorInv'
  OBVIOUS
<1>1. CASE UNCHANGED monitorVars
  BY <1>1 DEF monitorVars, MonitorInv, MonitorShape, Rises, Reads
<1>2. CASE MonitorNext
  BY <1>2, StepsKeep, ReadProfitKeeps, ReadProfitAgainKeeps, ReadPeakKeeps, RaisePeakKeeps, MonitorOthersKeep
     DEF MonitorNext, RoundStep
<1>3. QED
  BY <1>1, <1>2

\* Only the write of a peak changes it, and it lowers it only when the task has read
\* one that another task replaced before it wrote.
LEMMA FallsOnlyOvertaken ==
    ASSUME MonitorInv, MonitorNext, peak' < peak
    PROVE  \E t \in Tasks : round[t].overtaken /\ round'[t] # round[t]
<1>1. PICK t \in Tasks : RaisePeak(t)
  <2>1. \/ peak' = peak
        \/ \E t \in Tasks : RaisePeak(t)
    BY DEF MonitorNext, RoundStep, StartMonitor, DailyDrawdown, NextRound, Trip, MonitorFails,
           CheckStrategy, ReadProfit, ReadProfitAgain, ReadPeak, StopMonitor, TurnOff,
           ResumeStrategy, UpdatePnl
  <2>2. peak \in Int
    BY DEF MonitorInv, MonitorShape
  <2>3. QED
    BY <2>1, <2>2
<1>2. Reads(t) \in Int /\ peak \in Int
  BY RiskAssumption DEF MonitorInv, MonitorShape, Reads, Rounds
<1>3. peak' = Reads(t) /\ round[t].pc = "raise" /\ round'[t] = Verdict(t, Reads(t))
  BY <1>1 DEF RaisePeak
<1>4. round[t].overtaken
  BY <1>2, <1>3 DEF MonitorInv, Rises
<1>5. round'[t] # round[t]
  BY <1>3, VerdictShape
<1>6. QED
  BY <1>4, <1>5

\* The inductive invariant: who is about to write has compared with the peak there is,
\* or has been overtaken.
THEOREM MonitorInductive == MonitorSpec => []MonitorInv
  BY MonitorInitInv, MonitorNextKeeps, PTL DEF MonitorSpec

\* The peak falls only where two tasks that share it overlap between the read and the
\* write of it (real_time.py:61-65, portfolio.py:82-86), for any number of monitor
\* loops and callers, and whatever fails, is stopped or is started again.
THEOREM PeakOnlyRises == MonitorSpec => PeakNeverFalls
<1>1. MonitorInv /\ [MonitorNext]_monitorVars
        => [peak' < peak => \E t \in Tasks : round[t].overtaken /\ round'[t] # round[t]]_monitorVars
  BY FallsOnlyOvertaken
<1>2. QED
  BY <1>1, MonitorInductive, PTL DEF MonitorSpec, PeakNeverFalls

\* A task that is not torn has added up the profits there are: all of them, when the
\* scan is over, at some moment since.
AddsOneState(t) ==
    ~round[t].torn =>
      /\ round[t].pc = "scan" => round[t].sum = SumFunctionOnSet(profit, Strategies \ round[t].left)
      /\ round[t].pc \in {"peak", "raise"} => Reads(t) \in equities

PeakInv ==
    /\ \A t \in Tasks : AddsOneState(t)
    /\ Equity \in equities /\ PeakWasReached

LEMMA PeakInitInv == MonitorInit => PeakInv
<1> SUFFICES ASSUME MonitorInit PROVE PeakInv
  OBVIOUS
<1>1. Total(profit) = 0
  <2>1. \A s \in Strategies : profit[s] = 0
    BY DEF MonitorInit
  <2>2. QED
    BY <2>1, SumOfZeros, RiskAssumption DEF Total
<1>2. Equity \in equities
  BY <1>1, RiskAssumption DEF MonitorInit, Equity
<1>3. \A t \in Tasks : AddsOneState(t)
  BY RoundShapes DEF MonitorInit, AddsOneState
<1>4. QED
  BY <1>2, <1>3 DEF MonitorInit, PeakInv, PeakWasReached

\* A step that moves one task and leaves the profits and the peak alone.
LEMMA PeakQuiet ==
    ASSUME MonitorInv, PeakInv, UNCHANGED <<profit, peak, equities, tainted>>,
           NEW t \in Tasks, NEW r, Goes(t, r),
           ~r.torn => /\ r.pc = "scan" => r.sum = SumFunctionOnSet(profit, Strategies \ r.left)
                      /\ r.pc \in {"peak", "raise"} => Capital + r.sum \in equities
    PROVE  PeakInv'
<1>1. round'[t] = r /\ \A u \in Tasks \ {t} : round'[u] = round[u]
  BY DEF MonitorInv, MonitorShape, Goes
<1>2. AddsOneState(t)'
  BY <1>1 DEF AddsOneState, Reads
<1>3. \A u \in Tasks \ {t} : AddsOneState(u)'
  BY <1>1 DEF AddsOneState, Reads, PeakInv
<1>4. (Equity \in equities /\ PeakWasReached)'
  BY DEF PeakInv, PeakWasReached, Equity, Total
<1>5. QED
  BY <1>2, <1>3, <1>4 DEF PeakInv

LEMMA NewRounds ==
    /\ Ended.pc = "off" /\ Asleep.pc = "sleep" /\ CheckingStrategies.pc = "strategies"
    /\ \A loop \in BOOLEAN : /\ Fresh(loop).pc = "scan" /\ Fresh(loop).sum = 0
                             /\ Strategies \ Fresh(loop).left = {}
  BY RoundShapes DEF Fresh, Ended

LEMMA PeakStepsKeep ==
    ASSUME MonitorInv, PeakInv, NEW t \in Tasks,
           \/ StartMonitor(t) \/ DailyDrawdown(t) \/ NextRound(t) \/ Trip(t) \/ MonitorFails(t)
           \/ \E s \in Strategies : CheckStrategy(t, s)
    PROVE  PeakInv'
<1>1. UNCHANGED <<profit, peak, equities, tainted>>
  BY DEF StartMonitor, DailyDrawdown, NextRound, Trip, MonitorFails, CheckStrategy, monitorHistory
<1>2. ASSUME NEW loop \in BOOLEAN, Goes(t, Fresh(loop)) PROVE PeakInv'
  BY <1>1, <1>2, NewRounds, SumOfNone, PeakQuiet
<1>3. ASSUME NEW r \in {Ended, Asleep, CheckingStrategies}, Goes(t, r) PROVE PeakInv'
  BY <1>1, <1>3, NewRounds, PeakQuiet
<1>4. CASE StartMonitor(t) \/ DailyDrawdown(t)
  BY <1>2, <1>4 DEF StartMonitor, DailyDrawdown
<1>5. CASE NextRound(t) \/ MonitorFails(t) \/ Trip(t)
  BY <1>2, <1>3, <1>5 DEF NextRound, MonitorFails, Trip
<1>6. ASSUME NEW s \in Strategies, CheckStrategy(t, s) PROVE PeakInv'
  <2> DEFINE left == round[t].left \ {s}
             r == [round[t] EXCEPT !.left = left]
  <2>1. r.pc = "strategies"
    BY <1>6 DEF CheckStrategy, MonitorInv, MonitorShape, Rounds
  <2>2. Goes(t, Asleep) \/ Goes(t, r)
    BY <1>6 DEF CheckStrategy
  <2>3. QED
    BY <1>1, <1>3, <2>1, <2>2, PeakQuiet
<1>7. QED
  BY <1>4, <1>5, <1>6

\* One more profit is added; with the last one the sum is the total.
LEMMA PeakReadProfitKeeps ==
    ASSUME MonitorInv, PeakInv, NEW t \in Tasks, NEW s \in Strategies, ReadProfit(t, s)
    PROVE  PeakInv'
<1> DEFINE left == round[t].left \ {s}
           next == IF left = {} THEN "peak" ELSE "scan"
           r == [round[t] EXCEPT !.left = left, !.sum = @ + profit[s], !.pc = next]
<1>1. /\ round[t] \in Rounds /\ round[t].pc = "scan" /\ s \in round[t].left
      /\ round[t].left \subseteq Strategies /\ round[t].sum \in Int
  BY DEF ReadProfit, MonitorInv, MonitorShape, Rounds
<1>2. r.torn = round[t].torn /\ r.sum = round[t].sum + profit[s] /\ r.left = left /\ r.pc = next
  BY <1>1 DEF Rounds
<1>3. Goes(t, r) /\ UNCHANGED <<profit, peak, equities, tainted>>
  BY DEF ReadProfit, monitorHistory
<1>4. \A x \in Strategies : profit[x] \in Int
  BY RiskAssumption DEF MonitorInv, MonitorShape
<1>5. ASSUME ~round[t].torn PROVE r.sum = SumFunctionOnSet(profit, Strategies \ left)
  <2>1. round[t].sum = SumFunctionOnSet(profit, Strategies \ round[t].left)
    BY <1>1, <1>5 DEF PeakInv, AddsOneState
  <2> DEFINE S == Strategies \ left
  <2>2. IsFiniteSet(S) /\ s \in S /\ S \ {s} = Strategies \ round[t].left
    BY <1>1, FS_Subset, RiskAssumption
  <2>3. SumFunctionOnSet(profit, S) = profit[s] + SumFunctionOnSet(profit, S \ {s})
    <3>1. \A x \in S : profit[x] \in Int
      BY <1>4
    <3> HIDE DEF S
    <3>2. QED
      BY <2>2, <3>1, SumOfOneMore
  <2>4. SumFunctionOnSet(profit, S) = profit[s] + round[t].sum
    BY <2>1, <2>2, <2>3
  <2>5. profit[s] + round[t].sum = r.sum
    BY <1>1, <1>2, <1>4
  <2>6. QED
    BY <2>4, <2>5
<1>6. ASSUME ~round[t].torn, left = {} PROVE Capital + r.sum \in equities
  <2>1. Strategies \ left = Strategies
    BY <1>6
  <2>2. r.sum = Total(profit)
    BY <1>5, <1>6, <2>1 DEF Total
  <2>3. QED
    BY <2>2 DEF PeakInv, Equity
<1> HIDE DEF r
<1>7. QED
  BY <1>2, <1>3, <1>5, <1>6, PeakQuiet

\* A key that is returned twice tears the task.
LEMMA PeakReadAgainKeeps ==
    ASSUME MonitorInv, PeakInv, NEW t \in Tasks, NEW s \in Strategies, ReadProfitAgain(t, s)
    PROVE  PeakInv'
<1> DEFINE r == [round[t] EXCEPT !.sum = @ + profit[s], !.torn = TRUE]
<1>1. round[t] \in Rounds
  BY DEF MonitorInv, MonitorShape
<1>2. r.torn
  BY <1>1 DEF Rounds
<1>3. Goes(t, r) /\ UNCHANGED <<profit, peak, equities, tainted>>
  BY DEF ReadProfitAgain, monitorHistory
<1> HIDE DEF r
<1>4. QED
  BY <1>2, <1>3, PeakQuiet

LEMMA PeakReadPeakKeeps ==
    ASSUME MonitorInv, PeakInv, NEW t \in Tasks, ReadPeak(t)
    PROVE  PeakInv'
<1> DEFINE r == [round[t] EXCEPT !.pc = "raise"]
<1>1. round[t] \in Rounds
  BY DEF MonitorInv, MonitorShape
<1>2. r.pc = "raise" /\ r.sum = round[t].sum /\ r.torn = round[t].torn
  BY <1>1 DEF Rounds
<1>3. UNCHANGED <<profit, peak, equities, tainted>>
  BY DEF ReadPeak, monitorHistory
<1>4. CASE Goes(t, r)
  BY <1>2, <1>3, <1>4, PeakQuiet DEF ReadPeak, PeakInv, AddsOneState, Reads
<1>5. CASE Goes(t, Verdict(t, peak))
  BY <1>3, <1>5, VerdictShape, PeakQuiet
<1>6. QED
  BY <1>4, <1>5 DEF ReadPeak

\* What is written is an equity there was, or the writer is torn.
LEMMA PeakRaiseKeeps ==
    ASSUME MonitorInv, PeakInv, NEW t \in Tasks, RaisePeak(t)
    PROVE  PeakInv'
<1> DEFINE over(u) == [round[u] EXCEPT !.overtaken = @ \/ round[u].pc = "raise"]
<1>1. \A u \in Tasks : /\ over(u).pc = round[u].pc /\ over(u).sum = round[u].sum
                       /\ over(u).torn = round[u].torn /\ over(u).left = round[u].left
  BY DEF MonitorInv, MonitorShape, Rounds
<1>2. /\ peak' = Reads(t) /\ profit' = profit /\ equities' = equities
      /\ tainted' = round[t].torn /\ round[t].pc = "raise"
      /\ round' = [u \in Tasks |-> IF u = t THEN Verdict(t, Reads(t)) ELSE over(u)]
  BY DEF RaisePeak
<1>3. \A u \in Tasks : AddsOneState(u)'
  <2>1. AddsOneState(t)'
    BY <1>2, VerdictShape DEF AddsOneState
  <2>2. ASSUME NEW u \in Tasks \ {t} PROVE AddsOneState(u)'
    <3>1. round'[u] = over(u)
      BY <1>2
    <3>2. AddsOneState(u)
      BY DEF PeakInv
    <3> HIDE DEF over
    <3>3. QED
      BY <1>1, <1>2, <3>1, <3>2 DEF AddsOneState, Reads
  <2>3. QED
    BY <2>1, <2>2
<1>4. PeakWasReached'
  BY <1>2 DEF PeakWasReached, PeakInv, AddsOneState
<1>5. (Equity \in equities)'
  BY <1>2 DEF PeakInv, Equity, Total
<1>6. QED
  BY <1>3, <1>4, <1>5 DEF PeakInv

\* A profit that changes tears the scans that have begun, and gives an equity.
LEMMA PeakUpdateKeeps ==
    ASSUME MonitorInv, PeakInv, NEW s \in Strategies, NEW p \in Profits, UpdatePnl(s, p)
    PROVE  PeakInv'
<1> DEFINE torn(t) ==
              [round[t] EXCEPT !.torn = @ \/ (round[t].pc = "scan" /\ round[t].left # Strategies)]
<1>1. /\ round' = [t \in Tasks |-> torn(t)] /\ peak' = peak /\ tainted' = tainted
      /\ equities' = equities \cup {Capital + Total(profit')}
  BY DEF UpdatePnl
<1>2. \A t \in Tasks :
        /\ torn(t).pc = round[t].pc /\ torn(t).sum = round[t].sum /\ torn(t).left = round[t].left
        /\ torn(t).torn = (round[t].torn \/ (round[t].pc = "scan" /\ round[t].left # Strategies))
  BY DEF MonitorInv, MonitorShape, Rounds
<1>3. ASSUME NEW t \in Tasks PROVE AddsOneState(t)'
  <2>1. round'[t] = torn(t) /\ AddsOneState(t)
    BY <1>1 DEF PeakInv
  <2> HIDE DEF torn
  <2>2. ASSUME ~round'[t].torn, round'[t].pc = "scan"
        PROVE  round'[t].sum = SumFunctionOnSet(profit', Strategies \ round'[t].left)
    <3>1. ~round[t].torn /\ round[t].pc = "scan" /\ round[t].left = Strategies
          /\ round'[t].left = Strategies /\ round'[t].sum = round[t].sum
      BY <1>2, <2>1, <2>2
    <3>2. Strategies \ round[t].left = {} /\ Strategies \ round'[t].left = {}
      BY <3>1
    <3>3. round[t].sum = 0
      BY <2>1, <3>1, <3>2, SumOfNone DEF AddsOneState
    <3>4. SumFunctionOnSet(profit', {}) = 0
      BY SumOfNone
    <3>5. QED
      BY <3>1, <3>2, <3>3, <3>4
  <2>3. ~round'[t].torn /\ round'[t].pc \in {"peak", "raise"} => Reads(t)' \in equities'
    BY <1>1, <1>2, <2>1 DEF AddsOneState, Reads
  <2>4. QED
    BY <2>2, <2>3 DEF AddsOneState
<1>4. (Equity \in equities)'
  BY <1>1 DEF Equity
<1>5. PeakWasReached'
  BY <1>1 DEF PeakInv, PeakWasReached
<1>6. QED
  BY <1>3, <1>4, <1>5 DEF PeakInv

LEMMA PeakNextKeeps == MonitorInv /\ PeakInv /\ [MonitorNext]_monitorVars => PeakInv'
<1> SUFFICES ASSUME MonitorInv, PeakInv, [MonitorNext]_monitorVars PROVE PeakInv'
  OBVIOUS
<1>1. CASE UNCHANGED monitorVars
  BY <1>1 DEF monitorVars, monitorHistory, PeakInv, AddsOneState, Reads, PeakWasReached, Equity, Total
<1>2. CASE StopMonitor
  <2>1. \A t \in Tasks : round'[t] \in {Ended, round[t]}
    BY <1>2 DEF StopMonitor
  <2>2. UNCHANGED <<profit, peak, equities, tainted>>
    BY <1>2 DEF StopMonitor, monitorHistory
  <2>3. \A t \in Tasks : AddsOneState(t)'
    BY <2>1, <2>2, NewRounds DEF PeakInv, AddsOneState, Reads
  <2>4. QED
    BY <2>2, <2>3 DEF PeakInv, PeakWasReached, Equity, Total
<1>3. CASE TurnOff \/ \E s \in Strategies : ResumeStrategy(s)
  <2>1. UNCHANGED <<profit, peak, equities, tainted, round>>
    BY <1>3 DEF TurnOff, ResumeStrategy, monitorHistory
  <2>2. QED
    BY <2>1 DEF PeakInv, AddsOneState, Reads, PeakWasReached, Equity, Total
<1>4. CASE MonitorNext
  BY <1>2, <1>3, <1>4, PeakStepsKeep, PeakReadProfitKeeps, PeakReadAgainKeeps,
     PeakReadPeakKeeps, PeakRaiseKeeps, PeakUpdateKeeps DEF MonitorNext, RoundStep
<1>5. QED
  BY <1>1, <1>4

\* What the monitor loops read is an equity there was at one moment, as long as no
\* profit changes between the first and the last key that they add up, and SCAN returns
\* every key once.
THEOREM SumsInductive == MonitorSpec => []PeakInv
  BY PeakInitInv, PeakNextKeeps, MonitorInductive, PTL DEF MonitorSpec

\* The recorded peak is an equity the portfolio has had (real_time.py:53-65), unless
\* its writer added up profits while one of them changed, or one twice: for any number
\* of strategies, monitor loops and callers of check_daily_drawdown.
THEOREM PeakIsReal == MonitorSpec => []PeakWasReached
<1>1. PeakInv => PeakWasReached
  BY DEF PeakInv
<1>2. QED
  BY <1>1, SumsInductive, PTL

-----------------------------------------------------------------------------
(* Exposure.                                                                    *)
CheckPcs == {"new", "power", "scan", "adv", "limit", "approved", "filled", "rejected", "done"}
Checks == [pc : CheckPcs, left : SUBSET Keys, gross : Int]
Proceeds(s, r) == check' = [check EXCEPT ![s] = r]
OnItsWay(s) == check[s].pc \in {"adv", "limit", "approved", "filled"}
Holdings == [k \in Keys |-> Held(k)]
Values == [s \in Signals |-> Value(s)]

ExposureShape ==
    /\ position \in [Keys -> [qty : Int, price : Nat]]
    /\ check \in [Signals -> Checks]
    /\ booked \subseteq Signals /\ overlap \in [Signals -> SUBSET Signals]
    /\ astray \in BOOLEAN

\* What is booked is done, and so is what overlapped: no signal counts twice.
BookedOnce ==
    \A s \in Signals : (s \in booked => check[s].pc = "done")
                       /\ \A t \in overlap[s] : check[t].pc = "done"

\* A check has read no less than there is, but for what was booked meanwhile; what
\* passed it fits, but for that.
ReadSoFar(s) ==
    check[s].pc = "scan" =>
        SumFunctionOnSet(Holdings, Keys \ check[s].left) <= check[s].gross + Worth(overlap[s])
Fitted(s) == OnItsWay(s) => Gross + Value(s) <= MaxGross + Worth(overlap[s])

ExposureInv ==
    /\ ExposureShape /\ BookedOnce
    /\ astray \/ \A s \in Signals : ReadSoFar(s) /\ Fitted(s)
    /\ ExposureBounded

LEMMA Products ==
    /\ \A a, b, c \in Nat : a <= b => a * c <= b * c
    /\ \A a, b, c \in Nat : b <= c => a * b <= a * c
    /\ \A a, b, c \in Nat : (a + b) * c = a * c + b * c
    /\ \A a, b \in Nat : a * b \in Nat
  OBVIOUS

LEMMA AbsFacts ==
    /\ \A i \in Int : Abs(i) \in Nat
    /\ \A i, j \in Int : Abs(i + j) <= Abs(i) + Abs(j)
    /\ Abs(0) = 0
  BY DEF Abs

LEMMA ValueType == \A s \in Signals : Value(s) \in Nat
<1> SUFFICES ASSUME NEW s \in Signals PROVE Value(s) \in Nat
  OBVIOUS
<1>1. Order[s].qty \in Int /\ Order[s].price \in Nat
  BY ExposureAssumption
<1>2. Abs(Order[s].qty) \in Nat
  BY <1>1, AbsFacts
<1>3. QED
  BY <1>1, <1>2, Products DEF Value

LEMMA HeldType == ExposureShape => \A k \in Keys : Held(k) \in Nat
<1> SUFFICES ASSUME ExposureShape, NEW k \in Keys PROVE Held(k) \in Nat
  OBVIOUS
<1>1. position[k].qty \in Int /\ position[k].price \in Nat
  BY DEF ExposureShape
<1>2. Abs(position[k].qty) \in Nat
  BY <1>1, AbsFacts
<1>3. QED
  BY <1>1, <1>2, Products DEF Held

LEMMA WorthFacts ==
    /\ Worth({}) = 0
    /\ \A S \in SUBSET Signals : Worth(S) \in Int
    /\ \A S \in SUBSET Signals, s \in Signals : s \notin S => Worth(S \cup {s}) = Worth(S) + Value(s)
<1>1. Worth({}) = 0
  BY SumOfNone DEF Worth
<1>2. \A s \in Signals : Values[s] = Value(s) /\ Values[s] \in Int
  BY ValueType DEF Values
<1>3. ASSUME NEW S \in SUBSET Signals PROVE Worth(S) = SumFunctionOnSet(Values, S)
  BY DEF Worth, Values
<1>4. ASSUME NEW S \in SUBSET Signals PROVE IsFiniteSet(S) /\ \A s \in S : Values[s] \in Int
  BY <1>2, FS_Subset, ExposureAssumption
<1>5. ASSUME NEW S \in SUBSET Signals PROVE Worth(S) \in Int
  BY <1>3, <1>4, SumType
<1>6. ASSUME NEW S \in SUBSET Signals, NEW s \in Signals, s \notin S
      PROVE  Worth(S \cup {s}) = Worth(S) + Value(s)
  <2> DEFINE T == S \cup {s}
  <2>1. T \in SUBSET Signals /\ s \in T /\ T \ {s} = S
    BY <1>6
  <2> HIDE DEF T
  <2>2. SumFunctionOnSet(Values, T) = Values[s] + SumFunctionOnSet(Values, T \ {s})
    BY <1>4, <2>1, SumOfOneMore
  <2>3. Worth(T) = Value(s) + Worth(S)
    BY <1>2, <1>3, <2>1, <2>2
  <2>4. QED
    BY <2>3, <1>5, ValueType DEF T
<1>7. QED
  BY <1>1, <1>5, <1>6

\* The sums of what is held: of all keys, of one key more, and as integers.
LEMMA HoldingFacts ==
    ExposureShape =>
      /\ Gross = SumFunctionOnSet(Holdings, Keys) /\ Gross \in Int
      /\ \A K \in SUBSET Keys : SumFunctionOnSet(Holdings, K) \in Int
      /\ \A K \in SUBSET Keys : \A k \in K :
           SumFunctionOnSet(Holdings, K) = Held(k) + SumFunctionOnSet(Holdings, K \ {k})
<1> SUFFICES ASSUME ExposureShape
             PROVE  /\ Gross = SumFunctionOnSet(Holdings, Keys) /\ Gross \in Int
                    /\ \A K \in SUBSET Keys : SumFunctionOnSet(Holdings, K) \in Int
                    /\ \A K \in SUBSET Keys : \A k \in K :
                         SumFunctionOnSet(Holdings, K) = Held(k) + SumFunctionOnSet(Holdings, K \ {k})
  OBVIOUS
<1>1. \A k \in Keys : Holdings[k] = Held(k) /\ Holdings[k] \in Int
  BY HeldType DEF Holdings
<1>2. ASSUME NEW K \in SUBSET Keys PROVE IsFiniteSet(K) /\ \A k \in K : Holdings[k] \in Int
  BY <1>1, FS_Subset, ExposureAssumption
<1>3. \A K \in SUBSET Keys : SumFunctionOnSet(Holdings, K) \in Int
  BY <1>2, SumType
<1>4. ASSUME NEW K \in SUBSET Keys, NEW k \in K
      PROVE  SumFunctionOnSet(Holdings, K) = Held(k) + SumFunctionOnSet(Holdings, K \ {k})
  BY <1>1, <1>2, SumOfOneMore
<1>5. Gross = SumFunctionOnSet(Holdings, Keys)
  BY DEF Gross, Holdings
<1>6. QED
  BY <1>3, <1>4, <1>5

LEMMA StepShape ==
    ASSUME NEW pc, NEW left, NEW gross
    PROVE  /\ Step(pc, left, gross).pc = pc /\ Step(pc, left, gross).left = left
           /\ Step(pc, left, gross).gross = gross
           /\ pc \in CheckPcs /\ left \in SUBSET Keys /\ gross \in Int => Step(pc, left, gross) \in Checks
  BY DEF Step, Checks

LEMMA ExposureInitInv == ExposureInit => ExposureInv
<1> SUFFICES ASSUME ExposureInit PROVE ExposureInv
  OBVIOUS
<1>1. \A s \in Signals : check[s].pc = "new" /\ overlap[s] = {}
  BY DEF ExposureInit, Step
<1>2. ExposureShape
  <2>1. Step("new", {}, 0) \in Checks
    BY StepShape DEF CheckPcs
  <2>2. [qty |-> 0, price |-> 0] \in [qty : Int, price : Nat]
    OBVIOUS
  <2>3. QED
    BY <2>1, <2>2 DEF ExposureInit, ExposureShape
<1>3. QED
  BY <1>1, <1>2 DEF ExposureInit, ExposureInv, BookedOnce, ReadSoFar, Fitted, OnItsWay, ExposureBounded

\* A step of one check, which changes nothing else.
LEMMA CheckMoves ==
    ASSUME ExposureInv, NEW s \in Signals, check[s].pc # "done",
           NEW r \in Checks, Proceeds(s, r), UNCHANGED UNREAD,
           ~astray =>
             /\ r.pc = "scan" => SumFunctionOnSet(Holdings, Keys \ r.left) <= r.gross + Worth(overlap[s])
             /\ r.pc \in {"adv", "limit", "approved", "filled"} => Gross + Value(s) <= MaxGross + Worth(overlap[s])
    PROVE  ExposureInv'
<1>1. check'[s] = r /\ \A t \in Signals \ {s} : check'[t] = check[t]
  BY DEF ExposureInv, ExposureShape, Proceeds
<1>2. UNCHANGED <<position, booked, overlap, astray>>
  BY DEF UNREAD
<1>3. ExposureShape'
  BY <1>2 DEF ExposureInv, ExposureShape, Proceeds
<1>4. BookedOnce'
  BY <1>1, <1>2 DEF ExposureInv, ExposureShape, BookedOnce
<1>5. Holdings' = Holdings /\ Gross' = Gross
  BY <1>2 DEF Holdings, Gross, Held
<1>6. ASSUME ~astray PROVE ReadSoFar(s)' /\ Fitted(s)'
  BY <1>1, <1>2, <1>5, <1>6 DEF ReadSoFar, Fitted, OnItsWay
<1>7. ASSUME ~astray, NEW t \in Signals \ {s} PROVE ReadSoFar(t)' /\ Fitted(t)'
  BY <1>1, <1>2, <1>5, <1>7 DEF ReadSoFar, Fitted, OnItsWay, ExposureInv
<1>8. ExposureBounded'
  BY <1>2, <1>5 DEF ExposureInv, ExposureBounded
<1>9. QED
  BY <1>2, <1>3, <1>4, <1>6, <1>7, <1>8 DEF ExposureInv

\* The check of the size, the buying power, the volume and the limit, and refusals.
LEMMA CheckStepKeeps ==
    ASSUME ExposureInv, NEW s \in Signals,
           CheckSize(s) \/ CheckAdv(s) \/ CheckStrategyLimit(s) \/ Refuse(s) \/ NoFill(s)
    PROVE  ExposureInv'
<1>1. check[s].pc # "done" /\ UNCHANGED UNREAD
  BY DEF CheckSize, CheckAdv, CheckStrategyLimit, Refuse, NoFill, At
<1>2. ASSUME NEW pc \in {"rejected", "power", "done"}, Moves(s, pc) PROVE ExposureInv'
  <2> DEFINE r == Step(pc, {}, 0)
  <2>1. r \in Checks /\ r.pc = pc /\ Proceeds(s, r)
    BY <1>2, StepShape DEF Moves, Proceeds, CheckPcs
  <2> HIDE DEF r
  <2>2. QED
    BY <1>1, <2>1, CheckMoves
<1>3. ASSUME NEW pc \in {"limit", "approved"}, Moves(s, pc), OnItsWay(s) PROVE ExposureInv'
  <2>1. ~astray => Gross + Value(s) <= MaxGross + Worth(overlap[s])
    BY <1>3 DEF ExposureInv, Fitted
  <2> DEFINE r == Step(pc, {}, 0)
  <2>2. r \in Checks /\ r.pc = pc /\ Proceeds(s, r)
    BY <1>3, StepShape DEF Moves, Proceeds, CheckPcs
  <2> HIDE DEF r
  <2>3. QED
    BY <1>1, <2>1, <2>2, CheckMoves
<1>4. QED
  BY <1>2, <1>3 DEF CheckSize, CheckAdv, CheckStrategyLimit, Refuse, NoFill, At, OnItsWay

\* on_fill reads, and the order goes on to its booking.
LEMMA FillReadsKeeps ==
    ASSUME ExposureInv, NEW s \in Signals, Fill(s)
    PROVE  ExposureInv'
<1> DEFINE r == Step("filled", {}, position[Order[s].key].qty)
<1>1. check[s].pc = "approved" /\ Proceeds(s, r) /\ UNCHANGED UNREAD
  BY DEF Fill, At, Proceeds
<1>2. position[Order[s].key].qty \in Int
  BY ExposureAssumption DEF ExposureInv, ExposureShape
<1>3. r \in Checks /\ r.pc = "filled"
  BY <1>2, StepShape DEF CheckPcs
<1>4. ~astray => Gross + Value(s) <= MaxGross + Worth(overlap[s])
  BY <1>1 DEF ExposureInv, Fitted, OnItsWay
<1> HIDE DEF r
<1>5. QED
  BY <1>1, <1>3, <1>4, CheckMoves

LEMMA FillIsLostKeeps ==
    ASSUME ExposureInv, NEW s \in Signals, FillIsLost(s)
    PROVE  ExposureInv'
<1> DEFINE r == Step("done", {}, 0)
<1>1. /\ check[s].pc # "done" /\ check' = [check EXCEPT ![s] = r] /\ astray'
      /\ astray' \in BOOLEAN /\ UNCHANGED <<position, booked, overlap>>
  BY DEF FillIsLost, Moves
<1>2. r \in Checks /\ r.pc = "done"
  BY StepShape DEF CheckPcs
<1> HIDE DEF r
<1>3. ExposureShape'
  BY <1>1, <1>2 DEF ExposureInv, ExposureShape
<1>4. BookedOnce'
  BY <1>1, <1>2 DEF ExposureInv, ExposureShape, BookedOnce
<1>5. QED
  BY <1>1, <1>3, <1>4 DEF ExposureInv, ExposureBounded

\* A key that is read twice adds to the sum, and nothing to what it is compared with.
LEMMA ReadPositionAgainKeeps ==
    ASSUME ExposureInv, NEW s \in Signals, NEW k \in Keys, ReadPositionAgain(s, k)
    PROVE  ExposureInv'
<1> DEFINE gross == check[s].gross + Held(k)
           r == Step("scan", check[s].left, gross)
<1>1. check[s].pc = "scan" /\ Proceeds(s, r) /\ UNCHANGED UNREAD
  BY DEF ReadPositionAgain, At, Proceeds
<1>2. /\ ExposureShape /\ check[s].left \in SUBSET Keys /\ check[s].gross \in Int
      /\ Held(k) \in Nat
  BY HeldType DEF ExposureInv, ExposureShape, Checks
<1>3. gross \in Int /\ check[s].gross <= gross
  BY <1>2
<1> HIDE DEF gross
<1>4. r \in Checks /\ r.pc = "scan" /\ r.left = check[s].left /\ r.gross = gross
  BY <1>2, <1>3, StepShape DEF CheckPcs
<1> DEFINE sum == SumFunctionOnSet(Holdings, Keys \ check[s].left)
           worth == Worth(overlap[s])
<1>5. ~astray => sum <= check[s].gross + worth
  BY <1>1 DEF ExposureInv, ReadSoFar
<1>6. sum \in Int /\ worth \in Int
  <2>1. Keys \ check[s].left \in SUBSET Keys
    OBVIOUS
  <2>2. sum \in Int
    BY <1>2, <2>1, HoldingFacts
  <2>3. QED
    BY <1>2, <2>2, WorthFacts DEF ExposureShape
<1>7. ~astray => sum <= gross + worth
  <2> HIDE DEF sum, worth
  <2>1. QED
    BY <1>2, <1>3, <1>5, <1>6
<1> HIDE DEF r
<1>8. QED
  BY <1>1, <1>4, <1>7, CheckMoves

\* The scan begins: nothing is read, and nothing was booked since.
LEMMA CheckPowerKeeps ==
    ASSUME ExposureInv, NEW s \in Signals, CheckPower(s)
    PROVE  ExposureInv'
<1>1. PICK next \in {Step("rejected", {}, 0), Step("scan", Keys, 0)} :
        check' = [check EXCEPT ![s] = next]
  BY DEF CheckPower
<1>2. /\ check[s].pc = "power" /\ overlap' = [overlap EXCEPT ![s] = {}]
      /\ UNCHANGED <<position, booked, astray>>
  BY DEF CheckPower, At
<1>3. /\ next \in Checks
      /\ next.pc \in {"rejected", "scan"} /\ next.gross = 0 /\ (next.pc = "scan" => next.left = Keys)
  BY StepShape DEF CheckPcs
<1>4. /\ check'[s] = next /\ overlap'[s] = {}
      /\ \A t \in Signals \ {s} : check'[t] = check[t] /\ overlap'[t] = overlap[t]
  BY <1>1, <1>2 DEF ExposureInv, ExposureShape
<1>5. ExposureShape'
  BY <1>1, <1>2, <1>3 DEF ExposureInv, ExposureShape
<1>6. BookedOnce'
  BY <1>2, <1>3, <1>4 DEF ExposureInv, ExposureShape, BookedOnce
<1>7. Holdings' = Holdings /\ Gross' = Gross
  BY <1>2 DEF Holdings, Gross, Held
<1>8. ReadSoFar(s)' /\ Fitted(s)'
  <2>1. SumFunctionOnSet(Holdings', {}) = 0
    BY SumOfNone
  <2>2. next.pc = "scan" => Keys \ next.left = {}
    BY <1>3
  <2>3. Worth(overlap'[s]) = 0
    BY <1>4, WorthFacts
  <2>4. next.pc = "scan" => SumFunctionOnSet(Holdings', Keys \ next.left) <= 0 + Worth(overlap'[s])
    BY <2>1, <2>2, <2>3
  <2>5. QED
    BY <1>3, <1>4, <2>4 DEF ReadSoFar, Fitted, OnItsWay
<1>9. ASSUME ~astray, NEW t \in Signals \ {s} PROVE ReadSoFar(t)' /\ Fitted(t)'
  BY <1>2, <1>4, <1>7, <1>9 DEF ReadSoFar, Fitted, OnItsWay, ExposureInv
<1>10. ExposureBounded'
  <2>1. \A t \in booked : t # s /\ overlap'[t] = overlap[t]
    BY <1>2, <1>4 DEF ExposureInv, ExposureShape, BookedOnce
  <2>2. QED
    BY <1>2, <1>7, <2>1 DEF ExposureInv, ExposureBounded
<1>11. QED
  BY <1>2, <1>5, <1>6, <1>8, <1>9, <1>10 DEF ExposureInv

\* One more key is read; after the last the sum is compared with the limit.
LEMMA ReadPositionKeeps ==
    ASSUME ExposureInv, NEW s \in Signals, NEW k \in Keys, ReadPosition(s, k)
    PROVE  ExposureInv'
<1> DEFINE left == check[s].left \ {k}
           gross == check[s].gross + Held(k)
<1>1. /\ check[s].pc = "scan" /\ k \in check[s].left /\ UNCHANGED UNREAD
      /\ check' = [check EXCEPT ![s] =
           IF left # {} THEN Step("scan", left, gross)
           ELSE IF Fits(s, gross) THEN Step("adv", {}, 0) ELSE Step("rejected", {}, 0)]
  BY DEF ReadPosition, At
<1>2. /\ check[s].left \in SUBSET Keys /\ left \in SUBSET Keys /\ check[s].gross \in Int
      /\ Held(k) \in Int /\ gross \in Int /\ ExposureShape
  <2>1. ExposureShape
    BY DEF ExposureInv
  <2>2. Held(k) \in Int
    BY <2>1, HeldType
  <2>3. check[s] \in Checks
    BY <2>1 DEF ExposureShape
  <2>4. QED
    BY <2>1, <2>2, <2>3 DEF Checks
<1>3. Worth(overlap[s]) \in Int /\ MaxGross \in Int /\ Value(s) \in Int /\ Gross \in Int
  BY <1>2, WorthFacts, ValueType, HoldingFacts, ExposureAssumption DEF ExposureShape
<1> HIDE DEF gross
<1>4. ASSUME ~astray PROVE SumFunctionOnSet(Holdings, Keys \ left) <= gross + Worth(overlap[s])
  <2> DEFINE K == Keys \ left
  <2>1. K \in SUBSET Keys /\ k \in K /\ K \ {k} = Keys \ check[s].left
    BY <1>1, <1>2
  <2>2. SumFunctionOnSet(Holdings, K \ {k}) <= check[s].gross + Worth(overlap[s])
    BY <1>1, <1>4, <2>1 DEF ExposureInv, ReadSoFar
  <2> HIDE DEF K
  <2>3. SumFunctionOnSet(Holdings, K) = Held(k) + SumFunctionOnSet(Holdings, K \ {k})
    BY <1>2, <2>1, HoldingFacts
  <2>4. K \ {k} \in SUBSET Keys
    BY <2>1
  <2>5. SumFunctionOnSet(Holdings, K \ {k}) \in Int
    BY <1>2, <2>4, HoldingFacts
  <2>6. SumFunctionOnSet(Holdings, K) <= gross + Worth(overlap[s])
    BY <1>2, <1>3, <2>2, <2>3, <2>5 DEF gross
  <2>7. QED
    BY <2>6 DEF K
<1>5. CASE left # {}
  <2> DEFINE r == Step("scan", left, gross)
  <2>1. Proceeds(s, r) /\ r \in Checks /\ r.pc = "scan" /\ r.left = left /\ r.gross = gross
    BY <1>1, <1>2, <1>5, StepShape DEF Proceeds, CheckPcs
  <2> HIDE DEF r
  <2>2. QED
    BY <1>1, <1>4, <2>1, CheckMoves
<1>6. CASE left = {} /\ Fits(s, gross)
  <2> DEFINE r == Step("adv", {}, 0)
  <2>1. Proceeds(s, r) /\ r \in Checks /\ r.pc = "adv"
    <3>1. check' = [check EXCEPT ![s] = r]
      BY <1>1, <1>6
    <3>2. QED
      BY <3>1, StepShape DEF Proceeds, CheckPcs
  <2>2. ASSUME ~astray PROVE Gross + Value(s) <= MaxGross + Worth(overlap[s])
    <3>1. Keys \ left = Keys
      BY <1>6
    <3>2. Gross <= gross + Worth(overlap[s])
      BY <1>2, <1>4, <2>2, <3>1, HoldingFacts
    <3>3. gross + Value(s) <= MaxGross
      BY <1>6 DEF Fits
    <3>4. QED
      BY <1>2, <1>3, <3>2, <3>3
  <2> HIDE DEF r
  <2>3. QED
    BY <1>1, <2>1, <2>2, CheckMoves
<1>7. CASE left = {} /\ ~Fits(s, gross)
  <2> DEFINE r == Step("rejected", {}, 0)
  <2>1. Proceeds(s, r) /\ r \in Checks /\ r.pc = "rejected"
    <3>1. check' = [check EXCEPT ![s] = r]
      BY <1>1, <1>7
    <3>2. QED
      BY <3>1, StepShape DEF Proceeds, CheckPcs
  <2> HIDE DEF r
  <2>2. QED
    BY <1>1, <2>1, CheckMoves
<1>8. QED
  BY <1>5, <1>6, <1>7

\* What a fill adds to a holding is at most what its order was worth, unless it or
\* the position was bought dearer.
LEMMA FillAdds ==
    ASSUME NEW old \in Int, NEW qty \in Int, NEW was \in Nat, NEW p \in Nat, NEW price \in Nat,
           p <= price, old = 0 \/ p <= was
    PROVE  Abs(old + qty) * p <= Abs(old) * was + Abs(qty) * price
<1>1. /\ Abs(old + qty) \in Nat /\ Abs(old) \in Nat /\ Abs(qty) \in Nat
      /\ Abs(old + qty) <= Abs(old) + Abs(qty) /\ Abs(old) + Abs(qty) \in Nat
  BY DEF Abs
<1>2. PICK sum \in Nat, a \in Nat, q \in Nat : sum = Abs(old + qty) /\ a = Abs(old) /\ q = Abs(qty)
  BY <1>1
<1>3. sum * p <= (a + q) * p
  <2>1. sum <= a + q /\ a + q \in Nat
    BY <1>1, <1>2
  <2>2. QED
    BY <2>1, Products
<1>4. (a + q) * p = a * p + q * p
  BY Products
<1>5. a * p <= a * was
  <2>1. CASE old = 0
    <3>1. a = 0
      BY <1>2, <2>1, AbsFacts
    <3>2. QED
      BY <3>1
  <2>2. CASE p <= was
    BY <2>2, Products
  <2>3. QED
    BY <2>1, <2>2
<1>6. q * p <= q * price
  BY Products
<1>7. a * p \in Nat /\ a * was \in Nat /\ q * p \in Nat /\ q * price \in Nat /\ sum * p \in Nat
  BY Products
<1>8. sum * p <= a * was + q * price
  <2> DEFINE ap == a * p
             aw == a * was
             qp == q * p
             qr == q * price
             sp == sum * p
  <2>1. /\ sp <= ap + qp /\ ap <= aw /\ qp <= qr
        /\ sp \in Nat /\ ap \in Nat /\ aw \in Nat /\ qp \in Nat /\ qr \in Nat
    BY <1>3, <1>4, <1>5, <1>6, <1>7
  <2> HIDE DEF ap, aw, qp, qr, sp
  <2>2. sp <= aw + qr
    BY <2>1
  <2>3. QED
    BY <2>2 DEF aw, qr, sp
<1>9. QED
  BY <1>2, <1>8

\* The write of a fill books one signal: every sum that has its key, and the exposure, grow by
\* at most its value, and so does what the others allow for.
LEMMA WriteFillKeeps ==
    ASSUME ExposureInv, NEW s \in Signals, NEW p \in Prices, WriteFill(s, p)
    PROVE  ExposureInv'
<1> DEFINE o == Order[s]
           old == position[o.key]
           new == [qty |-> check[s].gross + o.qty, price |-> p]
           waits(t) == check[t].pc \in {"scan", "adv", "limit", "approved", "filled"} /\ t # s
<1>1. /\ check[s].pc = "filled" /\ check' = [check EXCEPT ![s] = Step("done", {}, 0)]
      /\ position' = [position EXCEPT ![o.key] = new]
      /\ astray' = (\/ astray \/ old.qty # check[s].gross \/ p > o.price
                    \/ old.qty # 0 /\ p > old.price)
      /\ overlap' = [t \in Signals |-> IF waits(t) THEN overlap[t] \cup {s} ELSE overlap[t]]
      /\ booked' = {s}
  BY DEF WriteFill, At, Moves
<1>2. /\ o.key \in Keys /\ o.qty \in Int /\ o.price \in Nat /\ p \in Nat
      /\ old.qty \in Int /\ old.price \in Nat /\ new \in [qty : Int, price : Nat]
      /\ new.qty = check[s].gross + o.qty /\ new.price = p
  BY ExposureAssumption DEF ExposureInv, ExposureShape, Checks
<1> HIDE DEF new, waits
<1>3. /\ check'[s].pc = "done" /\ \A t \in Signals \ {s} : check'[t] = check[t]
      /\ position'[o.key] = new /\ \A k \in Keys \ {o.key} : position'[k] = position[k]
      /\ \A t \in Signals : overlap'[t] = IF waits(t) THEN overlap[t] \cup {s} ELSE overlap[t]
  BY <1>1, <1>2 DEF ExposureInv, ExposureShape, Step
<1>4. ExposureShape'
  <2>1. position' \in [Keys -> [qty : Int, price : Nat]]
    BY <1>1, <1>2 DEF ExposureInv, ExposureShape
  <2>2. check' \in [Signals -> Checks]
    BY <1>1, StepShape DEF ExposureInv, ExposureShape, CheckPcs
  <2>3. booked' \subseteq Signals /\ overlap' \in [Signals -> SUBSET Signals] /\ astray' \in BOOLEAN
    BY <1>1 DEF ExposureInv, ExposureShape
  <2>4. QED
    BY <2>1, <2>2, <2>3 DEF ExposureShape
<1>0. /\ \A k \in Keys : Held(k)' \in Nat
      /\ Gross' = SumFunctionOnSet(Holdings', Keys) /\ Gross' \in Int
      /\ \A K \in SUBSET Keys : SumFunctionOnSet(Holdings', K) \in Int
  <2>1. (\A k \in Keys : Held(k) \in Nat)'
    BY <1>4, HeldType, PTL
  <2>2. (/\ Gross = SumFunctionOnSet(Holdings, Keys) /\ Gross \in Int
         /\ \A K \in SUBSET Keys : SumFunctionOnSet(Holdings, K) \in Int)'
    BY <1>4, HoldingFacts, PTL
  <2>3. QED
    BY <2>1, <2>2
<1>5. BookedOnce'
  <2>1. \A t \in Signals : check[t].pc = "done" => check'[t].pc = "done"
    BY <1>3
  <2>2. \A t \in Signals : overlap[t] \subseteq Signals /\ \A u \in overlap[t] : check[u].pc = "done"
    BY DEF ExposureInv, ExposureShape, BookedOnce
  <2>3. QED
    BY <1>1, <1>3, <2>1, <2>2 DEF BookedOnce
<1>6. Value(s) \in Nat /\ MaxGross \in Nat
  BY ValueType, ExposureAssumption
<1>7. ASSUME ~astray' PROVE Held(o.key)' <= Held(o.key) + Value(s)
  <2>1. p <= o.price /\ (old.qty = 0 \/ p <= old.price)
    <3>1. ~(p > o.price) /\ ~(old.qty # 0 /\ p > old.price)
      BY <1>1, <1>7
    <3>2. QED
      BY <1>2, <3>1
  <2>0. new.qty = old.qty + o.qty
    BY <1>1, <1>2, <1>7
  <2>2. Abs(old.qty + o.qty) * p <= Abs(old.qty) * old.price + Abs(o.qty) * o.price
    BY <1>2, <2>1, FillAdds, Zenon
  <2>3. QED
    BY <1>2, <1>3, <2>0, <2>2 DEF Held, Value
<1>8. ASSUME ~astray', NEW K \in SUBSET Keys
      PROVE  SumFunctionOnSet(Holdings', K) <= SumFunctionOnSet(Holdings, K) + Value(s)
  <2>1. ExposureShape /\ IsFiniteSet(K)
    BY FS_Subset, ExposureAssumption DEF ExposureInv
  <2>2. ASSUME NEW L \in SUBSET (K \ {o.key})
        PROVE  SumFunctionOnSet(Holdings', L) = SumFunctionOnSet(Holdings, L)
    <3>1. \A k \in L : Holdings[k] \in Int /\ Holdings'[k] = Holdings[k]
      BY <1>3, <2>1, HeldType DEF Holdings, Held
    <3>2. IsFiniteSet(L)
      BY <2>1, FS_Subset
    <3>3. QED
      BY <3>1, <3>2, SumOfSame
  <2>3. SumFunctionOnSet(Holdings, K) \in Int /\ SumFunctionOnSet(Holdings, K \ {o.key}) \in Int
    <3>1. K \ {o.key} \in SUBSET Keys
      OBVIOUS
    <3>2. QED
      BY <2>1, <3>1, HoldingFacts
  <2>4. CASE o.key \notin K
    <3>1. K \in SUBSET (K \ {o.key})
      BY <2>4
    <3>2. QED
      BY <1>6, <2>2, <2>3, <3>1
  <2>5. CASE o.key \in K
    <3>1. SumFunctionOnSet(Holdings, K) = Held(o.key) + SumFunctionOnSet(Holdings, K \ {o.key})
      BY <2>1, <2>5, HoldingFacts
    <3>2. SumFunctionOnSet(Holdings', K) = Held(o.key)' + SumFunctionOnSet(Holdings', K \ {o.key})
      <4>1. \A k \in Keys : Holdings'[k] = Held(k)' /\ Held(k)' \in Int
        BY <1>0 DEF Holdings
      <4>2. QED
        BY <2>1, <2>5, <4>1, <1>2, SumOfOneMore
    <3>3. SumFunctionOnSet(Holdings', K \ {o.key}) = SumFunctionOnSet(Holdings, K \ {o.key})
      BY <2>2
    <3>4. Held(o.key) \in Int /\ Held(o.key)' \in Int
      BY <1>0, <1>2, <2>1, HeldType
    <3>5. QED
      BY <1>6, <1>7, <1>8, <2>3, <3>1, <3>2, <3>3, <3>4
  <2>6. QED
    BY <2>4, <2>5
<1>9. \A t \in Signals : waits(t) => Worth(overlap'[t]) = Worth(overlap[t]) + Value(s)
  <2>1. \A t \in Signals : s \notin overlap[t] /\ overlap[t] \in SUBSET Signals
    BY <1>1 DEF ExposureInv, ExposureShape, BookedOnce
  <2>2. QED
    BY <1>3, <2>1, WorthFacts
<1>10. \A t \in Signals : Worth(overlap[t]) \in Int /\ Value(t) \in Int
  BY WorthFacts, ValueType DEF ExposureInv, ExposureShape
<1>11. Gross \in Int /\ Gross' \in Int /\ (~astray' => Gross' <= Gross + Value(s))
  <2>1. Gross \in Int /\ Gross' \in Int
    BY <1>0, HoldingFacts DEF ExposureInv
  <2>2. Gross = SumFunctionOnSet(Holdings, Keys) /\ Gross' = SumFunctionOnSet(Holdings', Keys)
    BY DEF Gross, Holdings
  <2>3. QED
    BY <1>8, <2>1, <2>2
<1>12. ASSUME ~astray', NEW t \in Signals PROVE ReadSoFar(t)' /\ Fitted(t)'
  <2>1. ~astray
    BY <1>1, <1>12
  <2>2. CASE t = s
    BY <1>3, <2>2 DEF ReadSoFar, Fitted, OnItsWay
  <2>3. CASE check[t].pc = "scan" /\ t # s
    <3>1. waits(t) /\ check'[t] = check[t] /\ Keys \ check[t].left \in SUBSET Keys
      BY <1>3, <2>3 DEF waits
    <3>2. SumFunctionOnSet(Holdings', Keys \ check[t].left)
            <= SumFunctionOnSet(Holdings, Keys \ check[t].left) + Value(s)
      BY <1>8, <1>12, <3>1
    <3>3. SumFunctionOnSet(Holdings, Keys \ check[t].left) <= check[t].gross + Worth(overlap[t])
      BY <2>1, <2>3 DEF ExposureInv, ReadSoFar
    <3>4. Worth(overlap'[t]) = Worth(overlap[t]) + Value(s)
      BY <1>9, <3>1
    <3>5. /\ SumFunctionOnSet(Holdings, Keys \ check[t].left) \in Int
          /\ SumFunctionOnSet(Holdings', Keys \ check[t].left) \in Int
          /\ check[t].gross \in Int
      <4>1. ExposureShape
        BY DEF ExposureInv
      <4>2. SumFunctionOnSet(Holdings, Keys \ check[t].left) \in Int
        BY <3>1, <4>1, HoldingFacts
      <4>3. SumFunctionOnSet(Holdings', Keys \ check[t].left) \in Int
        BY <3>1, <1>0
      <4>4. QED
        BY <4>1, <4>2, <4>3 DEF ExposureShape, Checks
    <3>6. SumFunctionOnSet(Holdings', Keys \ check[t].left) <= check[t].gross + Worth(overlap'[t])
      BY <3>2, <3>3, <3>4, <3>5, <1>6, <1>10
    <3>7. QED
      BY <2>3, <3>1, <3>6 DEF ReadSoFar, Fitted, OnItsWay, Worth, Value
  <2>4. CASE OnItsWay(t) /\ t # s
    <3>1. waits(t) /\ check'[t] = check[t]
      BY <1>3, <2>4 DEF waits, OnItsWay
    <3>2. Gross + Value(t) <= MaxGross + Worth(overlap[t])
      BY <2>1, <2>4 DEF ExposureInv, Fitted
    <3>3. Worth(overlap'[t]) = Worth(overlap[t]) + Value(s)
      BY <1>9, <3>1
    <3>4. Gross' + Value(t) <= MaxGross + Worth(overlap'[t])
      BY <3>2, <3>3, <1>6, <1>10, <1>11, <1>12
    <3>5. QED
      BY <2>4, <3>1, <3>4 DEF ReadSoFar, Fitted, OnItsWay, Worth, Value
  <2>5. CASE check[t].pc # "scan" /\ ~OnItsWay(t) /\ t # s
    BY <1>3, <2>5 DEF ReadSoFar, Fitted, OnItsWay
  <2>6. QED
    BY <2>2, <2>3, <2>4, <2>5
<1>13. ASSUME ~astray' PROVE Gross' <= MaxGross + Worth(overlap'[s])
  <2>1. ~astray /\ OnItsWay(s)
    BY <1>1, <1>13 DEF OnItsWay
  <2>2. Gross + Value(s) <= MaxGross + Worth(overlap[s])
    BY <2>1 DEF ExposureInv, Fitted
  <2>3. overlap'[s] = overlap[s]
    BY <1>3 DEF waits
  <2>4. QED
    BY <2>2, <2>3, <1>6, <1>10, <1>11, <1>13
<1>14. ExposureBounded'
  BY <1>1, <1>13 DEF ExposureBounded, Worth, Value
<1>15. QED
  BY <1>4, <1>5, <1>12, <1>14 DEF ExposureInv

LEMMA ExposureNextKeeps == ExposureInv /\ [ExposureNext]_exposureVars => ExposureInv'
<1> SUFFICES ASSUME ExposureInv, [ExposureNext]_exposureVars PROVE ExposureInv'
  OBVIOUS
<1>1. ASSUME UNCHANGED <<position, check, booked, overlap, astray>> PROVE ExposureInv'
  <2>1. Holdings' = Holdings /\ Gross' = Gross
    BY <1>1 DEF Holdings, Gross, Held
  <2>2. QED
    BY <1>1, <2>1 DEF ExposureInv, ExposureShape, BookedOnce, ReadSoFar, Fitted, OnItsWay, ExposureBounded
<1>2. ASSUME NEW k \in Keys, PositionExpires(k) PROVE ExposureInv'
  <2>1. ExposureShape'
    BY <1>2 DEF PositionExpires, ExposureInv, ExposureShape
  <2>2. BookedOnce' /\ astray'
    BY <1>2 DEF PositionExpires, ExposureInv, BookedOnce
  <2>3. QED
    BY <2>1, <2>2 DEF ExposureInv, ExposureBounded
<1>3. CASE UNCHANGED exposureVars
  BY <1>1, <1>3 DEF exposureVars
<1>4. CASE \E amount \in Powers : SetBuyingPower(amount)
  BY <1>1, <1>4 DEF SetBuyingPower
<1>5. CASE ExposureNext
  BY <1>2, <1>4, <1>5, CheckStepKeeps, CheckPowerKeeps, ReadPositionKeeps,
     ReadPositionAgainKeeps, FillReadsKeeps, FillIsLostKeeps, WriteFillKeeps
     DEF ExposureNext, CheckStep
<1>6. QED
  BY <1>3, <1>5

\* A check that is on its way has compared no less than the exposure there is, but
\* for what was booked since it began to read.
THEOREM ExposureInductive == ExposureSpec => []ExposureInv
  BY ExposureInitInv, ExposureNextKeeps, PTL DEF ExposureSpec

\* The gross exposure stays within its limit but for the orders booked while the last
\* one was on its way (pre_trade.py:40-42, 68-76), for any signals, positions, prices
\* and limits, and whatever SCAN returns twice, as long as no fill is dearer than
\* expected, no position expires, and no fill is lost or overwritten by another
\* (strategy.py:97-100 of ml_directional: a read, an await and a write).
THEOREM ExposureIsBounded == ExposureSpec => []ExposureBounded
<1>1. ExposureInv => ExposureBounded
  BY DEF ExposureInv
<1>2. QED
  BY <1>1, ExposureInductive, PTL

-----------------------------------------------------------------------------
(* Greeks.                                                                      *)
\* The sums are settled unless an update runs; the one that runs alone has added
\* up documents as they are, and what it has written already is their sum.
Alone == \A u, v \in Updaters : Updating(u) /\ Updating(v) => u = v

\* An update in progress has something to write, and writes only after all reads.
InProgress ==
    \A u \in Updaters : Updating(u) =>
        /\ update[u].writes # {}
        /\ update[u].writes # GreekNames => update[u].reads = {}

\* What it has read is in its sum once, and the rest not at all.
AddedUp(u) ==
    \A d \in Documents : update[u].sum[d] = IF d \in update[u].reads THEN 0 ELSE document[d]
WrittenOut(u) == \A g \in GreekNames \ update[u].writes : net[g] = document

Settling ==
    ~unsettled => /\ Alone
                  /\ \A u \in Updaters : Updating(u) => AddedUp(u) /\ WrittenOut(u)
                  /\ (\A u \in Updaters : ~Updating(u)) => \A g \in GreekNames : net[g] = document

GreeksInv == GreeksTypeOK /\ InProgress /\ Settling

LEMMA GreeksInitInv == GreeksInit => GreeksInv
<1> SUFFICES ASSUME GreeksInit PROVE GreeksInv
  OBVIOUS
<1> USE GreeksAssumption DEF GreeksInit, Nothing, NoUpdate, Updating
<1>1. GreeksTypeOK
  BY DEF GreeksTypeOK, Sums
<1>2. \A u \in Updaters : ~Updating(u)
  OBVIOUS
<1>3. QED
  BY <1>1, <1>2 DEF GreeksInv, InProgress, Settling, Alone

\* What an action makes of one update, and of nothing else.
LEMMA UpdateShape ==
    ASSUME GreeksTypeOK, NEW u \in Updaters
    PROVE  /\ update[u].reads \subseteq Documents /\ update[u].writes \subseteq GreekNames
           /\ update[u].sum \in Sums
           /\ update[u] = [reads |-> update[u].reads, writes |-> update[u].writes,
                           sum |-> update[u].sum]
  BY DEF GreeksTypeOK

\* The update that begins is alone, or the sums are not settled.
LEMMA UpdateGreeksKeeps ==
    ASSUME GreeksInv, NEW u \in Updaters, NEW d \in Documents, UpdateGreeks(u, d)
    PROVE  GreeksInv'
<1> DEFINE begun == [reads |-> Documents, writes |-> GreekNames, sum |-> Nothing]
<1>1. /\ update' = [update EXCEPT ![u] = begun]
      /\ document' = [document EXCEPT ![d] = @ + 1]
      /\ unsettled' = (\E v \in Updaters : Updating(v)) /\ net' = net /\ ~Updating(u)
  BY DEF UpdateGreeks
<1>2. Nothing \in Sums /\ begun # NoUpdate
  BY GreeksAssumption DEF Nothing, Sums, NoUpdate
<1>3. GreeksTypeOK'
  <2>1. document' \in Sums /\ net' \in [GreekNames -> Sums]
    BY <1>1 DEF GreeksInv, GreeksTypeOK, Sums
  <2>2. update' \in [Updaters -> [reads : SUBSET Documents, writes : SUBSET GreekNames, sum : Sums]]
    BY <1>1, <1>2 DEF GreeksInv, GreeksTypeOK
  <2>3. unsettled' \in BOOLEAN
    BY <1>1
  <2>4. QED
    BY <2>1, <2>2, <2>3 DEF GreeksTypeOK
<1>4. /\ update'[u] = begun
      /\ \A v \in Updaters \ {u} : update'[v] = update[v]
  BY <1>1 DEF GreeksInv, GreeksTypeOK
<1>5. InProgress'
  BY <1>4, GreeksAssumption DEF GreeksInv, InProgress, Updating
<1>6. ASSUME ~unsettled' PROVE \A v \in Updaters \ {u} : ~Updating(v)'
  BY <1>1, <1>4, <1>6 DEF Updating
<1>7. Updating(u)'
  BY <1>2, <1>4 DEF Updating
<1>8. AddedUp(u)' /\ WrittenOut(u)'
  BY <1>4 DEF AddedUp, WrittenOut, Nothing
<1>9. Settling'
  BY <1>6, <1>7, <1>8 DEF Settling, Alone
<1>10. QED
  BY <1>3, <1>5, <1>9 DEF GreeksInv

\* One more document is added, as it is.
LEMMA ReadGreeksKeeps ==
    ASSUME GreeksInv, NEW u \in Updaters, NEW d \in Documents, ReadGreeks(u, d)
    PROVE  GreeksInv'
<1> DEFINE added == [update[u].sum EXCEPT ![d] = @ + document[d]]
           left == update[u].reads \ {d}
           read == [update[u] EXCEPT !.reads = left, !.sum = added]
<1>1. /\ update' = [update EXCEPT ![u] = read]
      /\ document' = document /\ net' = net /\ unsettled' = unsettled
  <2>1. update' = [update EXCEPT ![u] = read]
    BY DEF ReadGreeks
  <2>2. document' = document /\ net' = net /\ unsettled' = unsettled
    BY DEF ReadGreeks
  <2>3. QED
    BY <2>1, <2>2
<1>0. /\ update[u] \in [reads : SUBSET Documents, writes : SUBSET GreekNames, sum : Sums]
      /\ read.reads = left /\ read.writes = update[u].writes /\ read.sum = added
      /\ added \in Sums => read \in [reads : SUBSET Documents, writes : SUBSET GreekNames, sum : Sums]
  BY DEF GreeksInv, GreeksTypeOK
<1>2. /\ added \in Sums
      /\ \A e \in Documents :
           added[e] = IF e = d THEN update[u].sum[d] + document[d] ELSE update[u].sum[e]
  BY UpdateShape DEF GreeksInv, GreeksTypeOK, Sums
<1>3. GreeksTypeOK'
  BY <1>1, <1>2, <1>0 DEF GreeksInv, GreeksTypeOK
<1>4. /\ update'[u] = read
      /\ \A v \in Updaters \ {u} : update'[v] = update[v]
  BY <1>1 DEF GreeksInv, GreeksTypeOK
<1>5. Updating(u) /\ update[u].writes # {} /\ update[u].writes = GreekNames
  BY DEF ReadGreeks, GreeksInv, InProgress, NoUpdate, Updating
<1>6. Updating(u)'
  <2>1. update'[u].writes # {}
    BY <1>4, <1>5, <1>0
  <2>2. QED
    BY <2>1 DEF Updating, NoUpdate
<1>7. InProgress'
  <2>1. update'[u].writes = GreekNames /\ update'[u].writes # {}
    BY <1>4, <1>5, <1>0
  <2>2. ASSUME NEW v \in Updaters, Updating(v)'
        PROVE  /\ update'[v].writes # {}
               /\ update'[v].writes # GreekNames => update'[v].reads = {}
    <3>1. CASE v = u
      BY <2>1, <3>1
    <3>2. CASE v # u
      BY <1>4, <2>2, <3>2 DEF GreeksInv, InProgress, Updating
    <3>3. QED
      BY <3>1, <3>2
  <2>3. QED
    BY <2>2 DEF InProgress
<1>8. \A v \in Updaters \ {u} : Updating(v)' <=> Updating(v)
  BY <1>4 DEF Updating
<1>9. ASSUME ~unsettled PROVE Alone' /\ AddedUp(u)' /\ WrittenOut(u)'
  <2>1. Alone /\ AddedUp(u) /\ WrittenOut(u)
    BY <1>5, <1>9 DEF GreeksInv, Settling
  <2>2. Alone'
    BY <2>1, <1>5, <1>8 DEF Alone
  <2>3. AddedUp(u)'
    <3>1. d \in update[u].reads /\ document[d] \in Nat
      BY DEF ReadGreeks, GreeksInv, GreeksTypeOK, Sums
    <3>2. update[u].sum[d] = 0
      BY <2>1, <3>1 DEF AddedUp
    <3>3. \A e \in Documents : added[e] = IF e \in left THEN 0 ELSE document[e]
      BY <2>1, <3>1, <3>2, <1>2 DEF AddedUp
    <3> HIDE DEF added, left
    <3>4. update'[u].sum = added /\ update'[u].reads = left
      BY <1>4, <1>0
    <3>5. QED
      BY <3>3, <3>4, <1>1 DEF AddedUp
  <2>4. QED
    BY <2>1, <2>2, <2>3, <1>1, <1>4, <1>0 DEF WrittenOut
<1>10. Settling'
  BY <1>1, <1>6, <1>9 DEF Settling, Alone
<1>11. QED
  BY <1>3, <1>7, <1>10 DEF GreeksInv

\* A document that is added once more unsettles the sums.
LEMMA ReadGreeksAgainKeeps ==
    ASSUME GreeksInv, NEW u \in Updaters, NEW d \in Documents, ReadGreeksAgain(u, d)
    PROVE  GreeksInv'
<1> DEFINE added == [update[u].sum EXCEPT ![d] = @ + document[d]]
           read == [update[u] EXCEPT !.sum = added]
<1>1. /\ update' = [update EXCEPT ![u] = read] /\ unsettled' /\ unsettled' \in BOOLEAN
      /\ document' = document /\ net' = net
  BY DEF ReadGreeksAgain
<1>2. update[u] \in [reads : SUBSET Documents, writes : SUBSET GreekNames, sum : Sums]
  BY DEF GreeksInv, GreeksTypeOK
<1>3. added \in Sums
  BY <1>2 DEF GreeksInv, GreeksTypeOK, Sums
<1> HIDE DEF added
<1>4. /\ read \in [reads : SUBSET Documents, writes : SUBSET GreekNames, sum : Sums]
      /\ read.reads = update[u].reads /\ read.writes = update[u].writes
  BY <1>2, <1>3
<1>5. GreeksTypeOK'
  BY <1>1, <1>4 DEF GreeksInv, GreeksTypeOK
<1>6. d \in update[u].reads /\ Updating(u)
  BY DEF ReadGreeksAgain, Updating, NoUpdate
<1> HIDE DEF read
<1>7. update'[u] = read /\ \A v \in Updaters \ {u} : update'[v] = update[v]
  BY <1>1 DEF GreeksInv, GreeksTypeOK
<1>8. InProgress'
  BY <1>4, <1>6, <1>7 DEF GreeksInv, InProgress, Updating
<1>9. QED
  BY <1>1, <1>5, <1>8 DEF GreeksInv, Settling

\* All documents are added: the sum is what they are.
LEMMA WriteNetKeeps ==
    ASSUME GreeksInv, NEW u \in Updaters, NEW g \in GreekNames, WriteNet(u, g)
    PROVE  GreeksInv'
<1> DEFINE left == update[u].writes \ {g}
           next == IF left = {} THEN NoUpdate ELSE [update[u] EXCEPT !.writes = left]
<1>1. /\ update' = [update EXCEPT ![u] = next] /\ net' = [net EXCEPT ![g] = update[u].sum]
      /\ document' = document /\ unsettled' = unsettled
      /\ update[u].reads = {} /\ g \in update[u].writes
  BY DEF GreeksInv, GreeksTypeOK, WriteNet
<1>2. next \in [reads : SUBSET Documents, writes : SUBSET GreekNames, sum : Sums]
  <2>1. NoUpdate \in [reads : SUBSET Documents, writes : SUBSET GreekNames, sum : Sums]
    BY DEF NoUpdate, Nothing, Sums
  <2>2. update[u] \in [reads : SUBSET Documents, writes : SUBSET GreekNames, sum : Sums]
    BY DEF GreeksInv, GreeksTypeOK
  <2>3. [update[u] EXCEPT !.writes = left] \in [reads : SUBSET Documents, writes : SUBSET GreekNames, sum : Sums]
    BY <2>2
  <2>4. QED
    BY <2>1, <2>3
<1>3. GreeksTypeOK'
  BY <1>1, <1>2, UpdateShape DEF GreeksInv, GreeksTypeOK
<1>4. /\ update'[u] = next
      /\ \A v \in Updaters \ {u} : update'[v] = update[v]
      /\ \A h \in GreekNames : net'[h] = IF h = g THEN update[u].sum ELSE net[h]
  BY <1>1 DEF GreeksInv, GreeksTypeOK
<1>5. Updating(u)
  BY <1>1 DEF Updating, NoUpdate
<1>6. next # NoUpdate => next.writes = left /\ next.reads = {} /\ next.sum = update[u].sum /\ left # {}
  BY <1>1, UpdateShape DEF GreeksInv
<1>7. InProgress'
  BY <1>4, <1>6 DEF GreeksInv, InProgress, Updating
<1>8. ASSUME ~unsettled
      PROVE  /\ Alone' /\ \A v \in Updaters \ {u} : ~Updating(v)'
             /\ \A h \in GreekNames \ left : net'[h] = document'
             /\ Updating(u)' => AddedUp(u)'
  <2>1. Alone /\ AddedUp(u) /\ WrittenOut(u)
    BY <1>5, <1>8 DEF GreeksInv, Settling
  <2>2. update[u].sum = document
    BY <2>1, <1>1, UpdateShape DEF AddedUp, GreeksInv, GreeksTypeOK, Sums
  <2>3. \A v \in Updaters \ {u} : ~Updating(v)'
    BY <2>1, <1>4, <1>5 DEF Alone, Updating
  <2>4. \A h \in GreekNames \ left : net'[h] = document'
    BY <2>1, <2>2, <1>1, <1>4 DEF WrittenOut
  <2>5. Updating(u)' => AddedUp(u)'
    BY <2>2, <1>1, <1>4, <1>6 DEF AddedUp, Updating
  <2>6. QED
    BY <2>3, <2>4, <2>5 DEF Alone
<1>9. ASSUME ~unsettled PROVE (Updating(u)' => WrittenOut(u)') /\ (~Updating(u)' => left = {})
  <2>1. Updating(u)' => update'[u].writes = left
    BY <1>4, <1>6 DEF Updating
  <2>2. ~Updating(u)' => left = {}
    <3>1. left # {} => next.writes # {}
      BY UpdateShape DEF GreeksInv
    <3>2. QED
      BY <3>1, <1>4 DEF Updating, NoUpdate
  <2>3. QED
    BY <2>1, <2>2, <1>8, <1>9 DEF WrittenOut
<1>10. Settling'
  BY <1>1, <1>8, <1>9 DEF Settling
<1>11. QED
  BY <1>3, <1>7, <1>10 DEF GreeksInv

LEMMA UpdateFailsKeeps ==
    ASSUME GreeksInv, NEW u \in Updaters, UpdateFails(u)
    PROVE  GreeksInv'
<1>1. update' = [update EXCEPT ![u] = NoUpdate] /\ unsettled' /\ unsettled' \in BOOLEAN
      /\ document' = document /\ net' = net
  BY DEF UpdateFails
<1>2. NoUpdate \in [reads : SUBSET Documents, writes : SUBSET GreekNames, sum : Sums]
  BY DEF NoUpdate, Nothing, Sums
<1>3. GreeksTypeOK'
  BY <1>1, <1>2 DEF GreeksInv, GreeksTypeOK
<1>4. InProgress'
  BY <1>1 DEF GreeksInv, InProgress, GreeksTypeOK, Updating
<1>5. QED
  BY <1>1, <1>3, <1>4 DEF GreeksInv, Settling

LEMMA GreeksNextKeeps == GreeksInv /\ [GreeksNext]_greeksVars => GreeksInv'
<1> SUFFICES ASSUME GreeksInv, [GreeksNext]_greeksVars PROVE GreeksInv'
  OBVIOUS
<1>1. CASE UNCHANGED greeksVars
  BY <1>1 DEF GreeksInv, GreeksTypeOK, InProgress, Settling, Alone, AddedUp, WrittenOut, Updating, greeksVars
<1>2. CASE GreeksNext
  BY <1>2, UpdateGreeksKeeps, ReadGreeksKeeps, ReadGreeksAgainKeeps, WriteNetKeeps, UpdateFailsKeeps
     DEF GreeksNext
<1>3. QED
  BY <1>1, <1>2

\* The inductive invariant: an update that runs alone knows the documents as they are.
THEOREM GreeksInductive == GreeksSpec => []GreeksInv
  BY GreeksInitInv, GreeksNextKeeps, PTL DEF GreeksSpec

\* The net greeks in Redis are the sums of the documents whenever no update runs,
\* unless two overlapped, one failed or one was given a key twice since an update
\* last ran alone to its end
\* (greeks_risk.py:29-38), for any number of documents and of callers.
THEOREM NetsSettle == GreeksSpec => []NetsAreTheSum
<1>1. GreeksInv => NetsAreTheSum
  BY DEF GreeksInv, Settling, NetsAreTheSum
<1>2. QED
  BY <1>1, GreeksInductive, PTL

-----------------------------------------------------------------------------
(* The backtester.                                                              *)
\* What a product with a quantity keeps.
LEMMA MoneyProducts ==
    /\ \A a, b \in Int : a * b \in Int
    /\ \A a, b \in Nat : a * b \in Nat
    /\ \A a \in Nat : \A b, c \in Int : b <= c => a * b <= a * c
    /\ \A a \in Nat, b \in Nat \ {0} : a <= a * b
  OBVIOUS

\* How often a row has been replayed once the running fold is through.
Times(i) == replays[i] + (IF i \in toReplay THEN 1 ELSE 0)

\* Where the windows so far have been: no row beyond the last of them has been seen, and
\* a row seen twice is one that two windows share, before the next of them.
SeenInv ==
    \A i \in DOMAIN History :
        /\ Times(i) > 0 => History[i].day + StepDays <= fold + TrainWindow + TestWindow
        /\ Times(i) > 1 => /\ Times(i) = 2 /\ Shared(History[i].day)
                           /\ History[i].day + StepDays <= fold + TrainWindow

RowsInv ==
    /\ toReplay \subseteq DOMAIN History /\ replays \in [DOMAIN History -> Nat]
    /\ fold \in Nat /\ \E n \in Nat : fold = TotalStart + n * StepDays
    /\ TestWindow <= StepDays => SeenInv

LEMMA BacktestInitInv == BacktestInit => RowsInv
<1> SUFFICES ASSUME BacktestInit PROVE RowsInv
  OBVIOUS
<1>1. /\ toReplay = {} /\ fold = TotalStart
      /\ replays \in [DOMAIN History -> Nat] /\ \A i \in DOMAIN History : replays[i] = 0
  BY DEF BacktestInit
<1>2. fold \in Nat /\ fold = TotalStart + 0 * StepDays
  BY <1>1, BacktesterAssumption
<1>3. \A i \in DOMAIN History : Times(i) = 0
  BY <1>1 DEF Times
<1>4. QED
  BY <1>1, <1>2, <1>3 DEF RowsInv, SeenInv

\* The row that is next is one of those yet to replay.
LEMMA NextRowIsLeft ==
    ASSUME RowsInv, toReplay # {} PROVE NextRow \in toReplay /\ NextRow \in DOMAIN History
<1>1. toReplay \in SUBSET Nat
  <2>1. DOMAIN History \subseteq Nat
    BY BacktesterAssumption
  <2>2. QED
    BY <2>1 DEF RowsInv
<1>2. \E i \in toReplay : \A j \in toReplay : i <= j
  BY <1>1, LeastNumber
<1>3. QED
  BY <1>2 DEF NextRow, RowsInv

\* A next fold begins where the last has ended or later.
LEMMA FoldsKeepRows == ASSUME RowsInv, NEW found \in BOOLEAN, RunFold(found) PROVE RowsInv'
<1> DEFINE first == fold + TrainWindow
           last == fold + TrainWindow + TestWindow
<1>1. /\ fold \in Nat /\ TrainWindow \in Nat /\ TestWindow \in Nat /\ TotalStart \in Nat
      /\ StepDays \in Nat \ {0} /\ TotalEnd \in Nat
      /\ \A i \in DOMAIN History : History[i].day \in Nat
  <2>1. \A i \in DOMAIN History : History[i] \in RowType
    BY BacktesterAssumption
  <2>2. \A i \in DOMAIN History : History[i].day \in Nat
    BY <2>1 DEF RowType
  <2>3. QED
    BY <2>2, BacktesterAssumption DEF RowsInv
<1>2. /\ fold' = fold + StepDays /\ replays' = replays /\ toReplay = {}
      /\ fold + TrainWindow + TestWindow <= TotalEnd
      /\ toReplay' \subseteq RowsBetween(first, last)
  BY DEF RunFold
<1>3. PICK n \in Nat : fold = TotalStart + n * StepDays
  BY DEF RowsInv
<1>4. n + 1 \in Nat /\ fold' = TotalStart + (n + 1) * StepDays /\ fold' \in Nat
  BY <1>1, <1>2, <1>3
<1>5. ASSUME TestWindow <= StepDays, NEW i \in DOMAIN History
      PROVE  /\ Times(i)' > 0 => History[i].day + StepDays <= fold' + TrainWindow + TestWindow
             /\ Times(i)' > 1 => /\ Times(i)' = 2 /\ Shared(History[i].day)
                                 /\ History[i].day + StepDays <= fold' + TrainWindow
  <2>1. /\ replays[i] \in Nat /\ Times(i) = replays[i]
        /\ Times(i)' = replays[i] + (IF i \in toReplay' THEN 1 ELSE 0)
    BY <1>2 DEF Times, RowsInv
  <2>2. /\ replays[i] > 0 => History[i].day + StepDays <= fold + TrainWindow + TestWindow
        /\ replays[i] > 1 => /\ replays[i] = 2 /\ Shared(History[i].day)
                             /\ History[i].day + StepDays <= fold + TrainWindow
    BY <1>5, <2>1 DEF RowsInv, SeenInv
  <2>3. CASE i \notin toReplay'
    BY <1>1, <1>2, <2>1, <2>2, <2>3
  <2>4. CASE i \in toReplay'
    <3>1. first <= History[i].day /\ History[i].day <= last /\ Times(i)' = replays[i] + 1
      BY <1>2, <2>1, <2>4 DEF RowsBetween
    <3>2. CASE replays[i] = 0
      BY <1>1, <1>2, <3>1, <3>2
    <3>3. CASE replays[i] > 0
      <4>1. History[i].day = first /\ StepDays = TestWindow
        BY <1>1, <1>5, <2>2, <3>1, <3>3
      <4>2. ~(replays[i] > 1)
        BY <1>1, <2>2, <4>1
      <4>3. n <= TotalEnd
        <5>1. n <= n * StepDays /\ n * StepDays \in Nat
          BY <1>1, <1>3, MoneyProducts
        <5>2. QED
          BY <1>1, <1>2, <1>3, <5>1
      <4>4. History[i].day = TotalStart + TrainWindow + n * StepDays
        <5>1. n * StepDays \in Nat
          BY <1>1, <1>3, MoneyProducts
        <5>2. QED
          BY <1>1, <1>3, <4>1, <5>1
      <4>5. Shared(History[i].day)
        BY <1>1, <1>3, <4>1, <4>3, <4>4 DEF Shared
      <4>6. QED
        BY <1>1, <1>2, <2>1, <3>1, <3>3, <4>1, <4>2, <4>5
    <3>4. QED
      BY <2>1, <3>2, <3>3
  <2>5. QED
    BY <2>3, <2>4
<1>6. toReplay' \subseteq DOMAIN History /\ replays' \in [DOMAIN History -> Nat]
  BY <1>2 DEF RowsBetween, RowsInv
<1>7. QED
  BY <1>4, <1>5, <1>6 DEF RowsInv, SeenInv

\* A row that is replayed is not replayed again by the same fold.
LEMMA ReplayKeepsRows ==
    ASSUME RowsInv, toReplay # {}, Replayed, UNCHANGED fold PROVE RowsInv'
<1>1. NextRow \in toReplay /\ NextRow \in DOMAIN History
  BY NextRowIsLeft
<1>2. /\ toReplay' = toReplay \ {NextRow} /\ replays' = [replays EXCEPT ![NextRow] = @ + 1]
      /\ toReplay \subseteq DOMAIN History /\ replays \in [DOMAIN History -> Nat]
  BY DEF Replayed, RowsInv
<1>3. ASSUME NEW i \in DOMAIN History PROVE Times(i)' = Times(i)
  <2>1. Times(i)' = replays'[i] + (IF i \in toReplay' THEN 1 ELSE 0)
    BY DEF Times
  <2>2. CASE i = NextRow
    BY <1>1, <1>2, <2>1, <2>2 DEF Times
  <2>3. CASE i # NextRow
    BY <1>1, <1>2, <2>1, <2>3 DEF Times
  <2>4. QED
    BY <2>2, <2>3
<1>4. toReplay' \subseteq DOMAIN History /\ replays' \in [DOMAIN History -> Nat]
  BY <1>1, <1>2
<1>5. SeenInv => SeenInv'
  BY <1>3 DEF SeenInv
<1>6. QED
  BY <1>4, <1>5 DEF RowsInv

LEMMA BacktestNextKeeps == RowsInv /\ [BacktestNext]_backtestVars => RowsInv'
<1> SUFFICES ASSUME RowsInv, [BacktestNext]_backtestVars PROVE RowsInv'
  OBVIOUS
<1>1. CASE UNCHANGED backtestVars
  BY <1>1 DEF backtestVars, RowsInv, SeenInv, Times
<1>2. ASSUME NEW found \in BOOLEAN, RunFold(found) PROVE RowsInv'
  BY <1>2, FoldsKeepRows
<1>3. CASE RowPasses
  BY <1>3, ReplayKeepsRows DEF RowPasses
<1>4. ASSUME NEW s \in Symbols, NEW side \in {"BUY", "SELL"}, NEW qty \in Quantities, RowFills(s, side, qty)
      PROVE  RowsInv'
  BY <1>4, ReplayKeepsRows DEF RowFills
<1>5. QED
  BY <1>1, <1>2, <1>3, <1>4 DEF BacktestNext

THEOREM RowsInductive == BacktestSpec => []RowsInv
  BY BacktestInitInv, BacktestNextKeeps, PTL DEF BacktestSpec

\* In the fills of all folds that walk_forward/runner.py joins, no tick is traded twice,
\* for any history and windows that do not overlap by configuration (TestWindow at most
\* StepDays): only the days that the inclusive query gives to two windows are traded
\* twice, and no day is traded more often.
THEOREM TicksAreCountedOnce == BacktestSpec => []TicksCountOnce
<1>1. RowsInv => TicksCountOnce
  <2> SUFFICES ASSUME RowsInv, TestWindow <= StepDays, NEW i \in DOMAIN History
               PROVE  replays[i] <= IF Shared(History[i].day) THEN 2 ELSE 1
    BY DEF TicksCountOnce
  <2>1. replays[i] \in Nat /\ Times(i) \in Nat /\ replays[i] <= Times(i)
    BY DEF RowsInv, Times
  <2>2. Times(i) > 1 => Times(i) = 2 /\ Shared(History[i].day)
    BY DEF RowsInv, SeenInv
  <2>3. QED
    BY <2>1, <2>2
<1>2. QED
  BY <1>1, RowsInductive, PTL

\* What the engine's money is made of.
MoneyInv ==
    /\ RowsInv /\ cash \in Int /\ fillCount \in Nat
    /\ holding \in [Symbols -> Int] /\ prices \in [Symbols -> Nat]

\* A change of one holding changes the value of all by that holding.
LEMMA MarkOfOneMore ==
    ASSUME NEW h \in [Symbols -> Int], NEW p \in [Symbols -> Nat], NEW s \in Symbols, NEW k \in Int
    PROVE  /\ MarkToMarket(h, p) \in Int
           /\ MarkToMarket([h EXCEPT ![s] = @ + k], p) = MarkToMarket(h, p) + k * p[s]
<1> DEFINE f == [u \in Symbols |-> h[u] * p[u]]
           h1 == [h EXCEPT ![s] = @ + k]
           g == [u \in Symbols |-> h1[u] * p[u]]
           rest == Symbols \ {s}
<1>1. IsFiniteSet(Symbols) /\ IsFiniteSet(rest)
  BY BacktesterAssumption, FS_Subset
<1>2. \A a, b \in Int : a * b \in Int
  OBVIOUS
<1>3. h1 \in [Symbols -> Int] /\ h1[s] = h[s] + k /\ \A u \in rest : h1[u] = h[u]
  OBVIOUS
<1>4. /\ \A u \in Symbols : f[u] = h[u] * p[u] /\ h[u] \in Int /\ p[u] \in Int
      /\ \A u \in Symbols : g[u] = h1[u] * p[u] /\ h1[u] \in Int
  BY <1>3
<1>5. MarkToMarket(h, p) = SumFunctionOnSet(f, Symbols) /\ MarkToMarket(h1, p) = SumFunctionOnSet(g, Symbols)
  BY DEF MarkToMarket
<1> HIDE DEF f, g, h1
<1>6. \A u \in Symbols : f[u] \in Int /\ g[u] \in Int
  BY <1>2, <1>4
<1>7. \A u \in rest : f[u] \in Int /\ g[u] = f[u]
  BY <1>3, <1>4, <1>6
<1>8. /\ SumFunctionOnSet(f, Symbols) = f[s] + SumFunctionOnSet(f, rest)
      /\ SumFunctionOnSet(g, Symbols) = g[s] + SumFunctionOnSet(g, rest)
  BY <1>1, <1>6, SumOfOneMore
<1>9. SumFunctionOnSet(f, rest) \in Int /\ SumFunctionOnSet(g, rest) = SumFunctionOnSet(f, rest)
  BY <1>1, <1>7, SumType, SumOfSame
<1>10. g[s] = f[s] + k * p[s]
  <2>1. \A a, b, c \in Int : (a + b) * c = a * c + b * c
    OBVIOUS
  <2>2. h[s] \in Int /\ p[s] \in Int /\ k \in Int
    BY <1>4
  <2>3. (h[s] + k) * p[s] = h[s] * p[s] + k * p[s]
    BY <2>1, <2>2, ZenonT(60)
  <2>4. QED
    BY <1>3, <1>4, <2>3
<1>11. k * p[s] \in Int
  BY <1>2, <1>4
<1>12. f[s] \in Int
  BY <1>6
<1>13. QED
  BY <1>5, <1>8, <1>9, <1>10, <1>11, <1>12 DEF h1

\* The price of a fill, against the quotes of its row, and its commission.
LEMMA FillCosts ==
    ASSUME NEW row \in RowType, NEW side \in {"BUY", "SELL"}, NEW qty \in Quantities, cash \in Int
    PROVE  /\ FillQty(row, qty) \in Nat /\ CashAfter(row, side, FillQty(row, qty)) \in Int
           /\ row.bid <= row.price /\ row.price <= row.ask =>
                CashAfter(row, side, FillQty(row, qty))
                  <= IF side = "BUY" THEN cash - FillQty(row, qty) * row.price
                     ELSE cash + FillQty(row, qty) * row.price
<1> DEFINE q == FillQty(row, qty)
           F == FillPrice(row, side)
           v == q * F
           part == v * Commission
           C == CommissionOn(row, side, q)
           worth == q * row.price
<1>1. /\ row.bid \in Nat /\ row.ask \in Nat /\ row.price \in Nat /\ row.depth \in Nat
      /\ qty \in Nat /\ Impact \in Nat /\ Commission \in Nat /\ Commission <= 10000
  BY BacktesterAssumption DEF RowType
<1>2. q \in Nat
  BY <1>1 DEF FillQty, Least, DefaultDepth
<1> HIDE DEF q
<1>3. /\ F \in Int
      /\ side = "BUY" => F >= row.ask
      /\ side = "SELL" => F <= row.bid
  <2> DEFINE up == row.ask * Impact
             down == row.bid * Impact
  <2>1. up \in Nat /\ down \in Nat
    BY <1>1, MoneyProducts
  <2>2. F = IF side = "BUY" THEN row.ask + up \div 10000 ELSE row.bid - down \div 10000
    BY DEF FillPrice
  <2> HIDE DEF up, down, F
  <2>3. up \div 10000 \in Nat /\ down \div 10000 \in Nat
    BY <2>1
  <2>4. QED
    BY <1>1, <2>2, <2>3
<1>4. /\ C = part \div 10000
      /\ CashAfter(row, side, q) = IF side = "BUY" THEN cash - v - C ELSE cash + v - C
  BY DEF CommissionOn, CashAfter
<1> HIDE DEF F, C
<1>5. v \in Int /\ part \in Int /\ worth \in Nat
  BY <1>1, <1>2, <1>3, MoneyProducts
<1>6. (v >= 0 => part >= 0) /\ (v < 0 => part >= v * 10000)
  <2>1. CASE v >= 0
    <3>1. v \in Nat
      BY <1>5, <2>1
    <3> HIDE DEF v
    <3>2. v * Commission \in Nat
      BY <1>1, <3>1, MoneyProducts
    <3>3. QED
      BY <2>1, <3>1, <3>2
  <2>2. CASE v < 0
    <3>1. PICK n \in Nat : n = 0 - v
      BY <1>5, <2>2
    <3> HIDE DEF v
    <3>2. v = 0 - n
      BY <1>5, <3>1
    <3>3. n * Commission <= n * 10000
      BY <1>1, MoneyProducts
    <3>4. v * Commission = 0 - (n * Commission) /\ n * Commission \in Int
      BY <1>1, <3>2
    <3>5. QED
      BY <1>1, <1>5, <2>2, <3>2, <3>3, <3>4
  <2>3. QED
    BY <1>5, <2>1, <2>2
<1> HIDE DEF part, v
<1>7. C \in Int /\ (v >= 0 => C >= 0) /\ (v < 0 => C >= v)
  BY <1>4, <1>5, <1>6
<1>8. ASSUME row.bid <= row.price, row.price <= row.ask
      PROVE  (side = "BUY" => v >= worth) /\ (side = "SELL" => v <= worth)
  <2>1. side = "BUY" => q * row.price <= q * F
    BY <1>1, <1>2, <1>3, <1>8, MoneyProducts
  <2>2. side = "SELL" => q * F <= q * row.price
    BY <1>1, <1>2, <1>3, <1>8, MoneyProducts
  <2>3. QED
    BY <1>5, <2>1, <2>2 DEF v
<1> HIDE DEF worth
<1>9. CashAfter(row, side, q) \in Int
  BY <1>4, <1>5, <1>7
<1>10. ASSUME row.bid <= row.price, row.price <= row.ask
       PROVE  CashAfter(row, side, q) <= IF side = "BUY" THEN cash - worth ELSE cash + worth
  <2>1. CASE side = "BUY"
    BY <1>4, <1>5, <1>7, <1>8, <1>10, <2>1
  <2>2. CASE side = "SELL"
    BY <1>4, <1>5, <1>7, <1>8, <1>10, <2>2
  <2>3. QED
    BY <2>1, <2>2
<1>11. QED
  BY <1>2, <1>9, <1>10 DEF q, worth

LEMMA MoneyInit == BacktestInit => MoneyInv
  BY BacktestInitInv, BacktesterAssumption DEF BacktestInit, MoneyInv

\* A row leaves prices of the symbols.
LEMMA PricesKept ==
    ASSUME MoneyInv, toReplay # {}, prices' = PricesAfter(History[NextRow])
    PROVE  /\ History[NextRow] \in RowType /\ History[NextRow].symbol \in Symbols
           /\ prices' \in [Symbols -> Nat]
           /\ prices'[History[NextRow].symbol] = History[NextRow].price
<1>1. History[NextRow] \in RowType
  BY NextRowIsLeft, BacktesterAssumption DEF MoneyInv
<1> DEFINE row == History[NextRow]
<1>2. row.symbol \in Symbols /\ row.price \in Nat /\ prices' = [prices EXCEPT ![row.symbol] = row.price]
  BY <1>1 DEF RowType, PricesAfter
<1> HIDE DEF row
<1>3. prices' \in [Symbols -> Nat] /\ prices'[row.symbol] = row.price
  BY <1>2 DEF MoneyInv
<1>4. QED
  BY <1>1, <1>2, <1>3 DEF row

LEMMA MoneyNext ==
    MoneyInv /\ [BacktestNext]_backtestVars =>
      /\ MoneyInv'
      /\ fillCount' > fillCount /\ filled'.own /\ History[NextRow].bid <= History[NextRow].price
           /\ History[NextRow].price <= History[NextRow].ask
         => FinalEquity' <= cash + MarkToMarket(holding, prices')
<1> SUFFICES ASSUME MoneyInv, [BacktestNext]_backtestVars
             PROVE  /\ MoneyInv'
                    /\ fillCount' > fillCount /\ filled'.own
                         /\ History[NextRow].bid <= History[NextRow].price
                         /\ History[NextRow].price <= History[NextRow].ask
                       => FinalEquity' <= cash + MarkToMarket(holding, prices')
  OBVIOUS
<1>1. RowsInv' /\ fillCount \in Nat
  BY BacktestNextKeeps DEF MoneyInv
<1>2. ~(fillCount > fillCount) /\ ~(0 > fillCount)
  BY <1>1
<1>3. CASE UNCHANGED backtestVars
  BY <1>1, <1>2, <1>3 DEF backtestVars, MoneyInv
<1>4. ASSUME NEW found \in BOOLEAN, RunFold(found) PROVE MoneyInv' /\ ~(fillCount' > fillCount)
  BY <1>1, <1>2, <1>4, BacktesterAssumption DEF RunFold, MoneyInv
<1>5. CASE RowPasses
  <2>1. prices' \in [Symbols -> Nat] /\ UNCHANGED <<cash, holding, fillCount>>
    BY <1>5, PricesKept DEF RowPasses
  <2>2. QED
    BY <1>1, <1>2, <2>1 DEF MoneyInv
<1>6. ASSUME NEW s \in Symbols, NEW side \in {"BUY", "SELL"}, NEW qty \in Quantities, RowFills(s, side, qty)
      PROVE  /\ MoneyInv'
             /\ filled'.own /\ History[NextRow].bid <= History[NextRow].price
                  /\ History[NextRow].price <= History[NextRow].ask
                => FinalEquity' <= cash + MarkToMarket(holding, prices')
  <2> DEFINE row == History[NextRow]
             done == FillQty(row, qty)
             k == IF side = "BUY" THEN done ELSE 0 - done
  <2>1. /\ toReplay # {} /\ prices' = PricesAfter(row) /\ cash' = CashAfter(row, side, done)
        /\ holding' = [holding EXCEPT ![s] = IF side = "BUY" THEN @ + done ELSE @ - done]
        /\ filled' = [symbol |-> s, own |-> s = row.symbol] /\ fillCount' = fillCount + 1
    BY <1>6 DEF RowFills
  <2>2. /\ row \in RowType /\ row.symbol \in Symbols /\ prices' \in [Symbols -> Nat]
        /\ prices'[row.symbol] = row.price
    BY <2>1, PricesKept
  <2>3. /\ done \in Nat /\ CashAfter(row, side, done) \in Int
        /\ row.bid <= row.price /\ row.price <= row.ask =>
             CashAfter(row, side, done)
               <= IF side = "BUY" THEN cash - done * row.price ELSE cash + done * row.price
    BY <2>2, FillCosts DEF MoneyInv
  <2>4. row.price \in Nat
    BY <2>2 DEF RowType
  <2> HIDE DEF row, done
  <2>5. k \in Int /\ holding \in [Symbols -> Int] /\ cash \in Int
    BY <2>3 DEF MoneyInv
  <2>6. holding' = [holding EXCEPT ![s] = @ + k]
    <3>1. holding[s] - done = holding[s] + (0 - done)
      BY <2>3, <2>5
    <3>2. holding[s] + k = IF side = "BUY" THEN holding[s] + done ELSE holding[s] - done
      BY <3>1
    <3> HIDE DEF k
    <3>3. QED
      BY <2>1, <3>2
  <2> HIDE DEF k
  <2>7. holding' \in [Symbols -> Int]
    BY <2>5, <2>6
  <2>8. MoneyInv'
    BY <1>1, <2>1, <2>2, <2>3, <2>7 DEF MoneyInv
  <2>9. /\ MarkToMarket(holding, prices') \in Int
        /\ MarkToMarket(holding', prices') = MarkToMarket(holding, prices') + k * prices'[s]
    BY <2>2, <2>5, <2>6, MarkOfOneMore
  <2>10. ASSUME s = row.symbol, row.bid <= row.price, row.price <= row.ask
         PROVE  FinalEquity' <= cash + MarkToMarket(holding, prices')
    <3>1. prices'[s] = row.price
      BY <2>2, <2>10
    <3>2. PICK worth \in Int : worth = done * row.price
      BY <2>3, <2>4, MoneyProducts
    <3>3. k * row.price = IF side = "BUY" THEN worth ELSE 0 - worth
      <4>1. CASE side = "BUY"
        BY <3>2, <4>1 DEF k
      <4>2. CASE side # "BUY"
        <5>1. \A a, b \in Nat : (0 - a) * b = 0 - a * b
          OBVIOUS
        <5>2. (0 - done) * row.price = 0 - done * row.price
          BY <2>3, <2>4, <5>1
        <5>3. QED
          BY <3>2, <4>2, <5>2 DEF k
      <4>3. QED
        BY <4>1, <4>2
    <3>4. FinalEquity' = cash' + (MarkToMarket(holding, prices') + k * row.price)
      BY <2>9, <3>1 DEF FinalEquity
    <3>5. cash' \in Int /\ cash' <= IF side = "BUY" THEN cash - worth ELSE cash + worth
      BY <2>1, <2>3, <2>10, <3>2
    <3>6. PICK mark \in Int : mark = MarkToMarket(holding, prices')
      BY <2>9
    <3>7. CASE side = "BUY"
      <4>1. FinalEquity' = cash' + (mark + worth) /\ cash' <= cash - worth
        BY <3>3, <3>4, <3>5, <3>6, <3>7
      <4>2. QED
        BY <2>5, <3>5, <3>6, <4>1
    <3>8. CASE side # "BUY"
      <4>1. FinalEquity' = cash' + (mark + (0 - worth)) /\ cash' <= cash + worth
        BY <3>3, <3>4, <3>5, <3>6, <3>8
      <4>2. QED
        BY <2>5, <3>5, <3>6, <4>1
    <3>9. QED
      BY <3>7, <3>8
  <2>11. filled'.own => s = row.symbol
    BY <2>1
  <2>12. QED
    BY <2>8, <2>10, <2>11 DEF row
<1>7. QED
  BY <1>3, <1>4, <1>5, <1>6, <1>2 DEF BacktestNext

\* A fill never makes money by itself (fill_model.py, _apply_fill): against the prices of
\* its own row it costs the spread, the impact and the commission, for any history,
\* quantities and symbols, as long as no commission exceeds the value of the fill.
THEOREM FillsNeverPay == BacktestSpec => FillsCostMoney
<1>1. MoneyInv /\ [BacktestNext]_backtestVars =>
        [fillCount' > fillCount /\ filled'.own /\ History[NextRow].bid <= History[NextRow].price
           /\ History[NextRow].price <= History[NextRow].ask
         => FinalEquity' <= cash + MarkToMarket(holding, prices')]_backtestVars
  BY MoneyNext
<1>2. QED
  BY <1>1, MoneyInit, MoneyNext, PTL DEF BacktestSpec, FillsCostMoney
=============================================================================
