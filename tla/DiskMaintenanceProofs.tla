------------------------ MODULE DiskMaintenanceProofs ------------------------
(***************************************************************************)
(* Proofs about the disk maintenance (DiskMaintenance), for any            *)
(* artifacts, sizes, ages, budgets and volumes: type correctness, that a   *)
(* pass ends, relieves what it can, and evicts nothing it need not.        *)
(***************************************************************************)
EXTENDS DiskMaintenance, FiniteSetTheorems, TLAPS

-----------------------------------------------------------------------------
(* Sums of sizes *)

\* A set of sets of artifacts that is not empty has a member with no smaller one
\* in it: what replaces an induction over the sizes of sets.
LEMMA DmSmallest ==
    ASSUME NEW T \in SUBSET (SUBSET DmKey), T # {}
    PROVE  \E s \in T : \A t \in T : ~(t \subseteq s /\ t # s)
<1>1. IsWellFoundedOn(StrictSubsetOrdering(DmKey), SUBSET DmKey)
  <2>1. FiniteSubsetsOf(DmKey) = SUBSET DmKey
    BY DmAssumption, FS_FiniteSubsetsOfFinite
  <2>2. IsWellFoundedOn(StrictSubsetOrdering(DmKey), FiniteSubsetsOf(DmKey))
    BY FS_StrictSubsetOrderingWellFounded
  <2> QED BY <2>1, <2>2
<1>2. PICK s \in T : \A t \in T : ~(<<t, s>> \in StrictSubsetOrdering(DmKey))
  BY <1>1, WFMin
<1>3. ASSUME NEW t \in T, t \subseteq s, t # s PROVE <<t, s>> \in StrictSubsetOrdering(DmKey)
  BY <1>3 DEF StrictSubsetOrdering
<1>4. \A t \in T : ~(t \subseteq s /\ t # s)
  BY <1>2, <1>3
<1> QED BY <1>4

\* The element a fold takes next, and the equation a fold's function solves.
DmPick(s) == CHOOSE x \in s : TRUE
DmSums(S, g) ==
    g = [s \in SUBSET S |-> IF s = {} THEN 0 ELSE DmAlloc[DmPick(s)] + g[s \ {DmPick(s)}]]

\* The sum of sizes is that of the function the fold chooses.
LEMMA DmFold ==
    ASSUME NEW S \in SUBSET DmKey
    PROVE  DmSizeOf[S] = (CHOOSE g : DmSums(S, g))[S]
BY DEF DmSizeOf, MapThenSumSet, MapThenFoldSet, DmSums, DmPick

\* Two solutions agree wherever both are defined.
LEMMA DmSumsAgree ==
    ASSUME NEW A \in SUBSET DmKey, NEW B \in SUBSET DmKey, NEW g, NEW h,
           DmSums(A, g), DmSums(B, h), NEW s \in SUBSET A, s \in SUBSET B
    PROVE  g[s] = h[s]
<1> DEFINE T == {t \in SUBSET s : g[t] # h[t]}
<1> SUFFICES ASSUME T # {} PROVE FALSE
  OBVIOUS
<1>1. T \in SUBSET (SUBSET DmKey)
  OBVIOUS
<1>2. PICK t \in T : \A u \in T : ~(u \subseteq t /\ u # t)
  BY <1>1, DmSmallest
<1>3. t \in SUBSET A /\ t \in SUBSET B
  BY <1>2
<1>4. CASE t = {}
  BY <1>2, <1>3, <1>4 DEF DmSums
<1>5. CASE t # {}
  <2>1. DmPick(t) \in t
    BY <1>5 DEF DmPick
  <2>2. g[t \ {DmPick(t)}] = h[t \ {DmPick(t)}]
    BY <1>2, <2>1
  <2>3. g[t] = DmAlloc[DmPick(t)] + g[t \ {DmPick(t)}] /\ h[t] = DmAlloc[DmPick(t)] + h[t \ {DmPick(t)}]
    BY <1>3, <1>5 DEF DmSums
  <2> QED BY <1>2, <2>2, <2>3
<1> QED BY <1>4, <1>5

\* A solution exists, and its values are natural numbers.
LEMMA DmSumsExist ==
    ASSUME NEW S \in SUBSET DmKey
    PROVE  \E g : DmSums(S, g) /\ g \in [SUBSET S -> Nat]
<1> DEFINE Solved(t) == \E g : DmSums(t, g) /\ g \in [SUBSET t -> Nat]
           T == {t \in SUBSET DmKey : ~Solved(t)}
<1> SUFFICES ASSUME T # {} PROVE FALSE
  OBVIOUS
<1>1. T \in SUBSET (SUBSET DmKey)
  OBVIOUS
<1>2. PICK t \in T : \A u \in T : ~(u \subseteq t /\ u # t)
  BY <1>1, DmSmallest
<1> DEFINE H(u) == CHOOSE g : DmSums(u, g) /\ g \in [SUBSET u -> Nat]
<1>3. ASSUME NEW u \in SUBSET t, u # t
      PROVE  DmSums(u, H(u)) /\ H(u) \in [SUBSET u -> Nat]
  <2>1. Solved(u)
    BY <1>2, <1>3
  <2> QED BY <2>1
<1> HIDE DEF H
<1> DEFINE g == [s \in SUBSET t |-> IF s = {} THEN 0
                                    ELSE DmAlloc[DmPick(s)] + H(s \ {DmPick(s)})[s \ {DmPick(s)}]]
<1>4. ASSUME NEW s \in SUBSET t, s # {}
      PROVE  /\ DmPick(s) \in s /\ s \ {DmPick(s)} \in SUBSET t /\ s \ {DmPick(s)} # t
             /\ DmAlloc[DmPick(s)] \in Nat
  BY <1>2, <1>4, DmAssumption DEF DmPick
<1>5. ASSUME NEW u \in SUBSET t, u # t PROVE g[u] = H(u)[u]
  <2>1. CASE u = {}
    BY <1>3, <1>5, <2>1 DEF DmSums
  <2>2. CASE u # {}
    <3> DEFINE v == u \ {DmPick(u)}
    <3>1. v \in SUBSET t /\ v # t /\ v \in SUBSET u
      BY <1>4, <2>2
    <3>2. DmSums(u, H(u)) /\ DmSums(v, H(v))
      BY <1>3, <1>5, <3>1
    <3>3. u \in SUBSET DmKey /\ v \in SUBSET DmKey
      BY <1>2
    <3> HIDE DEF v
    <3>4. H(u)[v] = H(v)[v]
      BY <3>1, <3>2, <3>3, DmSumsAgree
    <3>5. H(u)[u] = DmAlloc[DmPick(u)] + H(u)[v]
      BY <2>2, <3>2 DEF DmSums, v
    <3>6. g[u] = DmAlloc[DmPick(u)] + H(v)[v]
      BY <2>2 DEF v
    <3> QED BY <3>4, <3>5, <3>6
  <2> QED BY <2>1, <2>2
<1>6. g \in [SUBSET t -> Nat]
  <2>1. ASSUME NEW s \in SUBSET t, s # {}
        PROVE  DmAlloc[DmPick(s)] + H(s \ {DmPick(s)})[s \ {DmPick(s)}] \in Nat
    <3> DEFINE v == s \ {DmPick(s)}
    <3>1. H(v) \in [SUBSET v -> Nat] /\ DmAlloc[DmPick(s)] \in Nat
      BY <1>3, <1>4, <2>1
    <3> HIDE DEF v
    <3>2. H(v)[v] \in Nat
      BY <3>1
    <3> QED BY <3>1, <3>2 DEF v
  <2> QED BY <2>1
<1>7. DmSums(t, g)
  <2>1. ASSUME NEW s \in SUBSET t, s # {}
        PROVE  g[s] = DmAlloc[DmPick(s)] + g[s \ {DmPick(s)}]
    <3>1. g[s] = DmAlloc[DmPick(s)] + H(s \ {DmPick(s)})[s \ {DmPick(s)}]
      BY <2>1
    <3>2. s \ {DmPick(s)} \in SUBSET t /\ s \ {DmPick(s)} # t
      BY <1>4, <2>1
    <3> HIDE DEF g
    <3> QED BY <1>5, <3>1, <3>2
  <2>2. g[{}] = 0
    OBVIOUS
  <2>3. DOMAIN g = SUBSET t /\ g = [s \in DOMAIN g |-> g[s]]
    OBVIOUS
  <2> HIDE DEF g
  <2>4. g = [s \in SUBSET t |-> IF s = {} THEN 0 ELSE DmAlloc[DmPick(s)] + g[s \ {DmPick(s)}]]
    BY <2>1, <2>2, <2>3
  <2> QED BY <2>4 DEF DmSums
<1> QED BY <1>2, <1>6, <1>7

\* The size of a set of artifacts is a natural number; that of none is 0, that of
\* others the size of one of them and of the rest.
LEMMA DmSizeStep ==
    ASSUME NEW S \in SUBSET DmKey
    PROVE  /\ DmSize(S) \in Nat
           /\ S = {} => DmSize(S) = 0
           /\ S # {} => /\ DmPick(S) \in S
                        /\ DmSize(S) = DmAlloc[DmPick(S)] + DmSize(S \ {DmPick(S)})
<1> DEFINE G(A) == CHOOSE g : DmSums(A, g)
<1>1. ASSUME NEW A \in SUBSET DmKey
      PROVE  /\ DmSums(A, G(A)) /\ DmSize(A) = G(A)[A]
             /\ \E g : DmSums(A, g) /\ g \in [SUBSET A -> Nat]
  <2>1. \E g : DmSums(A, g) /\ g \in [SUBSET A -> Nat]
    BY DmSumsExist
  <2>2. DmSums(A, G(A))
    BY <2>1
  <2>3. DmSize(A) = G(A)[A]
    BY DmFold DEF DmSize
  <2> QED BY <2>1, <2>2, <2>3
<1> HIDE DEF G
<1>2. DmSize(S) \in Nat
  <2>1. PICK g : DmSums(S, g) /\ g \in [SUBSET S -> Nat]
    BY <1>1
  <2>2. DmSums(S, G(S)) /\ DmSize(S) = G(S)[S]
    BY <1>1
  <2>3. S \in SUBSET S
    OBVIOUS
  <2>4. g[S] = G(S)[S]
    BY <2>1, <2>2, <2>3, DmSumsAgree
  <2>5. g[S] \in Nat
    BY <2>1, <2>3
  <2> QED BY <2>2, <2>4, <2>5
<1>3. S = {} => DmSize(S) = 0
  BY <1>1 DEF DmSums
<1>4. ASSUME S # {}
      PROVE  DmPick(S) \in S /\ DmSize(S) = DmAlloc[DmPick(S)] + DmSize(S \ {DmPick(S)})
  <2>1. DmPick(S) \in S
    BY <1>4 DEF DmPick
  <2> DEFINE R == S \ {DmPick(S)}
  <2>2. R \in SUBSET DmKey /\ R \in SUBSET S
    OBVIOUS
  <2>3. G(S)[S] = DmAlloc[DmPick(S)] + G(S)[R]
    BY <1>1, <1>4 DEF DmSums
  <2> HIDE DEF R
  <2>a. DmSums(S, G(S)) /\ DmSums(R, G(R)) /\ R \in SUBSET R
    BY <1>1, <2>2
  <2>b. \A g, h : DmSums(S, g) /\ DmSums(R, h) => g[R] = h[R]
    BY <2>2, <2>a, DmSumsAgree
  <2>4. G(S)[R] = G(R)[R]
    BY <2>a, <2>b
  <2>5. DmSize(S) = DmAlloc[DmPick(S)] + DmSize(R)
    BY <1>1, <2>2, <2>3, <2>4
  <2> QED BY <2>1, <2>5 DEF R
<1> QED BY <1>2, <1>3, <1>4

-----------------------------------------------------------------------------
(* Numbers *)

\* Min and Max of two numbers, as the budget arithmetic uses them.
LEMMA DmMinMax ==
    ASSUME NEW m \in Nat, NEW n \in Nat
    PROVE  /\ Min({m, n}) = IF m <= n THEN m ELSE n
           /\ Max({m, n}) = IF m >= n THEN m ELSE n
<1>1. Min({m, n}) = IF m <= n THEN m ELSE n
  <2>1. \E x \in {m, n} : \A y \in {m, n} : x <= y
    OBVIOUS
  <2>2. Min({m, n}) \in {m, n} /\ \A y \in {m, n} : Min({m, n}) <= y
    BY <2>1 DEF Min
  <2> QED BY <2>2
<1>2. Max({m, n}) = IF m >= n THEN m ELSE n
  <2>1. \E x \in {m, n} : \A y \in {m, n} : x >= y
    OBVIOUS
  <2>2. Max({m, n}) \in {m, n} /\ \A y \in {m, n} : Max({m, n}) >= y
    BY <2>1 DEF Max
  <2> QED BY <2>2
<1> QED BY <1>1, <1>2

\* They are natural numbers.
LEMMA DmMinMaxNat ==
    ASSUME NEW m \in Nat, NEW n \in Nat
    PROVE  Min({m, n}) \in Nat /\ Max({m, n}) \in Nat
BY DmMinMax

DmBudgetType == [spec : {"Dynamic", "Bytes", "Percent"}, value : Nat]

\* The thresholds are natural numbers, whatever the volume and the policy.
LEMMA DmThresholds ==
    ASSUME dmBudget \in DmBudgetType
    PROVE  /\ DmLowSpace \in Nat /\ DmCriticalSpace \in Nat /\ DmRecoveryFree \in Nat
           /\ DmBudgetBytes \in Nat /\ DmOf(80) \in Nat /\ DmOf(70) \in Nat
<1>0. DmCapacity \in Nat
  BY DmAssumption
<1>1. (DmCapacity * 5) \div 100 \in Nat /\ DmCapacity \div 100 \in Nat
      /\ (DmCapacity * 8) \div 100 \in Nat /\ DmCapacity \div 2 \in Nat
  BY <1>0
<1>c. 5 \in Nat /\ 20 \in Nat /\ 30 \in Nat /\ 40 \in Nat /\ 200 \in Nat
  OBVIOUS
<1>2. DmLowSpace \in Nat
  <2>1. Max({(DmCapacity * 5) \div 100, 20}) \in Nat
    BY <1>1, <1>c, DmMinMaxNat, Zenon
  <2> QED BY <1>0, <2>1, DmMinMax DEF DmLowSpace
<1>3. DmCriticalSpace \in Nat
  <2>1. Max({DmCapacity \div 100, 5}) \in Nat
    BY <1>1, <1>c, DmMinMaxNat, Zenon
  <2> QED BY <1>2, <2>1, DmMinMax DEF DmCriticalSpace
<1>4. DmRecoveryFree \in Nat
  <2>1. Max({(DmCapacity * 8) \div 100, 30}) \in Nat
    BY <1>1, <1>c, DmMinMaxNat, Zenon
  <2> QED BY <1>1, <2>1, DmMinMax DEF DmRecoveryFree
<1>5. DmBudgetBytes \in Nat
  <2> DEFINE dynamic == Min({Max({(DmCapacity * 5) \div 100, 40}), 200})
             requested == CASE dmBudget.spec = "Dynamic" -> dynamic
                            [] dmBudget.spec = "Bytes" -> dmBudget.value
                            [] dmBudget.spec = "Percent" -> (DmCapacity * dmBudget.value) \div 100
  <2>1. dynamic \in Nat
    <3>1. Max({(DmCapacity * 5) \div 100, 40}) \in Nat
      BY <1>1, <1>c, DmMinMaxNat, Zenon
    <3> QED BY <1>c, <3>1, DmMinMaxNat, Zenon
  <2>2. dmBudget.value \in Nat /\ dmBudget.spec \in {"Dynamic", "Bytes", "Percent"}
    BY DEF DmBudgetType
  <2>3. (DmCapacity * dmBudget.value) \div 100 \in Nat
    <3>1. ASSUME NEW m \in Nat, NEW n \in Nat PROVE m * n \in Nat
      OBVIOUS
    <3>2. ASSUME NEW m \in Nat PROVE m \div 100 \in Nat
      OBVIOUS
    <3> QED BY <1>0, <2>2, <3>1, <3>2
  <2> HIDE DEF dynamic
  <2>4. requested \in Nat
    BY <2>1, <2>2, <2>3
  <2>5. DmMonus(DmCapacity, DmRecoveryFree) \in Nat
    BY <1>0, <1>4 DEF DmMonus
  <2>6. DmBudgetBytes = Min({requested, DmMonus(DmCapacity, DmRecoveryFree)})
    BY DEF DmBudgetBytes, dynamic
  <2> HIDE DEF requested
  <2> QED BY <2>4, <2>5, <2>6, DmMinMax
<1>6. DmOf(80) \in Nat /\ DmOf(70) \in Nat
  BY <1>5 DEF DmOf
<1> QED BY <1>2, <1>3, <1>4, <1>5, <1>6

-----------------------------------------------------------------------------
(* The planner *)

\* The parts of plan_maintenance_at_least, by name.
DmKeysOf(view) == {k \in DmKey : view[k].on}
DmExpiredOf(view) == {k \in DmKeysOf(view) : dmPass.kind = "Full" /\ view[k].age = 3}
DmUsageOf(view) ==
    DmMonus(DmSize(DmKeysOf(view)) + dmPass.pending + dmPass.retired, DmSize(DmExpiredOf(view)))
DmFreeOf(view) == DmFree + DmReclaimed(view, DmExpiredOf(view))
DmPressureOf(view, atLeast) ==
    IF atLeast = "Hard" \/ DmUsageOf(view) >= DmBudgetBytes \/ DmFreeOf(view) < DmCriticalSpace
    THEN "Hard"
    ELSE IF atLeast = "Soft" \/ DmFreeOf(view) < DmLowSpace \/ DmUsageOf(view) >= DmOf(85)
    THEN "Soft" ELSE "None"
DmUsageNeed(view, pressure) ==
    CASE pressure = "Hard" -> DmMonus(DmUsageOf(view), DmOf(80))
      [] pressure = "Soft" -> DmMonus(DmUsageOf(view), DmOf(70))
      [] OTHER -> 0
DmFreeNeed(view, pressure) ==
    IF pressure = "Hard" \/ (pressure = "Soft" /\ DmFreeOf(view) < DmLowSpace)
    THEN DmMonus(DmRecoveryFree, DmFreeOf(view)) ELSE 0
DmCandidates(view, pressure) ==
    {k \in DmKeysOf(view) \ DmExpiredOf(view) :
        \/ pressure = "Hard" /\ (~view[k].recent \/ view[k].age > 0)
        \/ view[k].age > 1}

\* A plan is what one order of the candidates gives.
LEMMA DmPlanIs ==
    ASSUME NEW view, NEW atLeast, NEW plan \in DmPlans(view, atLeast)
    PROVE  LET p == DmPressureOf(view, atLeast)
           IN  \E s \in DmOrders(view, DmCandidates(view, p)) :
                 plan = [pressure |-> p, expired |-> DmExpiredOf(view),
                         selected |-> DmExpiredOf(view) \cup
                           DmTaken(view, s, p, DmUsageNeed(view, p), DmFreeNeed(view, p))]
BY DEF DmPlans, DmKeysOf, DmExpiredOf, DmUsageOf, DmFreeOf, DmPressureOf, DmUsageNeed, DmFreeNeed,
       DmCandidates

\* The orders of a finite set are its permutations.
LEMMA DmOrderFacts ==
    ASSUME NEW view, NEW keys \in SUBSET DmKey, NEW s \in DmOrders(view, keys)
    PROVE  /\ DOMAIN s = 1..Cardinality(keys) /\ Cardinality(keys) \in Nat
           /\ \A i \in DOMAIN s : s[i] \in keys
           /\ \A k \in keys : \E i \in DOMAIN s : s[i] = k
           /\ \A i, j \in DOMAIN s : i < j => ~DmSortsBefore(view, s[j], s[i])
<1>1. IsFiniteSet(keys) /\ Cardinality(keys) \in Nat
  BY DmAssumption, FS_Subset, FS_CardinalityType
<1>2. /\ s \in [1..Cardinality(keys) -> keys]
      /\ \A i, j \in 1..Cardinality(keys) : i # j => s[i] # s[j]
      /\ \A i, j \in DOMAIN s : i < j => ~DmSortsBefore(view, s[j], s[i])
  BY DEF DmOrders, SetToSeqs
<1>3. ASSUME NEW k \in keys PROVE \E i \in DOMAIN s : s[i] = k
  <2> DEFINE D == 1..Cardinality(keys)
  <2>1. IsFiniteSet(D) /\ Cardinality(D) = Cardinality(keys)
    BY <1>1, FS_Interval
  <2>2. s \in Injection(D, keys)
    BY <1>2 DEF Injection, IsInjective
  <2> HIDE DEF D
  <2>3. s \in Surjection(D, keys)
    BY <1>1, <2>1, <2>2, FS_Injection
  <2> QED BY <2>3 DEF Surjection
<1> QED BY <1>1, <1>2, <1>3

\* The free space is a natural number.
LEMMA DmFreeNat ==
    ASSUME DmTypeOK
    PROVE  DmFree \in Nat
<1>1. DmOnDisk \in SUBSET DmKey
  BY DEF DmOnDisk
<1>2. DmSize(DmOnDisk) \in Nat
  BY <1>1, DmSizeStep
<1>3. dmOther + dmRetired + DmSize(DmOnDisk) \in Nat
  BY <1>2 DEF DmTypeOK
<1> QED BY <1>3, DmAssumption DEF DmFree, DmMonus

\* What the planner compares are natural numbers; the usage it considers is no
\* more than what it has seen, the free space no less than there is.
LEMMA DmNeedsNat ==
    ASSUME DmTypeOK, dmBudget \in DmBudgetType, NEW view, NEW pressure \in DmPressure
    PROVE  /\ DmUsageNeed(view, pressure) \in Nat /\ DmFreeNeed(view, pressure) \in Nat
           /\ DmUsageOf(view) \in Nat /\ DmFreeOf(view) \in Nat
           /\ DmUsageOf(view) <= DmSize(DmKeysOf(view)) + dmPass.pending + dmPass.retired
           /\ DmFreeOf(view) >= DmFree
           /\ DmExpiredOf(view) = {} =>
                /\ DmUsageOf(view) = DmSize(DmKeysOf(view)) + dmPass.pending + dmPass.retired
                /\ DmFreeOf(view) = DmFree
<1>0. DmFree \in Nat /\ dmPass.pending \in Nat /\ dmPass.retired \in Nat
  BY DmFreeNat DEF DmTypeOK
<1>1. DmKeysOf(view) \in SUBSET DmKey /\ DmExpiredOf(view) \in SUBSET DmKey
  BY DEF DmKeysOf, DmExpiredOf
<1> DEFINE given == {k \in DmExpiredOf(view) : ~view[k].shared}
<1>2. given \in SUBSET DmKey /\ (DmExpiredOf(view) = {} => given = {})
  BY <1>1
<1>3. DmReclaimed(view, DmExpiredOf(view)) = DmSize(given)
  BY DEF DmReclaimed
<1> HIDE DEF given
<1>4. /\ DmSize(DmKeysOf(view)) \in Nat /\ DmSize(DmExpiredOf(view)) \in Nat /\ DmSize(given) \in Nat
      /\ DmExpiredOf(view) = {} => DmSize(DmExpiredOf(view)) = 0 /\ DmSize(given) = 0
  BY <1>1, <1>2, DmSizeStep
<1>5. /\ DmUsageOf(view) \in Nat
      /\ DmUsageOf(view) <= DmSize(DmKeysOf(view)) + dmPass.pending + dmPass.retired
      /\ DmExpiredOf(view) = {} =>
           DmUsageOf(view) = DmSize(DmKeysOf(view)) + dmPass.pending + dmPass.retired
  BY <1>0, <1>4 DEF DmUsageOf, DmMonus
<1>6. /\ DmFreeOf(view) \in Nat /\ DmFreeOf(view) >= DmFree
      /\ DmExpiredOf(view) = {} => DmFreeOf(view) = DmFree
  BY <1>0, <1>3, <1>4 DEF DmFreeOf
<1>7. DmUsageNeed(view, pressure) \in Nat
  BY <1>5, DmThresholds DEF DmUsageNeed, DmMonus, DmPressure
<1>8. DmFreeNeed(view, pressure) \in Nat
  BY <1>6, DmThresholds DEF DmFreeNeed, DmMonus
<1> QED BY <1>5, <1>6, <1>7, <1>8

\* What a plan takes: the expired, and candidates for as long as one of the needs
\* is there.  What it means to take nothing: nothing is expired, and either no need
\* is left or what there is to take is linked elsewhere and would not help.
LEMMA DmPlanFacts ==
    ASSUME DmTypeOK, dmBudget \in DmBudgetType, NEW view, NEW atLeast,
           NEW plan \in DmPlans(view, atLeast),
           NEW p, p = DmPressureOf(view, atLeast)
    PROVE  /\ p \in DmPressure /\ plan \in DmPlanType
           /\ plan.pressure = p /\ plan.expired = DmExpiredOf(view)
           /\ plan.expired \subseteq plan.selected /\ plan.selected \subseteq DmKeysOf(view)
           /\ \A k \in plan.selected \ plan.expired :
                /\ k \in DmCandidates(view, p)
                /\ 0 < DmUsageNeed(view, p) \/ 0 < DmFreeNeed(view, p)
           /\ plan.selected = {} => \A k \in DmCandidates(view, p) :
                \/ DmUsageNeed(view, p) = 0 /\ DmFreeNeed(view, p) = 0
                \/ view[k].shared /\ ~(p = "Hard" /\ 0 < DmUsageNeed(view, p))
<1> DEFINE un == DmUsageNeed(view, p)
           fn == DmFreeNeed(view, p)
           cand == DmCandidates(view, p)
<1>1. p \in DmPressure
  BY DEF DmPressureOf, DmPressure
<1>2. un \in Nat /\ fn \in Nat
  BY <1>1, DmNeedsNat
<1>3. cand \in SUBSET DmKey /\ cand \subseteq DmKeysOf(view) /\ DmExpiredOf(view) \subseteq DmKeysOf(view)
      /\ DmKeysOf(view) \subseteq DmKey
  BY DEF DmCandidates, DmExpiredOf, DmKeysOf
<1>4. PICK s \in DmOrders(view, cand) :
        plan = [pressure |-> p, expired |-> DmExpiredOf(view),
                selected |-> DmExpiredOf(view) \cup DmTaken(view, s, p, un, fn)]
  BY DmPlanIs
<1> HIDE DEF un, fn, cand
<1>5. /\ DOMAIN s = 1..Cardinality(cand) /\ Cardinality(cand) \in Nat
      /\ \A i \in DOMAIN s : s[i] \in cand
      /\ \A k \in cand : \E i \in DOMAIN s : s[i] = k
      /\ \A i, j \in DOMAIN s : i < j => ~DmSortsBefore(view, s[j], s[i])
  BY <1>3, DmOrderFacts
<1> DEFINE Before(i) == {s[j] : j \in 1..(i - 1)}
           Goes(i) ==
             /\ \/ DmSize(Before(i)) < un
                \/ DmReclaimed(view, Before(i)) < fn
             /\ view[s[i]].shared => p = "Hard" /\ DmSize(Before(i)) < un
<1>6. DmTaken(view, s, p, un, fn) = {s[i] : i \in {j \in DOMAIN s : \A h \in 1..j : Goes(h)}}
  BY DEF DmTaken
<1>7. ASSUME NEW i \in DOMAIN s
      PROVE  /\ DmSize(Before(i)) \in Nat /\ DmReclaimed(view, Before(i)) \in Nat
             /\ i = 1 => DmSize(Before(i)) = 0 /\ DmReclaimed(view, Before(i)) = 0
  <2> DEFINE unshared == {k \in Before(i) : ~view[k].shared}
  <2>1. i \in 1..Cardinality(cand)
    BY <1>5
  <2>2. ASSUME NEW j \in 1..(i - 1) PROVE s[j] \in DmKey
    BY <1>3, <1>5, <2>1, <2>2
  <2>3. Before(i) \in SUBSET DmKey /\ unshared \in SUBSET DmKey
    BY <2>2
  <2>4. i = 1 => Before(i) = {} /\ unshared = {}
    OBVIOUS
  <2>5. DmReclaimed(view, Before(i)) = DmSize(unshared)
    BY DEF DmReclaimed
  <2> HIDE DEF Before, unshared
  <2> QED BY <2>3, <2>4, <2>5, DmSizeStep
<1> HIDE DEF Before
<1>8. ASSUME NEW k \in DmTaken(view, s, p, un, fn) PROVE k \in cand /\ (0 < un \/ 0 < fn)
  <2>1. PICK i \in DOMAIN s : k = s[i] /\ \A h \in 1..i : Goes(h)
    BY <1>6
  <2>2. i \in 1..i
    BY <1>5
  <2>3. Goes(i)
    BY <2>1, <2>2
  <2> QED BY <1>2, <1>5, <1>7, <2>1, <2>3
<1>9. ASSUME DmTaken(view, s, p, un, fn) = {}, NEW k \in cand
      PROVE  \/ un = 0 /\ fn = 0
             \/ view[k].shared /\ ~(p = "Hard" /\ 0 < un)
  <2>1. PICK i \in DOMAIN s : s[i] = k
    BY <1>5
  <2>2. 1 \in DOMAIN s /\ i \in Nat /\ i >= 1
    BY <1>5, <2>1
  <2>3. ~Goes(1)
    <3>1. \A h \in 1..1 : h = 1
      OBVIOUS
    <3>2. Goes(1) => s[1] \in DmTaken(view, s, p, un, fn)
      BY <1>6, <2>2, <3>1
    <3> QED BY <1>9, <3>2
  <2>4. DmSize(Before(1)) = 0 /\ DmReclaimed(view, Before(1)) = 0
    BY <1>7, <2>2
  <2>5. (un = 0 /\ fn = 0) \/ (view[s[1]].shared /\ ~(p = "Hard" /\ 0 < un))
    BY <1>2, <2>3, <2>4
  <2>6. view[s[1]].shared => view[k].shared
    <3>1. CASE i = 1
      BY <2>1, <3>1
    <3>2. CASE 1 < i
      BY <1>5, <2>1, <2>2, <3>2 DEF DmSortsBefore
    <3> QED BY <2>2, <3>1, <3>2
  <2> QED BY <2>5, <2>6
<1>10. plan \in DmPlanType
  BY <1>1, <1>3, <1>4, <1>8 DEF DmPlanType
<1>11. \A k \in plan.selected \ plan.expired : k \in cand /\ (0 < un \/ 0 < fn)
  BY <1>4, <1>8
<1>12. plan.selected = {} => \A k \in cand : \/ un = 0 /\ fn = 0
                                             \/ view[k].shared /\ ~(p = "Hard" /\ 0 < un)
  BY <1>4, <1>9
<1>13. plan.expired \subseteq plan.selected /\ plan.selected \subseteq DmKeysOf(view)
  BY <1>3, <1>4, <1>8
<1> QED BY <1>1, <1>4, <1>10, <1>11, <1>12, <1>13 DEF un, fn, cand

-----------------------------------------------------------------------------
(* Type correctness *)

DmPassType ==
    [pc : DmPc, kind : {"Full", "Pressure"}, view : [DmKey -> DmView],
     pending : Nat, retired : Nat, swept : BOOLEAN, pressure : DmPressure,
     plan : DmPlanType, evicted : BOOLEAN, rounds : Nat, undisturbed : BOOLEAN]

DmTypes == DmTypeOK /\ dmBudget \in DmBudgetType

\* The types hold initially.
LEMMA DmTypesInit == DmInit => DmTypes
<1> SUFFICES ASSUME DmInit PROVE DmTypes
  OBVIOUS
<1>1. PICK l \in DmLoads :
        /\ dmBudget = l.budget
        /\ dmDisk = [k \in DmKey |-> [on |-> TRUE, gen |-> 0, shared |-> k \in l.shared,
                                      age |-> l.ages[k]]]
        /\ dmOther = l.other /\ dmRetired = l.retired /\ dmPending = l.pending
  BY DEF DmInit
<1>2. /\ l.ages \in [DmKey -> 0..3] /\ l.shared \subseteq DmKey
      /\ {l.other, l.retired, l.pending} \subseteq Nat
      /\ l.budget \in [spec : {"Dynamic", "Bytes", "Percent"}, value : Nat]
  BY DmAssumption
<1>3. dmDisk \in [DmKey -> [on : BOOLEAN, gen : Nat, shared : BOOLEAN, age : DmAge]]
  <2>1. ASSUME NEW k \in DmKey
        PROVE  [on |-> TRUE, gen |-> 0, shared |-> k \in l.shared, age |-> l.ages[k]]
                 \in [on : BOOLEAN, gen : Nat, shared : BOOLEAN, age : DmAge]
    <3>1. (k \in l.shared) \in BOOLEAN
      OBVIOUS
    <3>2. l.ages[k] \in DmAge
      BY <1>2 DEF DmAge
    <3> QED BY <3>1, <3>2
  <2> QED BY <1>1, <2>1
<1>4. dmLive \in [DmKey -> [known : BOOLEAN, age : DmAge, published : BOOLEAN]]
  BY DEF DmInit, DmAge
<1>5. DmNoView \in [DmKey -> DmView] /\ DmNoPlan \in DmPlanType
  BY DEF DmNoView, DmView, DmAge, DmNoPlan, DmPlanType, DmPressure
<1>6. dmPass \in DmPassType
  BY <1>5 DEF DmInit, DmPassType, DmPc, DmPressure
<1>7. dmFullDue \in BOOLEAN /\ dmShutdown \in BOOLEAN
  BY Zenon DEF DmInit
<1>8. dmEvents \in 0..DmMaxEvents
  BY DmAssumption DEF DmInit
<1> QED BY <1>1, <1>2, <1>3, <1>4, <1>6, <1>7, <1>8 DEF DmTypes, DmTypeOK, DmPassType, DmBudgetType

\* What a scan and a refresh make is a view.
LEMMA DmRefreshedType ==
    ASSUME DmTypeOK, NEW view \in [DmKey -> DmView]
    PROVE  /\ DmRefreshed(view) \in [DmKey -> DmView]
           /\ \A k \in DmKey :
                /\ DmRefreshed(view)[k].on = view[k].on
                /\ DmRefreshed(view)[k].gen = view[k].gen
                /\ DmRefreshed(view)[k].shared = view[k].shared
                /\ DmRefreshed(view)[k].age = Min({view[k].age, dmLive[k].age})
                /\ DmRefreshed(view)[k].recent <=>
                     \/ dmLive[k].published
                     \/ k \in DmStaged /\ dmLive[k].known /\ view[k].age = 0
<1> SUFFICES ASSUME NEW k \in DmKey
             PROVE  /\ DmRefreshed(view)[k] \in DmView
                    /\ DmRefreshed(view)[k].on = view[k].on
                    /\ DmRefreshed(view)[k].gen = view[k].gen
                    /\ DmRefreshed(view)[k].shared = view[k].shared
                    /\ DmRefreshed(view)[k].age = Min({view[k].age, dmLive[k].age})
                    /\ DmRefreshed(view)[k].recent <=>
                         \/ dmLive[k].published
                         \/ k \in DmStaged /\ dmLive[k].known /\ view[k].age = 0
  BY DEF DmRefreshed
<1> DEFINE min == Min({view[k].age, dmLive[k].age})
           just == dmLive[k].published \/ (k \in DmStaged /\ dmLive[k].known /\ view[k].age = 0)
<1>1. DmRefreshed(view)[k] = [view[k] EXCEPT !.age = min, !.recent = just]
  BY DEF DmRefreshed
<1>2. view[k] \in DmView /\ dmLive[k].age \in DmAge /\ view[k].age \in DmAge
  BY DEF DmTypeOK, DmView
<1>3. min \in DmAge
  <2>1. view[k].age \in Nat /\ dmLive[k].age \in Nat
    BY <1>2 DEF DmAge
  <2>2. min = IF view[k].age <= dmLive[k].age THEN view[k].age ELSE dmLive[k].age
    BY <2>1, DmMinMax
  <2> QED BY <1>2, <2>2
<1>4. just \in BOOLEAN
  OBVIOUS
<1> HIDE DEF min, just
<1> DEFINE v == DmRefreshed(view)[k]
<1>6. v = [view[k] EXCEPT !.age = min, !.recent = just]
  BY <1>1
<1> HIDE DEF v
<1>p. PICK j \in BOOLEAN : j = just
  BY <1>4, Zenon
<1>q. v = [view[k] EXCEPT !.age = min, !.recent = j]
  BY <1>6, <1>p, Zenon
<1>r. /\ v \in DmView /\ v.on = view[k].on /\ v.gen = view[k].gen
      /\ v.shared = view[k].shared /\ v.age = min /\ v.recent = j
  BY <1>2, <1>3, <1>q DEF DmView
<1>7. /\ v \in DmView /\ v.on = view[k].on /\ v.gen = view[k].gen
      /\ v.shared = view[k].shared /\ v.age = min /\ v.recent = just
  BY <1>p, <1>r, Zenon
<1> QED BY <1>7, Zenon DEF min, just, v

\* What a scan sees of each artifact.
LEMMA DmScannedFacts ==
    ASSUME DmTypeOK
    PROVE  /\ DmScanned \in [DmKey -> DmView]
           /\ \A k \in DmKey :
                /\ DmScanned[k].on = dmDisk[k].on /\ DmScanned[k].gen = dmDisk[k].gen
                /\ DmScanned[k].shared = dmDisk[k].shared
                /\ DmScanned[k].age = DmLastUse(k)
<1> DEFINE raw == [k \in DmKey |->
                    [on |-> dmDisk[k].on, gen |-> dmDisk[k].gen, shared |-> dmDisk[k].shared,
                     age |-> dmDisk[k].age, recent |-> FALSE]]
<1>1. raw \in [DmKey -> DmView]
  BY DEF DmTypeOK, DmView
<1>2. \A k \in DmKey : /\ raw[k].on = dmDisk[k].on /\ raw[k].gen = dmDisk[k].gen
                       /\ raw[k].shared = dmDisk[k].shared /\ raw[k].age = dmDisk[k].age
  OBVIOUS
<1>3. DmScanned = DmRefreshed(raw)
  BY DEF DmScanned
<1> HIDE DEF raw
<1>4. /\ DmRefreshed(raw) \in [DmKey -> DmView]
      /\ \A k \in DmKey :
            /\ DmRefreshed(raw)[k].on = raw[k].on /\ DmRefreshed(raw)[k].gen = raw[k].gen
            /\ DmRefreshed(raw)[k].shared = raw[k].shared
            /\ DmRefreshed(raw)[k].age = Min({raw[k].age, dmLive[k].age})
  BY <1>1, DmRefreshedType
<1> QED BY <1>2, <1>3, <1>4 DEF DmLastUse


\* The fields of the pass, step by step.
LEMMA DmPassFields ==
    ASSUME DmTypes
    PROVE  /\ dmPass \in DmPassType /\ dmPass.pc \in DmPc /\ dmPass.view \in [DmKey -> DmView]
           /\ dmPass.pending \in Nat /\ dmPass.retired \in Nat /\ dmPass.rounds \in Nat
           /\ dmPass.swept \in BOOLEAN /\ dmPass.pressure \in DmPressure
           /\ dmPass.plan \in DmPlanType /\ dmPass.evicted \in BOOLEAN
           /\ dmPass.undisturbed \in BOOLEAN
           /\ dmDisk \in [DmKey -> [on : BOOLEAN, gen : Nat, shared : BOOLEAN, age : DmAge]]
           /\ dmLive \in [DmKey -> [known : BOOLEAN, age : DmAge, published : BOOLEAN]]
           /\ dmOther \in Nat /\ dmRetired \in Nat /\ dmPending \in Nat
           /\ dmEvents \in 0..DmMaxEvents
BY DEF DmTypes, DmTypeOK, DmPassType

\* What the start of a pass does to the pass.
LEMMA DmStartFacts ==
    ASSUME DmTypes, DmStart
    PROVE  /\ dmPass' \in DmPassType /\ dmPass'.pc = "scan" /\ dmPass'.pending = dmPending
           /\ dmPass'.swept = FALSE /\ dmPass'.rounds = 0 /\ dmPass'.undisturbed = TRUE
           /\ dmRetired' \in Nat
<1>1. dmPass' = [dmPass EXCEPT
         !.pc = "scan", !.kind = IF dmFullDue THEN "Full" ELSE "Pressure",
         !.pending = dmPending, !.swept = FALSE, !.pressure = "None", !.evicted = FALSE,
         !.rounds = 0, !.undisturbed = TRUE]
      /\ dmRetired' \in {0, dmRetired}
  BY DEF DmStart
<1>2. PICK kind \in {"Full", "Pressure"} : kind = IF dmFullDue THEN "Full" ELSE "Pressure"
  OBVIOUS
<1>3. dmPass' = [dmPass EXCEPT
         !.pc = "scan", !.kind = kind, !.pending = dmPending, !.swept = FALSE,
         !.pressure = "None", !.evicted = FALSE, !.rounds = 0, !.undisturbed = TRUE]
  BY <1>1, <1>2
<1>4. /\ "scan" \in DmPc /\ "None" \in DmPressure
      /\ 0 \in Nat /\ FALSE \in BOOLEAN /\ TRUE \in BOOLEAN
  BY DEF DmPc, DmPressure
<1>5. dmPass' \in DmPassType
  BY <1>3, <1>4, DmPassFields DEF DmPassType
<1>6. /\ dmPass'.pc = "scan" /\ dmPass'.pending = dmPending
      /\ dmPass'.rounds = 0
  BY <1>3, DmPassFields DEF DmPassType
<1>7. dmPass'.swept = FALSE /\ dmPass'.undisturbed = TRUE
  BY <1>3, DmPassFields DEF DmPassType
<1> QED BY <1>1, <1>5, <1>6, <1>7, DmPassFields

\* What the scan does to the pass.
LEMMA DmScanFacts ==
    ASSUME DmTypes, DmScan
    PROVE  /\ dmPass' \in DmPassType /\ dmPass.pc = "scan" /\ dmPass'.pc = "round"
           /\ dmPass'.view = DmScanned /\ dmPass'.retired = dmRetired
           /\ dmPass'.pending = dmPass.pending /\ dmPass'.kind = dmPass.kind
           /\ dmPass'.swept = dmPass.swept /\ dmPass'.rounds = dmPass.rounds
           /\ dmPass'.undisturbed = dmPass.undisturbed
<1>1. dmPass' = [dmPass EXCEPT !.pc = "round", !.view = DmScanned, !.retired = dmRetired]
      /\ dmPass.pc = "scan"
  BY DEF DmScan, DmPassAt
<1>2. DmScanned \in [DmKey -> DmView]
  BY DmScannedFacts DEF DmTypes
<1> QED BY <1>1, <1>2, DmPassFields DEF DmPassType, DmPc

\* What a shutdown between rounds does to the pass.
LEMMA DmStopFacts ==
    ASSUME DmTypes, DmStop
    PROVE  /\ dmPass' \in DmPassType /\ dmPass.pc = "round" /\ dmPass'.pc = "report"
           /\ dmPass'.undisturbed = FALSE /\ dmPass'.rounds = dmPass.rounds
BY DmPassFields DEF DmStop, DmPassAt, DmPassType, DmPc

\* What the sweep of retired stores does.
LEMMA DmSweepFacts ==
    ASSUME DmTypes, DmSweep
    PROVE  /\ dmPass' \in DmPassType /\ dmPass.pc = "round" /\ dmPass'.pc = "round"
           /\ dmRetired' \in Nat /\ dmPass'.retired = dmRetired'
           /\ dmPass.swept = FALSE /\ dmPass'.swept = TRUE
           /\ dmPass'.rounds = dmPass.rounds + 1
           /\ dmPass'.view = dmPass.view /\ dmPass'.pending = dmPass.pending
           /\ dmPass'.undisturbed = dmPass.undisturbed
<1>1. PICK left \in {0, dmRetired} :
        /\ dmRetired' = left
        /\ dmPass' = [dmPass EXCEPT !.swept = TRUE, !.retired = left, !.rounds = @ + 1]
  BY DEF DmSweep
<1>2. dmPass.pc = "round" /\ ~dmPass.swept
  BY DEF DmSweep, DmPassAt, DmSweepDue
<1>3. left \in Nat
  BY DmPassFields
<1>4. PICK n \in Nat : n = dmPass.rounds + 1
  BY DmPassFields
<1>5. dmPass' = [dmPass EXCEPT !.swept = TRUE, !.retired = left, !.rounds = n]
  BY <1>1, <1>4
<1>6. /\ dmPass' \in DmPassType /\ dmPass'.pc = dmPass.pc
      /\ dmPass'.retired = left /\ dmPass'.rounds = n
      /\ dmPass'.view = dmPass.view /\ dmPass'.pending = dmPass.pending
      /\ dmPass'.undisturbed = dmPass.undisturbed /\ dmPass'.swept = TRUE
  BY <1>3, <1>5, DmPassFields DEF DmPassType
<1> QED BY <1>1, <1>2, <1>3, <1>4, <1>6, DmPassFields

\* What a round without the barrier does to the pass.
LEMMA DmRoundFacts ==
    ASSUME DmTypes, DmRound
    PROVE  /\ dmPass' \in DmPassType /\ dmPass.pc = "round"
           /\ dmPass'.view = dmPass.view /\ dmPass'.pending = dmPass.pending
           /\ dmPass'.retired = dmPass.retired /\ dmPass'.kind = dmPass.kind
           /\ dmPass'.swept = dmPass.swept /\ dmPass'.undisturbed = dmPass.undisturbed
           /\ \E plan \in DmPlans(dmPass.view, dmPass.pressure) :
                /\ dmPass.swept \/ dmPass.retired = 0 \/ plan.pressure = "None"
                /\ IF plan.selected = {}
                   THEN dmPass'.pc = "report" /\ dmPass'.pressure = plan.pressure
                          /\ dmPass'.rounds = dmPass.rounds
                   ELSE dmPass'.pc = "commit" /\ dmPass'.pressure = dmPass.pressure
                          /\ dmPass'.rounds = dmPass.rounds + 1
<1>1. PICK plan \in DmPlans(dmPass.view, dmPass.pressure) :
         /\ ~DmSweepDue(plan)
         /\ dmPass' = IF plan.selected = {}
                      THEN [dmPass EXCEPT !.pc = "report", !.pressure = plan.pressure]
                      ELSE [dmPass EXCEPT !.pc = "commit", !.rounds = @ + 1]
  BY DEF DmRound
<1>2. dmPass.pc = "round"
  BY DEF DmRound, DmPassAt
<1>3. dmPass.swept \/ dmPass.retired = 0 \/ plan.pressure = "None"
  BY <1>1, DmPassFields DEF DmSweepDue
<1>4. plan.pressure \in DmPressure
  BY DmPlanFacts DEF DmTypes
<1>5. CASE plan.selected = {}
  <2>1. dmPass' = [dmPass EXCEPT !.pc = "report", !.pressure = plan.pressure]
    BY <1>1, <1>5
  <2>2. /\ dmPass' \in DmPassType
        /\ dmPass'.view = dmPass.view /\ dmPass'.pending = dmPass.pending
        /\ dmPass'.retired = dmPass.retired /\ dmPass'.kind = dmPass.kind
        /\ dmPass'.swept = dmPass.swept /\ dmPass'.undisturbed = dmPass.undisturbed
        /\ dmPass'.pc = "report" /\ dmPass'.pressure = plan.pressure
        /\ dmPass'.rounds = dmPass.rounds
    BY <2>1, <1>4, DmPassFields DEF DmPassType, DmPc
  <2> QED BY <1>2, <1>3, <1>5, <2>2
<1>6. CASE plan.selected # {}
  <2>0. PICK n \in Nat : n = dmPass.rounds + 1
    BY DmPassFields
  <2>1. dmPass' = [dmPass EXCEPT !.pc = "commit", !.rounds = n]
    BY <1>1, <1>6, <2>0
  <2>2. /\ dmPass' \in DmPassType
        /\ dmPass'.view = dmPass.view /\ dmPass'.pending = dmPass.pending
        /\ dmPass'.retired = dmPass.retired /\ dmPass'.kind = dmPass.kind
        /\ dmPass'.swept = dmPass.swept /\ dmPass'.undisturbed = dmPass.undisturbed
        /\ dmPass'.pc = "commit" /\ dmPass'.pressure = dmPass.pressure
        /\ dmPass'.rounds = n
    BY <2>1, DmPassFields DEF DmPassType, DmPc
  <2> QED BY <1>2, <1>3, <1>6, <2>0, <2>2
<1> QED BY <1>5, <1>6

\* What planning again under the barrier does to the pass.
LEMMA DmLockFacts ==
    ASSUME DmTypes, DmLock
    PROVE  /\ dmPass' \in DmPassType /\ dmPass.pc = "commit" /\ dmPass'.pc = "locked"
           /\ dmPass'.view = DmRefreshed(dmPass.view)
           /\ dmPass'.plan \in DmPlans(DmRefreshed(dmPass.view), dmPass.pressure)
           /\ dmPass'.pending = dmPass.pending
           /\ dmPass'.retired = dmPass.retired /\ dmPass'.kind = dmPass.kind
           /\ dmPass'.swept = dmPass.swept /\ dmPass'.undisturbed = dmPass.undisturbed
           /\ dmPass'.rounds = dmPass.rounds
<1> DEFINE v == DmRefreshed(dmPass.view)
<1>1. PICK plan \in DmPlans(v, dmPass.pressure) :
        dmPass' = [dmPass EXCEPT !.pc = "locked", !.view = v, !.plan = plan]
  BY DEF DmLock, DmLockedView
<1>2. dmPass.pc = "commit"
  BY DEF DmLock, DmPassAt
<1>3. v \in [DmKey -> DmView]
  BY DmPassFields, DmRefreshedType DEF DmTypes
<1> HIDE DEF v
<1>4. plan \in DmPlanType
  BY DmPlanFacts DEF DmTypes
<1>5. /\ dmPass' \in DmPassType /\ dmPass'.pc = "locked"
      /\ dmPass'.view = v /\ dmPass'.plan = plan
      /\ dmPass'.pending = dmPass.pending
      /\ dmPass'.retired = dmPass.retired /\ dmPass'.kind = dmPass.kind
      /\ dmPass'.swept = dmPass.swept /\ dmPass'.undisturbed = dmPass.undisturbed
      /\ dmPass'.rounds = dmPass.rounds
  BY <1>1, <1>3, <1>4, DmPassFields DEF DmPassType, DmPc
<1> QED BY <1>1, <1>2, <1>5 DEF v


\* The keys a removal may take.
DmRemovable == {k \in dmPass.plan.selected : DmUnchanged(k)}

\* What unlinking artifacts does to the disk.
LEMMA DmUnlinkFacts ==
    ASSUME DmTypes, NEW keys \in SUBSET DmKey, DmUnlink(keys)
    PROVE  /\ dmDisk' \in [DmKey -> [on : BOOLEAN, gen : Nat, shared : BOOLEAN, age : DmAge]]
           /\ \A k \in DmKey : dmDisk'[k].on <=> dmDisk[k].on /\ k \notin keys
           /\ dmOther' \in Nat
<1>1. ASSUME NEW k \in DmKey
      PROVE  /\ dmDisk'[k] \in [on : BOOLEAN, gen : Nat, shared : BOOLEAN, age : DmAge]
             /\ dmDisk'[k].on <=> dmDisk[k].on /\ k \notin keys
  <2>1. dmDisk[k] \in [on : BOOLEAN, gen : Nat, shared : BOOLEAN, age : DmAge]
    BY DmPassFields
  <2>2. dmDisk'[k] = IF k \in keys THEN [dmDisk[k] EXCEPT !.on = FALSE] ELSE dmDisk[k]
    BY DEF DmUnlink
  <2> QED BY <2>1, <2>2
<1> DEFINE linked == {k \in keys : dmDisk[k].shared}
<1>2. linked \in SUBSET DmKey
  OBVIOUS
<1>3. dmOther' = dmOther + DmSize(linked)
  BY DEF DmUnlink
<1> HIDE DEF linked
<1>4. DmSize(linked) \in Nat
  BY <1>2, DmSizeStep
<1>5. dmOther' \in Nat
  BY <1>3, <1>4, DmPassFields
<1>6. dmDisk' \in [DmKey -> [on : BOOLEAN, gen : Nat, shared : BOOLEAN, age : DmAge]]
  BY <1>1 DEF DmUnlink
<1> QED BY <1>1, <1>5, <1>6

\* What the removal under the barrier does.
LEMMA DmRemoveFacts ==
    ASSUME DmTypes, NEW deferred \in BOOLEAN, DmRemove(deferred)
    PROVE  /\ dmPass' \in DmPassType /\ dmPass.pc = "locked"
           /\ dmLive' \in [DmKey -> [known : BOOLEAN, age : DmAge, published : BOOLEAN]]
           /\ dmPass'.rounds = dmPass.rounds /\ dmPass'.pending = dmPass.pending
           /\ dmPass'.swept = dmPass.swept /\ dmPass'.kind = dmPass.kind
           /\ dmPass'.pressure = dmPass.plan.pressure
           /\ \E removed \in SUBSET DmRemovable :
                /\ DmUnlink(removed)
                /\ dmPass'.pc = IF removed = {} THEN "report" ELSE "scan"
                /\ dmPass'.undisturbed =>
                     dmPass.undisturbed /\ removed = dmPass.plan.selected
                /\ removed = {} => dmLive' = dmLive
<1> DEFINE removed == DmRemovable \ (IF deferred THEN DmStaged ELSE {})
           row == [known |-> FALSE, age |-> 3, published |-> FALSE]
<1>1. /\ dmPass.pc = "locked" /\ DmUnlink(removed)
      /\ dmLive' = [k \in DmKey |-> IF k \in removed THEN row ELSE dmLive[k]]
      /\ dmPass' = [dmPass EXCEPT
               !.pc = IF removed = {} THEN "report" ELSE "scan",
               !.pressure = dmPass.plan.pressure, !.plan = DmNoPlan,
               !.evicted = @ \/ removed # {},
               !.undisturbed = @ /\ removed = dmPass.plan.selected]
  BY DEF DmRemove, DmPassAt, DmRemovable
<1>2. removed \in SUBSET DmRemovable
  OBVIOUS
<1> HIDE DEF removed
<1>3. PICK e \in BOOLEAN : e = (dmPass.evicted \/ removed # {})
  BY Zenon
<1>4. PICK u \in BOOLEAN : u = (dmPass.undisturbed /\ removed = dmPass.plan.selected)
  BY Zenon
<1>5. PICK pc \in {"report", "scan"} : pc = IF removed = {} THEN "report" ELSE "scan"
  OBVIOUS
<1>6. dmPass' = [dmPass EXCEPT !.pc = pc, !.pressure = dmPass.plan.pressure, !.plan = DmNoPlan,
                    !.evicted = e, !.undisturbed = u]
  BY <1>1, <1>3, <1>4, <1>5, Zenon
<1>7. /\ pc \in DmPc /\ dmPass.plan.pressure \in DmPressure /\ DmNoPlan \in DmPlanType
  BY DmPassFields DEF DmPc, DmPlanType, DmNoPlan, DmPressure
<1>8. dmPass' \in DmPassType
  BY <1>6, <1>7, DmPassFields DEF DmPassType
<1>9. /\ dmPass'.rounds = dmPass.rounds /\ dmPass'.pending = dmPass.pending
      /\ dmPass'.kind = dmPass.kind
      /\ dmPass'.pressure = dmPass.plan.pressure /\ dmPass'.pc = pc
  BY <1>6, DmPassFields DEF DmPassType
<1>10. dmPass'.swept = dmPass.swept /\ dmPass'.undisturbed = u
  BY <1>6, DmPassFields DEF DmPassType
<1>11. /\ dmLive' \in [DmKey -> [known : BOOLEAN, age : DmAge, published : BOOLEAN]]
       /\ removed = {} => dmLive' = dmLive
  <2>1. row \in [known : BOOLEAN, age : DmAge, published : BOOLEAN]
    BY DEF DmAge
  <2> HIDE DEF row
  <2>2. dmLive \in [DmKey -> [known : BOOLEAN, age : DmAge, published : BOOLEAN]]
    BY DmPassFields
  <2> QED BY <1>1, <2>1, <2>2
<1>12. dmPass'.undisturbed => dmPass.undisturbed /\ removed = dmPass.plan.selected
  BY <1>4, <1>10, Zenon
<1>13. dmPass'.pc = IF removed = {} THEN "report" ELSE "scan"
  BY <1>5, <1>9, Zenon
<1> QED BY <1>1, <1>2, <1>8, <1>9, <1>10, <1>11, <1>12, <1>13, Zenon

\* What a removal that fails half-way does.
LEMMA DmRemoveFailsFacts ==
    ASSUME DmTypes, DmRemoveFails
    PROVE  /\ dmPass' \in DmPassType /\ dmPass.pc = "locked" /\ dmPass'.pc = "idle"
           /\ dmPass'.rounds = dmPass.rounds /\ dmPass'.undisturbed = FALSE
           /\ \E gone \in SUBSET DmRemovable : DmUnlink(gone)
<1>1. /\ dmPass.pc = "locked"
      /\ dmPass' = [dmPass EXCEPT !.pc = "idle", !.plan = DmNoPlan, !.undisturbed = FALSE]
      /\ \E gone \in SUBSET DmRemovable : DmUnlink(gone)
  BY DEF DmRemoveFails, DmPassAt, DmRemovable
<1>2. "idle" \in DmPc /\ DmNoPlan \in DmPlanType
  BY DEF DmPc, DmPlanType, DmNoPlan, DmPressure
<1>3. dmPass' \in DmPassType /\ dmPass'.pc = "idle"
      /\ dmPass'.rounds = dmPass.rounds /\ dmPass'.undisturbed = FALSE
  BY <1>1, <1>2, DmPassFields DEF DmPassType
<1> QED BY <1>1, <1>3

\* What the report does to the pass.
LEMMA DmReportFacts ==
    ASSUME DmTypes, NEW flushed \in BOOLEAN, DmReport(flushed)
    PROVE  /\ dmPass' \in DmPassType /\ dmPass'.pc = "idle"
           /\ dmPass.pc = "report" /\ dmPass'.rounds = dmPass.rounds
           /\ dmFullDue' \in BOOLEAN
<1>1. /\ dmPass' = [dmPass EXCEPT !.pc = "idle", !.view = DmNoView, !.retired = 0]
      /\ dmPass.pc = "report"
  BY DEF DmReport, DmPassAt
<1>2. DmNoView \in [DmKey -> DmView] /\ "idle" \in DmPc
  BY DEF DmNoView, DmView, DmAge, DmPc
<1>3. dmPass' \in DmPassType /\ dmPass'.pc = "idle" /\ dmPass'.rounds = dmPass.rounds
  BY <1>1, <1>2, DmPassFields DEF DmPassType
<1>4. dmFullDue' \in BOOLEAN
  BY Zenon DEF DmReport
<1> QED BY <1>1, <1>3, <1>4

\* What a disturbance does to the pass.
LEMMA DmDisturbFacts ==
    ASSUME DmTypes, DmDisturb
    PROVE  /\ dmPass' \in DmPassType /\ dmPass'.pc = dmPass.pc /\ dmPass'.view = dmPass.view
           /\ dmPass'.kind = dmPass.kind /\ dmPass'.pending = dmPass.pending
           /\ dmPass'.retired = dmPass.retired /\ dmPass'.swept = dmPass.swept
           /\ dmPass'.pressure = dmPass.pressure /\ dmPass'.plan = dmPass.plan
           /\ dmPass'.rounds = dmPass.rounds /\ dmPass'.undisturbed = FALSE
BY DmPassFields DEF DmDisturb, DmPassType

\* A disturbance is counted.
LEMMA DmEventFacts ==
    ASSUME DmTypes, DmEvent
    PROVE  dmEvents' \in 0..DmMaxEvents /\ dmEvents' = dmEvents + 1 /\ dmEvents \in Nat
BY DmPassFields, DmAssumption DEF DmEvent


\* What a hit does to disk and index.
LEMMA DmHitFacts ==
    ASSUME DmTypes, NEW k \in DmKey, DmHit(k)
    PROVE  /\ dmDisk' \in [DmKey -> [on : BOOLEAN, gen : Nat, shared : BOOLEAN, age : DmAge]]
           /\ dmLive' \in [DmKey -> [known : BOOLEAN, age : DmAge, published : BOOLEAN]]
           /\ dmPass.pc # "locked"
           /\ \A j \in DmKey : /\ dmDisk'[j].on = dmDisk[j].on /\ dmDisk'[j].gen = dmDisk[j].gen
                               /\ dmDisk'[j].age = dmDisk[j].age
                               /\ j # k => dmLive'[j] = dmLive[j]
           /\ dmLive'[k].age = 0
<1>1. /\ dmLive' = [dmLive EXCEPT ![k].known = TRUE, ![k].age = 0]
      /\ dmDisk' = [dmDisk EXCEPT ![k].shared = TRUE]
      /\ dmPass.pc # "locked"
  BY DEF DmHit, DmLease, DmPassAt
<1>2. /\ dmLive'[k] = [dmLive[k] EXCEPT !.known = TRUE, !.age = 0]
      /\ \A j \in DmKey : j # k => dmLive'[j] = dmLive[j]
  BY <1>1, DmPassFields
<1>3. dmLive'[k] \in [known : BOOLEAN, age : DmAge, published : BOOLEAN] /\ dmLive'[k].age = 0
  <2>1. dmLive[k] \in [known : BOOLEAN, age : DmAge, published : BOOLEAN] /\ 0 \in DmAge
    BY DmPassFields DEF DmAge
  <2> QED BY <1>2, <2>1
<1>4. dmLive' \in [DmKey -> [known : BOOLEAN, age : DmAge, published : BOOLEAN]]
  BY <1>1, <1>2, <1>3, DmPassFields
<1>5. /\ dmDisk' \in [DmKey -> [on : BOOLEAN, gen : Nat, shared : BOOLEAN, age : DmAge]]
      /\ \A j \in DmKey : /\ dmDisk'[j].on = dmDisk[j].on /\ dmDisk'[j].gen = dmDisk[j].gen
                          /\ dmDisk'[j].age = dmDisk[j].age
  BY <1>1, DmPassFields
<1> QED BY <1>1, <1>2, <1>3, <1>4, <1>5

\* Either kind of publication writes a new generation.
LEMMA DmNewGeneration ==
    ASSUME DmTypes, NEW k \in DmKey,
           dmDisk' = [dmDisk EXCEPT ![k] =
             [on |-> TRUE, gen |-> @.gen + 1, shared |-> FALSE, age |-> 0]]
    PROVE  /\ dmDisk' \in [DmKey -> [on : BOOLEAN, gen : Nat, shared : BOOLEAN, age : DmAge]]
           /\ \A j \in DmKey : j # k => dmDisk'[j] = dmDisk[j]
           /\ dmDisk'[k].on /\ dmDisk'[k].gen = dmDisk[k].gen + 1 /\ dmDisk'[k].age = 0
<1>1. dmDisk'[k] = [on |-> TRUE, gen |-> dmDisk[k].gen + 1, shared |-> FALSE, age |-> 0]
      /\ \A j \in DmKey : j # k => dmDisk'[j] = dmDisk[j]
  BY DmPassFields
<1>2. dmDisk[k].gen + 1 \in Nat /\ 0 \in DmAge
  BY DmPassFields DEF DmAge
<1>3. dmDisk'[k] \in [on : BOOLEAN, gen : Nat, shared : BOOLEAN, age : DmAge]
  BY <1>1, <1>2
<1>4. dmDisk' \in [DmKey -> [on : BOOLEAN, gen : Nat, shared : BOOLEAN, age : DmAge]]
  BY <1>1, <1>3, DmPassFields
<1> QED BY <1>1, <1>4

\* What a publication does to disk and index.
LEMMA DmPublishFacts ==
    ASSUME DmTypes, NEW k \in DmKey, DmPublish(k)
    PROVE  /\ dmLive' \in [DmKey -> [known : BOOLEAN, age : DmAge, published : BOOLEAN]]
           /\ dmPass.pc # "locked" /\ dmPending' \in Nat
           /\ \A j \in DmKey : j # k => dmLive'[j] = dmLive[j]
           /\ dmLive'[k].age = 0
<1>1. /\ dmLive' = [dmLive EXCEPT ![k] = [known |-> TRUE, age |-> 0, published |-> TRUE]]
      /\ dmPending' = 0 /\ dmPass.pc # "locked"
  BY DEF DmPublish, DmLease, DmPassAt
<1>2. [known |-> TRUE, age |-> 0, published |-> TRUE]
        \in [known : BOOLEAN, age : DmAge, published : BOOLEAN]
  BY DEF DmAge
<1> QED BY <1>1, <1>2, DmPassFields

\* Every step keeps the types.
LEMMA DmTypesStep == DmTypes /\ [DmNext]_dmVars => DmTypes'
<1> SUFFICES ASSUME DmTypes, [DmNext]_dmVars PROVE DmTypes'
  OBVIOUS
<1>0. ASSUME /\ dmPass' \in DmPassType
             /\ dmDisk' \in [DmKey -> [on : BOOLEAN, gen : Nat, shared : BOOLEAN, age : DmAge]]
             /\ dmLive' \in [DmKey -> [known : BOOLEAN, age : DmAge, published : BOOLEAN]]
             /\ dmOther' \in Nat /\ dmRetired' \in Nat /\ dmPending' \in Nat
             /\ dmEvents' \in 0..DmMaxEvents
             /\ dmFullDue' \in BOOLEAN /\ dmShutdown' \in BOOLEAN /\ dmBudget' = dmBudget
      PROVE  DmTypes'
  BY <1>0 DEF DmTypes, DmTypeOK, DmPassType
<1>t. /\ dmFullDue \in BOOLEAN /\ dmShutdown \in BOOLEAN
  BY DEF DmTypes, DmTypeOK
<1>1. CASE DmStart
  BY <1>0, <1>1, <1>t, DmStartFacts, DmPassFields DEF DmStart, DmKeepWorld
<1>2. CASE DmScan
  BY <1>0, <1>2, <1>t, DmScanFacts, DmPassFields DEF DmScan, DmKeepWorld
<1>3. CASE DmStop
  BY <1>0, <1>3, <1>t, DmStopFacts, DmPassFields DEF DmStop, DmKeepWorld
<1>4. CASE DmSweep
  BY <1>0, <1>4, <1>t, DmSweepFacts, DmPassFields DEF DmSweep, DmKeepWorld
<1>5. CASE DmRound
  BY <1>0, <1>5, <1>t, DmRoundFacts, DmPassFields DEF DmRound, DmKeepWorld
<1>6. CASE DmLock
  BY <1>0, <1>6, <1>t, DmLockFacts, DmPassFields DEF DmLock, DmKeepWorld
<1>s. DmRemovable \subseteq DmKey
  BY DmPassFields DEF DmRemovable, DmPlanType
<1>7. ASSUME NEW b \in BOOLEAN, DmRemove(b) PROVE DmTypes'
  <2>1. PICK removed \in SUBSET DmRemovable : DmUnlink(removed)
    BY <1>7, DmRemoveFacts
  <2>2. removed \in SUBSET DmKey
    BY <1>s
  <2>3. /\ dmDisk' \in [DmKey -> [on : BOOLEAN, gen : Nat, shared : BOOLEAN, age : DmAge]]
        /\ dmOther' \in Nat
    BY <2>1, <2>2, DmUnlinkFacts
  <2> QED BY <1>0, <1>7, <1>t, <2>3, DmRemoveFacts, DmPassFields DEF DmRemove
<1>8. CASE DmRemoveFails
  <2>1. PICK gone \in SUBSET DmRemovable : DmUnlink(gone)
    BY <1>8, DmRemoveFailsFacts
  <2>2. gone \in SUBSET DmKey
    BY <1>s
  <2>3. /\ dmDisk' \in [DmKey -> [on : BOOLEAN, gen : Nat, shared : BOOLEAN, age : DmAge]]
        /\ dmOther' \in Nat
    BY <2>1, <2>2, DmUnlinkFacts
  <2> QED BY <1>0, <1>8, <1>t, <2>3, DmRemoveFailsFacts, DmPassFields DEF DmRemoveFails
<1>9. ASSUME NEW b \in BOOLEAN, DmReport(b) PROVE DmTypes'
  BY <1>0, <1>9, <1>t, DmReportFacts, DmPassFields DEF DmReport, DmKeepWorld
<1>10. ASSUME NEW k \in DmKey, DmHit(k) PROVE DmTypes'
  <2>1. DmEvent /\ DmDisturb
    BY <1>10 DEF DmHit
  <2> QED BY <1>0, <1>10, <1>t, <2>1, DmHitFacts, DmEventFacts, DmDisturbFacts, DmPassFields DEF DmHit
<1>11. ASSUME NEW k \in DmKey, DmPublish(k) PROVE DmTypes'
  <2>1. DmEvent /\ DmDisturb
    BY <1>11 DEF DmPublish
  <2>2. dmDisk' \in [DmKey -> [on : BOOLEAN, gen : Nat, shared : BOOLEAN, age : DmAge]]
    BY <1>11, DmNewGeneration DEF DmPublish
  <2> QED BY <1>0, <1>11, <1>t, <2>1, <2>2, DmPublishFacts, DmEventFacts, DmDisturbFacts, DmPassFields DEF DmPublish
<1>12. ASSUME NEW k \in DmKey, DmForeignPublish(k) PROVE DmTypes'
  <2>1. DmEvent /\ DmDisturb
    BY <1>12 DEF DmForeignPublish
  <2>2. dmDisk' \in [DmKey -> [on : BOOLEAN, gen : Nat, shared : BOOLEAN, age : DmAge]]
    BY <1>12, DmNewGeneration DEF DmForeignPublish
  <2> QED BY <1>0, <1>12, <1>t, <2>1, <2>2, DmEventFacts, DmDisturbFacts, DmPassFields DEF DmForeignPublish
<1>13. ASSUME NEW l \in DmLoads, DmOtherUse(l.other) PROVE DmTypes'
  <2>1. DmEvent /\ DmDisturb
    BY <1>13 DEF DmOtherUse
  <2>2. dmOther' \in Nat
    BY <1>13, DmAssumption DEF DmOtherUse
  <2> QED BY <1>0, <1>13, <1>t, <2>1, <2>2, DmEventFacts, DmDisturbFacts, DmPassFields DEF DmOtherUse
<1>14. CASE DmRequestShutdown
  <2>1. DmEvent
    BY <1>14 DEF DmRequestShutdown
  <2> QED BY <1>0, <1>14, <1>t, <2>1, DmEventFacts, DmPassFields DEF DmRequestShutdown
<1>15. CASE UNCHANGED dmVars
  BY <1>0, <1>15, <1>t, DmPassFields DEF dmVars
<1> QED
  BY <1>1, <1>2, <1>3, <1>4, <1>5, <1>6, <1>7, <1>8, <1>9, <1>10, <1>11, <1>12, <1>13, <1>14, <1>15
  DEF DmNext, DmPassStep, DmEnvironment

\* Type correctness of the disk maintenance, for every set of artifacts, size of
\* the volume and initial situation (disk_maintenance.rs).
THEOREM DmTypeCorrect == DmSpec => []DmTypeOK
<1>1. DmTypes => DmTypeOK
  BY DEF DmTypes
<1> QED BY <1>1, DmTypesInit, DmTypesStep, PTL DEF DmSpec


-----------------------------------------------------------------------------
(* The inductive invariant *)

DmPlanning == dmPass.pc \in {"round", "commit", "locked"}

\* What the scan saw is still on disk, in that generation or a later one: only the
\* pass itself removes.
DmViewOK ==
    DmPlanning =>
        /\ dmPass.retired = dmRetired
        /\ \A k \in DmKey : /\ dmPass.view[k].on => dmDisk[k].on
                            /\ dmPass.view[k].gen <= dmDisk[k].gen

\* The refresh under the barrier makes up for the uses since the scan, of every
\* artifact that is still the one that was scanned; behind the barrier there are none.
DmFreshOK ==
    \A k \in DmKey : dmPass.view[k].on /\ DmUnchanged(k) =>
        /\ dmPass.pc \in {"round", "commit"} =>
             /\ Min({dmPass.view[k].age, dmLive[k].age}) = DmLastUse(k)
             /\ k \in DmStaged /\ dmDisk[k].age = 0 => dmPass.view[k].age = 0
        /\ dmPass.pc = "locked" =>
             /\ dmPass.view[k].age = DmLastUse(k)
             /\ DmJustPublished(k) => dmPass.view[k].recent

\* The plan agrees with the view it was made from.
DmPlanOK ==
    dmPass.pc = "locked" => \A k \in dmPass.plan.selected :
        /\ dmPass.view[k].on
        /\ \/ dmPass.kind = "Full" /\ dmPass.view[k].age = 3
           \/ dmPass.plan.pressure # "None" /\ dmPass.view[k].age > 1
           \/ /\ dmPass.plan.pressure = "Hard"
              /\ ~(dmPass.view[k].age = 0 /\ dmPass.view[k].recent)

\* What DmRelieved says, of a pressure.
DmRelievedAt(pressure) ==
    \A k \in DmOnDisk :
        LET mark == DmOf(IF pressure = "Hard" THEN 80 ELSE 70)
            helps == IF dmDisk[k].shared THEN DmUsage > mark /\ pressure = "Hard"
                     ELSE DmUsage > mark \/ (DmFree < DmRecoveryFree /\ DmFree < DmLowSpace)
        IN ~ /\ pressure # "None" /\ helps
             /\ DmLastUse(k) > 1 \/ (pressure = "Hard" /\ DmLastUse(k) = 1)

DmNeeded(pressure) ==
    /\ \/ DmUsage > DmOf(IF pressure = "Hard" THEN 80 ELSE 70)
       \/ DmFree < DmRecoveryFree
    /\ dmPass.swept \/ dmRetired = 0

DmViewExact ==
    /\ dmPass.pending = dmPending
    /\ \A k \in DmKey : /\ dmPass.view[k].on = dmDisk[k].on
                        /\ dmPass.view[k].shared = dmDisk[k].shared
                        /\ dmPass.view[k].age = DmLastUse(k)

\* While nobody interferes the pass sees the disk as it is, and what it is about to
\* do is what the disk needs.
DmQuietOK ==
    dmPass.undisturbed =>
        /\ dmPass.pc = "scan" => dmPass.pending = dmPending
        /\ DmPlanning => DmViewExact
        /\ dmPass.pc = "commit" =>
             \/ dmPass.swept \/ dmRetired = 0
             \/ DmPressureOf(dmPass.view, dmPass.pressure) = "None"
        /\ dmPass.pc = "locked" =>
             /\ dmPass.plan.selected = {} => DmRelievedAt(dmPass.plan.pressure)
             /\ dmPass.plan.selected \ dmPass.plan.expired # {} => DmNeeded(dmPass.plan.pressure)
        /\ dmPass.pc = "report" => DmRelievedAt(dmPass.pressure)

\* Every round is paid for: by the sweep, by an event, or by an artifact that went.
DmRoundsOK ==
    LET paid == Cardinality(DmKey) + dmEvents + (IF dmPass.swept THEN 1 ELSE 0)
        left == Cardinality(DmOnDisk)
    IN  /\ dmPass.pc \in {"scan", "round"} => dmPass.rounds + left <= paid
        /\ dmPass.pc \in {"commit", "locked"} =>
             /\ dmPass.rounds + left <= paid + 1
             /\ \E k \in DmKey : dmPass.view[k].on
        /\ DmRoundsBounded

DmInv == DmTypes /\ DmViewOK /\ DmFreshOK /\ DmPlanOK /\ DmQuietOK /\ DmRoundsOK


\* Steps that leave the planning, and steps that touch nothing the pass looks at.
DmLeaving == DmStart \/ DmStop \/ DmRemoveFails \/ \E b \in BOOLEAN : DmRemove(b) \/ DmReport(b)
DmResting ==
    UNCHANGED <<dmBudget, dmDisk, dmLive, dmOther, dmRetired, dmPending, dmPass>>

\* A step that leaves the rounds ends the pass or begins another.
LEMMA DmLeavingFacts ==
    ASSUME DmTypes, DmLeaving
    PROVE  dmPass'.pc \in {"idle", "scan", "report"}
<1>1. ASSUME NEW b \in BOOLEAN, DmRemove(b) PROVE dmPass'.pc \in {"idle", "scan", "report"}
  BY <1>1, DmRemoveFacts
<1>2. ASSUME NEW b \in BOOLEAN, DmReport(b) PROVE dmPass'.pc \in {"idle", "scan", "report"}
  BY <1>2, DmReportFacts
<1> QED BY <1>1, <1>2, DmStartFacts, DmStopFacts, DmRemoveFailsFacts DEF DmLeaving

\* The cases of a step, as the proofs below take them.
LEMMA DmCases ==
    ASSUME [DmNext]_dmVars
    PROVE  \/ DmLeaving \/ DmScan \/ DmSweep \/ DmRound \/ DmLock
           \/ \E k \in DmKey : DmHit(k) \/ DmPublish(k) \/ DmForeignPublish(k)
           \/ \E l \in DmLoads : DmOtherUse(l.other)
           \/ DmRequestShutdown /\ DmResting
           \/ UNCHANGED dmVars /\ DmResting
BY DEF DmNext, DmPassStep, DmEnvironment, DmLeaving, DmResting, DmRequestShutdown, dmVars

\* Every step keeps that what the scan saw is still on disk.
LEMMA DmViewStep == DmTypes /\ DmViewOK /\ [DmNext]_dmVars => DmViewOK'
<1> SUFFICES ASSUME DmTypes, DmViewOK, [DmNext]_dmVars, DmPlanning'
             PROVE  /\ dmPass'.retired = dmRetired'
                    /\ \A k \in DmKey : /\ dmPass'.view[k].on => dmDisk'[k].on
                                        /\ dmPass'.view[k].gen <= dmDisk'[k].gen
  BY DEF DmViewOK
<1>p. dmPass'.pc \in {"round", "commit", "locked"}
  BY DEF DmPlanning
<1>g. \A k \in DmKey : dmDisk[k].gen \in Nat /\ dmPass.view[k].gen \in Nat
  BY DmPassFields DEF DmView
<1>v. dmPass.pc \in {"round", "commit", "locked"} =>
        /\ dmPass.retired = dmRetired
        /\ \A k \in DmKey : /\ dmPass.view[k].on => dmDisk[k].on
                            /\ dmPass.view[k].gen <= dmDisk[k].gen
  BY DEF DmViewOK, DmPlanning
<1>1. CASE DmLeaving
  BY <1>1, <1>p, DmLeavingFacts
<1>2. CASE DmScan
  <2>1. dmDisk' = dmDisk /\ dmRetired' = dmRetired
    BY <1>2 DEF DmScan, DmKeepWorld
  <2>2. \A k \in DmKey : DmScanned[k].on = dmDisk[k].on /\ DmScanned[k].gen = dmDisk[k].gen
    BY DmScannedFacts DEF DmTypes
  <2> QED BY <1>2, <1>g, <2>1, <2>2, DmScanFacts
<1>3. CASE DmSweep
  <2>1. dmDisk' = dmDisk
    BY <1>3 DEF DmSweep, DmKeepWorld
  <2> QED BY <1>3, <1>v, <2>1, DmSweepFacts
<1>4. CASE DmRound
  <2>1. dmDisk' = dmDisk /\ dmRetired' = dmRetired
    BY <1>4 DEF DmRound, DmKeepWorld
  <2> QED BY <1>4, <1>v, <2>1, DmRoundFacts
<1>5. CASE DmLock
  <2>1. dmDisk' = dmDisk /\ dmRetired' = dmRetired
    BY <1>5 DEF DmLock, DmKeepWorld
  <2>2. \A k \in DmKey : /\ DmRefreshed(dmPass.view)[k].on = dmPass.view[k].on
                         /\ DmRefreshed(dmPass.view)[k].gen = dmPass.view[k].gen
    BY DmPassFields, DmRefreshedType DEF DmTypes
  <2> QED BY <1>5, <1>v, <2>1, <2>2, DmLockFacts
<1>6. ASSUME NEW k \in DmKey, DmHit(k) \/ DmPublish(k) \/ DmForeignPublish(k)
      PROVE  /\ dmPass'.retired = dmRetired'
             /\ \A j \in DmKey : /\ dmPass'.view[j].on => dmDisk'[j].on
                                 /\ dmPass'.view[j].gen <= dmDisk'[j].gen
  <2>1. dmPass'.pc = dmPass.pc /\ dmPass'.view = dmPass.view /\ dmPass'.retired = dmPass.retired
        /\ dmRetired' = dmRetired
    BY <1>6, DmDisturbFacts DEF DmHit, DmPublish, DmForeignPublish
  <2>2. \A j \in DmKey : (dmDisk[j].on => dmDisk'[j].on)
                         /\ (dmDisk'[j].gen = dmDisk[j].gen \/ dmDisk'[j].gen = dmDisk[j].gen + 1)
    <3>1. CASE DmHit(k)
      BY <3>1, DmHitFacts
    <3>2. CASE DmPublish(k) \/ DmForeignPublish(k)
      <4>1. /\ \A j \in DmKey : j # k => dmDisk'[j] = dmDisk[j]
            /\ dmDisk'[k].on /\ dmDisk'[k].gen = dmDisk[k].gen + 1
        BY <3>2, DmNewGeneration DEF DmPublish, DmForeignPublish
      <4> QED BY <4>1
    <3> QED BY <1>6, <3>1, <3>2
  <2> QED BY <1>g, <1>p, <1>v, <2>1, <2>2
<1>7. ASSUME NEW l \in DmLoads, DmOtherUse(l.other)
      PROVE  /\ dmPass'.retired = dmRetired'
             /\ \A j \in DmKey : /\ dmPass'.view[j].on => dmDisk'[j].on
                                 /\ dmPass'.view[j].gen <= dmDisk'[j].gen
  <2>1. dmPass'.pc = dmPass.pc /\ dmPass'.view = dmPass.view /\ dmPass'.retired = dmPass.retired
        /\ dmRetired' = dmRetired /\ dmDisk' = dmDisk
    BY <1>7, DmDisturbFacts DEF DmOtherUse
  <2> QED BY <1>p, <1>v, <2>1
<1>8. CASE DmResting
  BY <1>8, <1>p, <1>v DEF DmResting
<1> QED BY <1>1, <1>2, <1>3, <1>4, <1>5, <1>6, <1>7, <1>8, DmCases

\* Every step keeps that, under the barrier, the view is fresh.
LEMMA DmFreshStep == DmTypes /\ DmViewOK /\ DmFreshOK /\ [DmNext]_dmVars => DmFreshOK'
<1> SUFFICES ASSUME DmTypes, DmViewOK, DmFreshOK, [DmNext]_dmVars,
                    NEW k \in DmKey, dmPass'.view[k].on, DmUnchanged(k)'
             PROVE  /\ dmPass'.pc \in {"round", "commit"} =>
                         /\ Min({dmPass'.view[k].age, dmLive'[k].age}) = DmLastUse(k)'
                         /\ k \in DmStaged /\ dmDisk'[k].age = 0 => dmPass'.view[k].age = 0
                    /\ dmPass'.pc = "locked" =>
                         /\ dmPass'.view[k].age = DmLastUse(k)'
                         /\ DmJustPublished(k)' => dmPass'.view[k].recent
  BY DEF DmFreshOK
<1> DEFINE Goal == /\ dmPass'.pc \in {"round", "commit"} =>
                         /\ Min({dmPass'.view[k].age, dmLive'[k].age}) = DmLastUse(k)'
                         /\ k \in DmStaged /\ dmDisk'[k].age = 0 => dmPass'.view[k].age = 0
                   /\ dmPass'.pc = "locked" =>
                         /\ dmPass'.view[k].age = DmLastUse(k)'
                         /\ DmJustPublished(k)' => dmPass'.view[k].recent
<1>t. /\ dmDisk[k].gen \in Nat /\ dmPass.view[k].gen \in Nat
      /\ dmDisk[k].age \in Nat /\ dmLive[k].age \in Nat /\ dmPass.view[k].age \in Nat
  <2>1. /\ dmDisk[k] \in [on : BOOLEAN, gen : Nat, shared : BOOLEAN, age : DmAge]
        /\ dmLive[k] \in [known : BOOLEAN, age : DmAge, published : BOOLEAN]
        /\ dmPass.view[k] \in DmView
    BY DmPassFields
  <2>2. DmAge \subseteq Nat
    BY DEF DmAge
  <2> QED BY <2>1, <2>2 DEF DmView
<1>m. DmLastUse(k) = IF dmDisk[k].age <= dmLive[k].age THEN dmDisk[k].age ELSE dmLive[k].age
  BY <1>t, DmMinMax DEF DmLastUse
<1>f. dmPass.view[k].on /\ dmDisk[k].on /\ (k \in DmStaged => dmDisk[k].gen = dmPass.view[k].gen) =>
        /\ dmPass.pc \in {"round", "commit"} =>
             /\ Min({dmPass.view[k].age, dmLive[k].age}) = DmLastUse(k)
             /\ k \in DmStaged /\ dmDisk[k].age = 0 => dmPass.view[k].age = 0
        /\ dmPass.pc = "locked" =>
             /\ dmPass.view[k].age = DmLastUse(k)
             /\ DmJustPublished(k) => dmPass.view[k].recent
  BY DEF DmFreshOK, DmUnchanged
<1>u. dmDisk'[k].on /\ (k \in DmStaged => dmDisk'[k].gen = dmPass'.view[k].gen)
  BY DEF DmUnchanged
<1>1. CASE DmLeaving
  BY <1>1, DmLeavingFacts
<1>2. CASE DmScan
  <2>1. dmDisk' = dmDisk /\ dmLive' = dmLive
    BY <1>2 DEF DmScan, DmKeepWorld
  <2>2. dmPass'.view[k].age = DmLastUse(k) /\ dmPass'.pc = "round"
    BY <1>2, DmScanFacts, DmScannedFacts DEF DmTypes
  <2>3. DmLastUse(k)' = DmLastUse(k)
    BY <2>1 DEF DmLastUse
  <2>4. DmLastUse(k) \in Nat
    BY <1>m, <1>t
  <2>5. Min({DmLastUse(k), dmLive[k].age}) = DmLastUse(k)
    BY <1>m, <1>t, <2>4, DmMinMax
  <2> QED BY <1>m, <1>t, <2>1, <2>2, <2>3, <2>5
<1>3. CASE DmSweep \/ DmRound
  <2>1. dmDisk' = dmDisk /\ dmLive' = dmLive
    BY <1>3 DEF DmSweep, DmRound, DmKeepWorld
  <2>2. dmPass'.view = dmPass.view /\ dmPass.pc = "round" /\ dmPass'.pc # "locked"
    BY <1>3, DmSweepFacts, DmRoundFacts
  <2>3. DmLastUse(k)' = DmLastUse(k)
    BY <2>1 DEF DmLastUse
  <2> QED BY <1>f, <1>u, <2>1, <2>2, <2>3
<1>4. CASE DmLock
  <2>1. dmDisk' = dmDisk /\ dmLive' = dmLive
    BY <1>4 DEF DmLock, DmKeepWorld
  <2>2. /\ dmPass'.view[k].on = dmPass.view[k].on /\ dmPass'.view[k].gen = dmPass.view[k].gen
        /\ dmPass'.view[k].age = Min({dmPass.view[k].age, dmLive[k].age})
        /\ dmPass'.view[k].recent <=>
             \/ dmLive[k].published
             \/ k \in DmStaged /\ dmLive[k].known /\ dmPass.view[k].age = 0
    <3>1. dmPass.view \in [DmKey -> DmView] /\ DmTypeOK
      BY DmPassFields DEF DmTypes
    <3> DEFINE w == DmRefreshed(dmPass.view)
    <3>2. /\ w[k].on = dmPass.view[k].on /\ w[k].gen = dmPass.view[k].gen
          /\ w[k].age = Min({dmPass.view[k].age, dmLive[k].age})
          /\ w[k].recent <=>
               \/ dmLive[k].published
               \/ k \in DmStaged /\ dmLive[k].known /\ dmPass.view[k].age = 0
      BY <3>1, DmRefreshedType, Zenon
    <3>3. dmPass'.view = w
      BY <1>4, DmLockFacts
    <3> HIDE DEF w
    <3> QED BY <3>2, <3>3, Zenon
  <2>3. DmLastUse(k)' = DmLastUse(k) /\ (DmJustPublished(k)' <=> DmJustPublished(k))
    BY <2>1 DEF DmLastUse, DmJustPublished
  <2>4. dmPass.pc = "commit" /\ dmPass'.pc = "locked"
    BY <1>4, DmLockFacts
  <2>5. /\ Min({dmPass.view[k].age, dmLive[k].age}) = DmLastUse(k)
        /\ k \in DmStaged /\ dmDisk[k].age = 0 => dmPass.view[k].age = 0
    BY <1>f, <1>u, <2>1, <2>2, <2>4
  <2>6. DmJustPublished(k) => dmPass'.view[k].recent
    BY <2>2, <2>5 DEF DmJustPublished
  <2> QED BY <2>2, <2>3, <2>4, <2>5, <2>6
<1>5. ASSUME NEW j \in DmKey, DmHit(j) \/ DmPublish(j) \/ DmForeignPublish(j) PROVE Goal
  <2>1. dmPass'.pc = dmPass.pc /\ dmPass'.view = dmPass.view
    BY <1>5, DmDisturbFacts DEF DmHit, DmPublish, DmForeignPublish
  <2>2. CASE DmForeignPublish(j) /\ j = k
    <3>1. dmDisk'[k].gen = dmDisk[k].gen + 1 /\ k \in DmStaged
      BY <2>2, DmNewGeneration DEF DmForeignPublish
    <3>2. dmPass.pc \in {"round", "commit", "locked"} => dmPass.view[k].gen <= dmDisk[k].gen
      BY DEF DmViewOK, DmPlanning
    <3> QED BY <1>t, <1>u, <2>1, <3>1, <3>2
  <2>3. CASE (DmHit(j) \/ DmPublish(j)) /\ j = k
    <3>1. dmPass.pc # "locked" /\ dmLive'[k].age = 0
      BY <2>3, DmHitFacts, DmPublishFacts
    <3>2. dmDisk'[k].age \in Nat
      <4>1. DmTypeOK'
        BY DmTypesStep DEF DmTypes
      <4>2. dmDisk' \in [DmKey -> [on : BOOLEAN, gen : Nat, shared : BOOLEAN, age : DmAge]]
        BY <4>1 DEF DmTypeOK
      <4> QED BY <4>2 DEF DmAge
    <3>3. \A n \in Nat : Min({n, 0}) = 0
      BY DmMinMax
    <3>4. DmLastUse(k)' = 0
      BY <3>1, <3>2, <3>3 DEF DmLastUse
    <3>5. Min({dmPass'.view[k].age, dmLive'[k].age}) = 0
      BY <1>t, <2>1, <3>1, <3>3
    <3>6. dmPass'.pc \in {"round", "commit"} /\ k \in DmStaged /\ dmDisk'[k].age = 0
            => dmPass'.view[k].age = 0
      <4>1. CASE DmHit(k)
        <5>1. /\ dmDisk'[k].age = dmDisk[k].age /\ dmDisk'[k].gen = dmDisk[k].gen
              /\ dmDisk'[k].on = dmDisk[k].on
          BY <4>1, DmHitFacts
        <5> QED BY <1>f, <1>u, <2>1, <5>1
      <4>2. CASE DmPublish(k)
        <5>1. dmDisk'[k].gen = dmDisk[k].gen + 1
          BY <4>2, DmNewGeneration DEF DmPublish
        <5>2. dmPass.pc \in {"round", "commit", "locked"} => dmPass.view[k].gen <= dmDisk[k].gen
          BY DEF DmViewOK, DmPlanning
        <5> QED BY <1>t, <1>u, <2>1, <5>1, <5>2
      <4> QED BY <2>3, <4>1, <4>2
    <3> QED BY <2>1, <3>1, <3>4, <3>5, <3>6
  <2>4. CASE j # k
    <3>1. /\ dmDisk'[k].age = dmDisk[k].age /\ dmDisk'[k].gen = dmDisk[k].gen
          /\ dmDisk'[k].on = dmDisk[k].on /\ dmLive'[k] = dmLive[k]
      <4>1. CASE DmHit(j)
        BY <2>4, <4>1, DmHitFacts
      <4>2. CASE DmPublish(j)
        <5>1. dmDisk'[k] = dmDisk[k]
          BY <2>4, <4>2, DmNewGeneration DEF DmPublish
        <5> QED BY <2>4, <4>2, <5>1, DmPublishFacts
      <4>3. CASE DmForeignPublish(j)
        <5>1. dmDisk'[k] = dmDisk[k]
          BY <2>4, <4>3, DmNewGeneration DEF DmForeignPublish
        <5> QED BY <4>3, <5>1 DEF DmForeignPublish
      <4> QED BY <1>5, <4>1, <4>2, <4>3
    <3>2. DmLastUse(k)' = DmLastUse(k) /\ (DmJustPublished(k)' <=> DmJustPublished(k))
      BY <3>1 DEF DmLastUse, DmJustPublished
    <3> QED BY <1>f, <1>u, <2>1, <3>1, <3>2
  <2> QED BY <1>5, <2>2, <2>3, <2>4
<1>6. CASE DmResting \/ \E l \in DmLoads : DmOtherUse(l.other)
  <2>1. dmPass'.pc = dmPass.pc /\ dmPass'.view = dmPass.view /\ dmDisk' = dmDisk /\ dmLive' = dmLive
    BY <1>6, DmDisturbFacts DEF DmOtherUse, DmResting
  <2>2. DmLastUse(k)' = DmLastUse(k) /\ (DmJustPublished(k)' <=> DmJustPublished(k))
    BY <2>1 DEF DmLastUse, DmJustPublished
  <2> QED BY <1>f, <1>u, <2>1, <2>2
<1> QED BY <1>1, <1>2, <1>3, <1>4, <1>5, <1>6, DmCases


\* A plan takes what the property allows, at the ages of the view.
LEMMA DmPlanSelects ==
    ASSUME DmTypes, NEW view \in [DmKey -> DmView], NEW atLeast, NEW plan \in DmPlans(view, atLeast),
           NEW k \in plan.selected
    PROVE  /\ k \in DmKey /\ view[k].on
           /\ \/ dmPass.kind = "Full" /\ view[k].age = 3
              \/ plan.pressure # "None" /\ view[k].age > 1
              \/ plan.pressure = "Hard" /\ ~(view[k].age = 0 /\ view[k].recent)
<1> DEFINE p == DmPressureOf(view, atLeast)
<1>1. /\ p \in DmPressure /\ plan.pressure = p /\ plan.expired = DmExpiredOf(view)
      /\ plan.selected \subseteq DmKeysOf(view)
      /\ \A j \in plan.selected \ plan.expired :
           /\ j \in DmCandidates(view, p)
           /\ 0 < DmUsageNeed(view, p) \/ 0 < DmFreeNeed(view, p)
  BY DmPlanFacts DEF DmTypes
<1> HIDE DEF p
<1>2. k \in DmKey /\ view[k].on
  BY <1>1 DEF DmKeysOf
<1>3. CASE k \in plan.expired
  BY <1>1, <1>2, <1>3 DEF DmExpiredOf
<1>4. CASE k \notin plan.expired
  <2>1. k \in DmCandidates(view, p) /\ (0 < DmUsageNeed(view, p) \/ 0 < DmFreeNeed(view, p))
    BY <1>1, <1>4
  <2>2. p # "None"
    BY <2>1 DEF DmUsageNeed, DmFreeNeed
  <2>3. (p = "Hard" /\ (~view[k].recent \/ view[k].age > 0)) \/ view[k].age > 1
    BY <2>1 DEF DmCandidates
  <2>4. view[k].age > 0 => view[k].age # 0
    BY <1>2 DEF DmView, DmAge
  <2> QED BY <1>1, <1>2, <2>2, <2>3, <2>4
<1> QED BY <1>3, <1>4

\* Every step keeps what a plan has selected.
LEMMA DmPlanStep == DmTypes /\ DmPlanOK /\ [DmNext]_dmVars => DmPlanOK'
<1> SUFFICES ASSUME DmTypes, DmPlanOK, [DmNext]_dmVars, dmPass'.pc = "locked",
                    NEW k \in dmPass'.plan.selected
             PROVE  /\ dmPass'.view[k].on
                    /\ \/ dmPass'.kind = "Full" /\ dmPass'.view[k].age = 3
                       \/ dmPass'.plan.pressure # "None" /\ dmPass'.view[k].age > 1
                       \/ /\ dmPass'.plan.pressure = "Hard"
                          /\ ~(dmPass'.view[k].age = 0 /\ dmPass'.view[k].recent)
  BY DEF DmPlanOK
<1>1. CASE DmLeaving
  BY <1>1, DmLeavingFacts
<1>2. CASE DmScan \/ DmSweep \/ DmRound
  BY <1>2, DmScanFacts, DmSweepFacts, DmRoundFacts
<1>3. CASE DmLock
  <2> DEFINE v == DmRefreshed(dmPass.view)
             plan == dmPass'.plan
  <2>1. /\ dmPass'.view = v /\ plan \in DmPlans(v, dmPass.pressure)
        /\ dmPass'.kind = dmPass.kind
    BY <1>3, DmLockFacts
  <2>2. v \in [DmKey -> DmView]
    BY DmPassFields, DmRefreshedType DEF DmTypes
  <2>3. k \in plan.selected
    OBVIOUS
  <2> HIDE DEF v, plan
  <2>4. /\ v[k].on
        /\ \/ dmPass.kind = "Full" /\ v[k].age = 3
           \/ plan.pressure # "None" /\ v[k].age > 1
           \/ plan.pressure = "Hard" /\ ~(v[k].age = 0 /\ v[k].recent)
    BY <2>1, <2>2, <2>3, DmPlanSelects
  <2> QED BY <2>1, <2>4 DEF plan
<1>4. ASSUME \/ \E j \in DmKey : DmHit(j) \/ DmPublish(j) \/ DmForeignPublish(j)
             \/ \E l \in DmLoads : DmOtherUse(l.other)
             \/ DmResting
      PROVE  dmPass'.pc = dmPass.pc /\ dmPass'.view = dmPass.view /\ dmPass'.plan = dmPass.plan
             /\ dmPass'.kind = dmPass.kind
  BY <1>4, DmDisturbFacts DEF DmHit, DmPublish, DmForeignPublish, DmOtherUse, DmResting
<1> QED BY <1>1, <1>2, <1>3, <1>4, DmCases DEF DmPlanOK

-----------------------------------------------------------------------------
(* What a plan from an exact view means for the disk *)

\* An exact view: the planner counts what there is.
LEMMA DmExactCounts ==
    ASSUME DmTypes, NEW view \in [DmKey -> DmView],
           dmPass.pending = dmPending, dmPass.retired = dmRetired,
           \A k \in DmKey : view[k].on = dmDisk[k].on
    PROVE  /\ DmKeysOf(view) = DmOnDisk
           /\ DmUsage = DmSize(DmKeysOf(view)) + dmPass.pending + dmPass.retired
           /\ DmUsage \in Nat
<1>1. DmKeysOf(view) = DmOnDisk
  BY DEF DmKeysOf, DmOnDisk
<1>2. DmSize(DmOnDisk) \in Nat
  <2>1. DmOnDisk \in SUBSET DmKey
    BY DEF DmOnDisk
  <2> QED BY <2>1, DmSizeStep
<1> QED BY <1>1, <1>2, DmPassFields DEF DmUsage

\* Nothing is selected: there is nothing left that may go and would help.
LEMMA DmNothingLeft ==
    ASSUME DmTypes, NEW view \in [DmKey -> DmView],
           dmPass.pending = dmPending, dmPass.retired = dmRetired,
           \A k \in DmKey : /\ view[k].on = dmDisk[k].on
                            /\ view[k].shared = dmDisk[k].shared
                            /\ view[k].age = DmLastUse(k),
           NEW atLeast, NEW plan \in DmPlans(view, atLeast), plan.selected = {}
    PROVE  DmRelievedAt(plan.pressure)
<1> DEFINE p == DmPressureOf(view, atLeast)
<1>1. /\ p \in DmPressure /\ plan.pressure = p /\ plan.expired = DmExpiredOf(view)
      /\ plan.expired \subseteq plan.selected
      /\ \A k \in DmCandidates(view, p) :
           \/ DmUsageNeed(view, p) = 0 /\ DmFreeNeed(view, p) = 0
           \/ view[k].shared /\ ~(p = "Hard" /\ 0 < DmUsageNeed(view, p))
  BY DmPlanFacts DEF DmTypes
<1> HIDE DEF p
<1>2. DmExpiredOf(view) = {}
  BY <1>1
<1>3. DmUsageOf(view) = DmUsage /\ DmFreeOf(view) = DmFree /\ DmFree \in Nat /\ DmUsage \in Nat
      /\ DmKeysOf(view) = DmOnDisk
  <2>1. DmUsageOf(view) = DmSize(DmKeysOf(view)) + dmPass.pending + dmPass.retired
        /\ DmFreeOf(view) = DmFree
    BY <1>1, <1>2, DmNeedsNat DEF DmTypes
  <2>2. /\ DmUsage = DmSize(DmKeysOf(view)) + dmPass.pending + dmPass.retired
        /\ DmUsage \in Nat /\ DmKeysOf(view) = DmOnDisk
    BY DmExactCounts
  <2>3. DmFree \in Nat
    BY DmFreeNat DEF DmTypes
  <2> QED BY <2>1, <2>2, <2>3
<1>4. DmOf(80) \in Nat /\ DmOf(70) \in Nat /\ DmRecoveryFree \in Nat /\ DmLowSpace \in Nat
  BY DmThresholds DEF DmTypes
<1>5. /\ p = "Hard" => DmUsageNeed(view, p) = DmMonus(DmUsage, DmOf(80))
                       /\ DmFreeNeed(view, p) = DmMonus(DmRecoveryFree, DmFree)
      /\ p = "Soft" => DmUsageNeed(view, p) = DmMonus(DmUsage, DmOf(70))
                       /\ (DmFree < DmLowSpace =>
                             DmFreeNeed(view, p) = DmMonus(DmRecoveryFree, DmFree))
  BY <1>3 DEF DmUsageNeed, DmFreeNeed
<1> DEFINE mark == DmOf(IF p = "Hard" THEN 80 ELSE 70)
<1>6. mark \in Nat /\ (p = "Hard" => mark = DmOf(80)) /\ (p = "Soft" => mark = DmOf(70))
  BY <1>4
<1> HIDE DEF mark
<1>7. ASSUME NEW k \in DmOnDisk, p # "None",
             IF dmDisk[k].shared THEN DmUsage > mark /\ p = "Hard"
             ELSE DmUsage > mark \/ (DmFree < DmRecoveryFree /\ DmFree < DmLowSpace),
             DmLastUse(k) > 1 \/ (p = "Hard" /\ DmLastUse(k) = 1)
      PROVE  FALSE
  <2>0. k \in DmKey
    BY DEF DmOnDisk
  <2>1. k \in DmCandidates(view, p)
    <3>1. k \in DmKeysOf(view) \ DmExpiredOf(view)
      BY <1>2, <1>3
    <3>2. view[k].age = DmLastUse(k)
      BY <2>0
    <3>3. view[k].age = 1 => view[k].age > 0
      OBVIOUS
    <3> QED BY <1>7, <3>1, <3>2, <3>3 DEF DmCandidates
  <2>2. p \in {"Hard", "Soft"}
    BY <1>1, <1>7 DEF DmPressure
  <2>3. DmUsage > mark => 0 < DmUsageNeed(view, p) /\ DmUsageNeed(view, p) # 0
    BY <1>3, <1>5, <1>6, <2>2 DEF DmMonus
  <2>4. DmFree < DmRecoveryFree /\ DmFree < DmLowSpace => DmFreeNeed(view, p) # 0
    BY <1>3, <1>4, <1>5, <2>2 DEF DmMonus
  <2>5. ~(DmUsageNeed(view, p) = 0 /\ DmFreeNeed(view, p) = 0)
    BY <1>7, <2>3, <2>4
  <2>6. dmDisk[k].shared /\ ~(p = "Hard" /\ 0 < DmUsageNeed(view, p))
    BY <1>1, <2>0, <2>1, <2>5
  <2> QED BY <1>7, <2>3, <2>6
<1> QED BY <1>1, <1>7 DEF DmRelievedAt, mark

\* Something that is not expired is selected: the marks have not been reached.
LEMMA DmTakesNeeded ==
    ASSUME DmTypes, NEW view \in [DmKey -> DmView],
           dmPass.pending = dmPending, dmPass.retired = dmRetired,
           \A k \in DmKey : view[k].on = dmDisk[k].on,
           NEW atLeast, NEW plan \in DmPlans(view, atLeast), NEW k \in plan.selected \ plan.expired
    PROVE  /\ plan.pressure # "None" /\ plan.pressure = DmPressureOf(view, atLeast)
           /\ \/ DmUsage > DmOf(IF plan.pressure = "Hard" THEN 80 ELSE 70)
              \/ DmFree < DmRecoveryFree
<1> DEFINE p == DmPressureOf(view, atLeast)
<1>1. /\ p \in DmPressure /\ plan.pressure = p
      /\ 0 < DmUsageNeed(view, p) \/ 0 < DmFreeNeed(view, p)
  BY DmPlanFacts DEF DmTypes
<1>x. p = DmPressureOf(view, atLeast)
  OBVIOUS
<1> HIDE DEF p
<1>2. p \in {"Hard", "Soft"}
  BY <1>1 DEF DmUsageNeed, DmFreeNeed, DmPressure
<1>3. DmUsageOf(view) <= DmUsage /\ DmUsageOf(view) \in Nat /\ DmUsage \in Nat
      /\ DmFree <= DmFreeOf(view) /\ DmFreeOf(view) \in Nat /\ DmFree \in Nat
  BY <1>1, DmNeedsNat, DmExactCounts, DmFreeNat DEF DmTypes
<1>4. DmOf(80) \in Nat /\ DmOf(70) \in Nat /\ DmRecoveryFree \in Nat
  BY DmThresholds DEF DmTypes
<1>5. CASE p = "Hard"
  <2>1. DmUsageOf(view) > DmOf(80) \/ DmFreeOf(view) < DmRecoveryFree
    BY <1>1, <1>3, <1>4, <1>5 DEF DmUsageNeed, DmFreeNeed, DmMonus
  <2> QED BY <1>1, <1>3, <1>4, <1>5, <1>x, <2>1
<1>6. CASE p = "Soft"
  <2>1. DmUsageOf(view) > DmOf(70) \/ DmFreeOf(view) < DmRecoveryFree
    BY <1>1, <1>3, <1>4, <1>6 DEF DmUsageNeed, DmFreeNeed, DmMonus
  <2> QED BY <1>1, <1>3, <1>4, <1>6, <1>x, <2>1
<1> QED BY <1>2, <1>5, <1>6

\* The pressure depends on which artifacts there are, their age and their links.
LEMMA DmSamePressure ==
    ASSUME NEW v, NEW w, NEW atLeast,
           \A k \in DmKey : v[k].on = w[k].on /\ v[k].shared = w[k].shared /\ v[k].age = w[k].age
    PROVE  DmPressureOf(v, atLeast) = DmPressureOf(w, atLeast)
<1>1. DmKeysOf(v) = DmKeysOf(w)
  BY DEF DmKeysOf
<1>2. DmExpiredOf(v) = DmExpiredOf(w) /\ DmExpiredOf(v) \subseteq DmKey
  BY <1>1 DEF DmExpiredOf, DmKeysOf
<1>3. DmReclaimed(v, DmExpiredOf(v)) = DmReclaimed(w, DmExpiredOf(w))
  <2>1. {k \in DmExpiredOf(v) : ~v[k].shared} = {k \in DmExpiredOf(w) : ~w[k].shared}
    BY <1>2
  <2> QED BY <2>1 DEF DmReclaimed
<1> QED BY <1>1, <1>2, <1>3 DEF DmPressureOf, DmUsageOf, DmFreeOf


-----------------------------------------------------------------------------
(* The undisturbed pass *)

DmWorldKept == UNCHANGED <<dmBudget, dmDisk, dmLive, dmOther, dmRetired, dmPending>>

\* While the world rests, usage, free space and marks do.
LEMMA DmNumbersKept ==
    ASSUME DmWorldKept
    PROVE  /\ DmUsage' = DmUsage /\ DmFree' = DmFree /\ DmOnDisk' = DmOnDisk
           /\ DmBudgetBytes' = DmBudgetBytes
           /\ DmOf(70)' = DmOf(70) /\ DmOf(80)' = DmOf(80) /\ DmOf(85)' = DmOf(85)
           /\ \A k \in DmKey : DmLastUse(k)' = DmLastUse(k)
<1>1. DmOnDisk' = DmOnDisk
  BY DEF DmWorldKept, DmOnDisk
<1>2. DmUsage' = DmUsage /\ DmFree' = DmFree
  BY <1>1 DEF DmWorldKept, DmUsage, DmFree, DmSize
<1>3. DmBudgetBytes' = DmBudgetBytes
  BY DEF DmWorldKept, DmBudgetBytes
<1>4. DmOf(70)' = DmOf(70) /\ DmOf(80)' = DmOf(80) /\ DmOf(85)' = DmOf(85)
  BY <1>3 DEF DmOf
<1>5. \A k \in DmKey : DmLastUse(k)' = DmLastUse(k)
  BY DEF DmWorldKept, DmLastUse
<1> QED BY <1>1, <1>2, <1>3, <1>4, <1>5

\* The same statements, after a step that keeps the world.
LEMMA DmRelievedKept ==
    ASSUME DmWorldKept, NEW p, DmRelievedAt(p)
    PROVE  /\ dmPass'.pressure = p => DmRelievedAt(dmPass.pressure)'
           /\ dmPass'.plan.pressure = p => DmRelievedAt(dmPass.plan.pressure)'
<1> DEFINE mark == DmOf(IF p = "Hard" THEN 80 ELSE 70)
<1>1. /\ DmUsage' = DmUsage /\ DmFree' = DmFree /\ DmOnDisk' = DmOnDisk
      /\ DmOf(70)' = DmOf(70) /\ DmOf(80)' = DmOf(80)
      /\ \A k \in DmKey : DmLastUse(k)' = DmLastUse(k)
      /\ dmDisk' = dmDisk /\ DmOnDisk \subseteq DmKey
  BY DmNumbersKept DEF DmWorldKept, DmOnDisk
<1>2. ASSUME NEW k \in DmOnDisk, p # "None",
             IF dmDisk[k].shared THEN DmUsage > mark /\ p = "Hard"
             ELSE DmUsage > mark \/ (DmFree < DmRecoveryFree /\ DmFree < DmLowSpace),
             DmLastUse(k) > 1 \/ (p = "Hard" /\ DmLastUse(k) = 1)
      PROVE  FALSE
  BY <1>2 DEF DmRelievedAt
<1>3. /\ dmPass'.pressure = p => DmOf(IF dmPass.pressure = "Hard" THEN 80 ELSE 70)' = mark
      /\ dmPass'.plan.pressure = p =>
           DmOf(IF dmPass.plan.pressure = "Hard" THEN 80 ELSE 70)' = mark
  <2>1. DmBudgetBytes' = DmBudgetBytes
    BY DmNumbersKept
  <2> QED BY <2>1 DEF DmOf
<1> HIDE DEF mark
<1>4. ASSUME dmPass'.pressure = p PROVE DmRelievedAt(dmPass.pressure)'
  BY <1>1, <1>2, <1>3, <1>4 DEF DmRelievedAt
<1>5. ASSUME dmPass'.plan.pressure = p PROVE DmRelievedAt(dmPass.plan.pressure)'
  BY <1>1, <1>2, <1>3, <1>5 DEF DmRelievedAt
<1> QED BY <1>4, <1>5

\* While the world rests, a removal that is needed stays needed.
LEMMA DmNeededKept ==
    ASSUME DmWorldKept, NEW p, dmPass'.plan.pressure = p, dmPass'.swept = dmPass.swept,
           DmUsage > DmOf(IF p = "Hard" THEN 80 ELSE 70) \/ DmFree < DmRecoveryFree,
           dmPass.swept \/ dmRetired = 0
    PROVE  DmNeeded(dmPass.plan.pressure)'
<1>1. DmUsage' = DmUsage /\ DmFree' = DmFree /\ DmBudgetBytes' = DmBudgetBytes
      /\ dmRetired' = dmRetired
  BY DmNumbersKept DEF DmWorldKept
<1>2. DmOf(IF dmPass.plan.pressure = "Hard" THEN 80 ELSE 70)'
        = DmOf(IF p = "Hard" THEN 80 ELSE 70)
  BY <1>1 DEF DmOf
<1> QED BY <1>1, <1>2 DEF DmNeeded

\* While the world rests, so does the pressure.
LEMMA DmPressureKept ==
    ASSUME DmWorldKept, dmPass'.view = dmPass.view, dmPass'.pressure = dmPass.pressure,
           dmPass'.kind = dmPass.kind, dmPass'.pending = dmPass.pending,
           dmPass'.retired = dmPass.retired
    PROVE  DmPressureOf(dmPass.view, dmPass.pressure)' = DmPressureOf(dmPass.view, dmPass.pressure)
<1>1. DmFree' = DmFree /\ DmBudgetBytes' = DmBudgetBytes /\ DmOf(85)' = DmOf(85)
  BY DmNumbersKept
<1>2. DmKeysOf(dmPass.view)' = DmKeysOf(dmPass.view)
  BY DEF DmKeysOf
<1>3. DmExpiredOf(dmPass.view)' = DmExpiredOf(dmPass.view)
  BY <1>2 DEF DmExpiredOf
<1>4. DmUsageOf(dmPass.view)' = DmUsageOf(dmPass.view)
  BY <1>2, <1>3 DEF DmUsageOf, DmSize
<1>5. DmFreeOf(dmPass.view)' = DmFreeOf(dmPass.view)
  BY <1>1, <1>3 DEF DmFreeOf, DmReclaimed, DmSize
<1> QED BY <1>1, <1>4, <1>5 DEF DmPressureOf

\* While the world rests, an exact view stays exact.
LEMMA DmExactKept ==
    ASSUME DmViewExact, DmWorldKept, dmPass'.view = dmPass.view, dmPass'.pending = dmPass.pending
    PROVE  DmViewExact'
BY DmNumbersKept DEF DmViewExact, DmWorldKept

\* Every step keeps what an undisturbed pass knows of the disk.
LEMMA DmQuietStep == DmTypes /\ DmViewOK /\ DmQuietOK /\ [DmNext]_dmVars => DmQuietOK'
<1> SUFFICES ASSUME DmTypes, DmViewOK, DmQuietOK, [DmNext]_dmVars, dmPass'.undisturbed
             PROVE  DmQuietOK'
  BY DEF DmQuietOK
<1>q. dmPass.undisturbed =>
        /\ dmPass.pc = "scan" => dmPass.pending = dmPending
        /\ dmPass.pc \in {"round", "commit", "locked"} =>
             DmViewExact /\ dmPass.pending = dmPending /\ dmPass.retired = dmRetired
        /\ dmPass.pc = "commit" =>
             \/ dmPass.swept \/ dmRetired = 0
             \/ DmPressureOf(dmPass.view, dmPass.pressure) = "None"
        /\ dmPass.pc = "locked" =>
             /\ dmPass.plan.selected = {} => DmRelievedAt(dmPass.plan.pressure)
             /\ dmPass.plan.selected \ dmPass.plan.expired # {} => DmNeeded(dmPass.plan.pressure)
        /\ dmPass.pc = "report" => DmRelievedAt(dmPass.pressure)
  BY DEF DmQuietOK, DmPlanning, DmViewExact, DmViewOK
<1>1. CASE DmStart
  <2>1. dmPass'.pc = "scan" /\ dmPass'.pending = dmPending /\ dmPending' = dmPending
    BY <1>1, DmStartFacts DEF DmStart, DmKeepWorld
  <2> QED BY <2>1 DEF DmQuietOK, DmPlanning
<1>2. CASE DmStop \/ DmRemoveFails
  BY <1>2, DmStopFacts, DmRemoveFailsFacts
<1>3. ASSUME NEW b \in BOOLEAN, DmRemove(b) PROVE DmQuietOK'
  <2>0. /\ dmPass'.pending = dmPass.pending /\ dmPass.pc = "locked"
        /\ dmPass'.pressure = dmPass.plan.pressure
    BY <1>3, DmRemoveFacts
  <2>1. PICK removed \in SUBSET DmRemovable :
          /\ DmUnlink(removed)
          /\ dmPass'.pc = IF removed = {} THEN "report" ELSE "scan"
          /\ dmPass.undisturbed /\ removed = dmPass.plan.selected
          /\ removed = {} => dmLive' = dmLive
    BY <1>3, DmRemoveFacts
  <2>2. CASE removed # {}
    <3>1. dmPass'.pc = "scan" /\ dmPending' = dmPending /\ dmPass.pending = dmPending
      BY <1>3, <1>q, <2>0, <2>1, <2>2 DEF DmRemove
    <3> QED BY <2>0, <3>1 DEF DmQuietOK, DmPlanning
  <2>3. CASE removed = {}
    <3>1. DmRelievedAt(dmPass.plan.pressure) /\ dmPass'.pc = "report"
      BY <1>q, <2>0, <2>1, <2>3
    <3>2. dmDisk' = dmDisk
      BY <2>1, <2>3, DmPassFields DEF DmUnlink
    <3>3. dmOther' = dmOther
      <4>1. {} \in SUBSET DmKey /\ {k \in {} : dmDisk[k].shared} = {}
        OBVIOUS
      <4>2. DmSize({}) = 0
        BY <4>1, DmSizeStep
      <4> QED BY <2>1, <2>3, <4>1, <4>2, DmPassFields DEF DmUnlink
    <3>4. DmWorldKept
      BY <1>3, <2>1, <2>3, <3>2, <3>3 DEF DmWorldKept, DmRemove
    <3>5. DmRelievedAt(dmPass.pressure)'
      BY <2>0, <3>1, <3>4, DmRelievedKept
    <3> QED BY <3>1, <3>5 DEF DmQuietOK, DmPlanning
  <2> QED BY <2>2, <2>3
<1>4. ASSUME NEW b \in BOOLEAN, DmReport(b) PROVE DmQuietOK'
  BY <1>4, DmReportFacts DEF DmQuietOK, DmPlanning
<1>5. CASE DmScan
  <2>1. /\ dmPass.undisturbed /\ dmPass.pc = "scan" /\ dmPass'.pc = "round"
        /\ dmPass'.view = DmScanned /\ dmPass'.pending = dmPass.pending
    BY <1>5, DmScanFacts
  <2>2. DmWorldKept
    BY <1>5 DEF DmScan, DmKeepWorld, DmWorldKept
  <2>3. \A k \in DmKey : /\ DmScanned[k].on = dmDisk[k].on
                         /\ DmScanned[k].shared = dmDisk[k].shared
                         /\ DmScanned[k].age = DmLastUse(k)
    BY DmScannedFacts DEF DmTypes
  <2>4. DmViewExact'
    BY <1>q, <2>1, <2>2, <2>3, DmNumbersKept DEF DmViewExact, DmWorldKept
  <2> QED BY <2>1, <2>4 DEF DmQuietOK
<1>6. CASE DmSweep
  <2>1. /\ dmPass.undisturbed /\ dmPass.pc = "round" /\ dmPass'.pc = "round"
        /\ dmPass'.view = dmPass.view /\ dmPass'.pending = dmPass.pending
    BY <1>6, DmSweepFacts
  <2>2. dmDisk' = dmDisk /\ dmLive' = dmLive /\ dmPending' = dmPending
    BY <1>6 DEF DmSweep, DmKeepWorld
  <2>3. DmViewExact'
    BY <1>q, <2>1, <2>2 DEF DmViewExact, DmLastUse
  <2> QED BY <2>1, <2>3 DEF DmQuietOK
<1>7. CASE DmRound
  <2>1. /\ dmPass.undisturbed /\ dmPass.pc = "round"
        /\ dmPass'.view = dmPass.view /\ dmPass'.pending = dmPass.pending
        /\ dmPass'.retired = dmPass.retired /\ dmPass'.kind = dmPass.kind
        /\ dmPass'.swept = dmPass.swept
    BY <1>7, DmRoundFacts
  <2>2. PICK plan \in DmPlans(dmPass.view, dmPass.pressure) :
          /\ dmPass.swept \/ dmPass.retired = 0 \/ plan.pressure = "None"
          /\ IF plan.selected = {}
             THEN dmPass'.pc = "report" /\ dmPass'.pressure = plan.pressure
             ELSE dmPass'.pc = "commit" /\ dmPass'.pressure = dmPass.pressure
    BY <1>7, DmRoundFacts
  <2>3. DmWorldKept
    BY <1>7 DEF DmRound, DmKeepWorld, DmWorldKept
  <2>4. /\ dmPass.pending = dmPending /\ dmPass.retired = dmRetired
        /\ \A k \in DmKey : /\ dmPass.view[k].on = dmDisk[k].on
                            /\ dmPass.view[k].shared = dmDisk[k].shared
                            /\ dmPass.view[k].age = DmLastUse(k)
    BY <1>q, <2>1 DEF DmViewExact
  <2>5. CASE plan.selected = {}
    <3>1. DmRelievedAt(plan.pressure)
      BY <2>4, <2>5, DmNothingLeft, DmPassFields
    <3>2. DmRelievedAt(dmPass.pressure)'
      BY <2>2, <2>3, <2>5, <3>1, DmRelievedKept
    <3> QED BY <2>2, <2>5, <3>2 DEF DmQuietOK, DmPlanning
  <2>6. CASE plan.selected # {}
    <3>1. DmViewExact'
      BY <1>q, <2>1, <2>3, DmExactKept
    <3>2. plan.pressure = DmPressureOf(dmPass.view, dmPass.pressure)
      BY DmPlanFacts DEF DmTypes
    <3>3. DmPressureOf(dmPass.view, dmPass.pressure)' = plan.pressure
      BY <2>1, <2>2, <2>3, <2>6, <3>2, DmPressureKept
    <3>4. dmRetired' = dmRetired
      BY <2>3 DEF DmWorldKept
    <3> QED BY <2>1, <2>2, <2>4, <2>6, <3>1, <3>3, <3>4 DEF DmQuietOK
  <2> QED BY <2>5, <2>6
<1>8. CASE DmLock
  <2> DEFINE w == DmRefreshed(dmPass.view)
             plan == dmPass'.plan
  <2>1. /\ dmPass.undisturbed /\ dmPass.pc = "commit" /\ dmPass'.pc = "locked"
        /\ dmPass'.view = w /\ plan \in DmPlans(w, dmPass.pressure)
        /\ dmPass'.pending = dmPass.pending /\ dmPass'.retired = dmPass.retired
        /\ dmPass'.swept = dmPass.swept /\ dmPass'.plan.pressure = plan.pressure
    BY <1>8, DmLockFacts
  <2>2. w \in [DmKey -> DmView]
        /\ \A k \in DmKey : w[k].on = dmPass.view[k].on /\ w[k].shared = dmPass.view[k].shared
             /\ w[k].age = Min({dmPass.view[k].age, dmLive[k].age})
    <3>1. dmPass.view \in [DmKey -> DmView] /\ DmTypeOK
      BY DmPassFields DEF DmTypes
    <3> QED BY <3>1, DmRefreshedType, Zenon
  <2> HIDE DEF w
  <2>3. DmWorldKept
    BY <1>8 DEF DmLock, DmKeepWorld, DmWorldKept
  <2>4. /\ dmPass.pending = dmPending /\ dmPass.retired = dmRetired
        /\ \A k \in DmKey : /\ dmPass.view[k].on = dmDisk[k].on
                            /\ dmPass.view[k].shared = dmDisk[k].shared
                            /\ dmPass.view[k].age = DmLastUse(k)
    BY <1>q, <2>1 DEF DmViewExact
  <2>5. ASSUME NEW k \in DmKey PROVE w[k].age = DmLastUse(k)
    <3>1. dmDisk[k].age \in Nat /\ dmLive[k].age \in Nat
      BY DmPassFields DEF DmAge
    <3>2. DmLastUse(k) = IF dmDisk[k].age <= dmLive[k].age THEN dmDisk[k].age ELSE dmLive[k].age
      BY <3>1, DmMinMax DEF DmLastUse
    <3>3. DmLastUse(k) \in Nat
      BY <3>1, <3>2
    <3>4. Min({DmLastUse(k), dmLive[k].age}) = DmLastUse(k)
      BY <3>1, <3>2, <3>3, DmMinMax
    <3> QED BY <2>2, <2>4, <3>4
  <2>6. \A k \in DmKey : w[k].on = dmDisk[k].on /\ w[k].shared = dmDisk[k].shared
                         /\ w[k].age = DmLastUse(k)
    BY <2>2, <2>4, <2>5
  <2>7. DmViewExact'
    BY <2>1, <2>3, <2>4, <2>6, DmNumbersKept DEF DmViewExact, DmWorldKept
  <2> HIDE DEF plan
  <2>8. plan.selected = {} => DmRelievedAt(dmPass.plan.pressure)'
    <3> SUFFICES ASSUME plan.selected = {} PROVE DmRelievedAt(dmPass.plan.pressure)'
      OBVIOUS
    <3>1. DmRelievedAt(plan.pressure)
      BY <2>1, <2>2, <2>4, <2>6, DmNothingLeft
    <3> QED BY <2>1, <2>3, <3>1, DmRelievedKept
  <2>9. ASSUME NEW k \in plan.selected \ plan.expired PROVE DmNeeded(dmPass.plan.pressure)'
    <3>1. /\ plan.pressure # "None" /\ plan.pressure = DmPressureOf(w, dmPass.pressure)
          /\ \/ DmUsage > DmOf(IF plan.pressure = "Hard" THEN 80 ELSE 70)
             \/ DmFree < DmRecoveryFree
      BY <2>1, <2>2, <2>4, <2>6, DmTakesNeeded
    <3>2. DmPressureOf(w, dmPass.pressure) = DmPressureOf(dmPass.view, dmPass.pressure)
      BY <2>4, <2>6, DmSamePressure
    <3>3. dmPass.swept \/ dmRetired = 0
      BY <1>q, <2>1, <3>1, <3>2
    <3> QED BY <2>1, <2>3, <3>1, <3>3, DmNeededKept
  <2>10. plan.selected \ plan.expired # {} => DmNeeded(dmPass.plan.pressure)'
    BY <2>9
  <2> QED BY <2>1, <2>7, <2>8, <2>10 DEF DmQuietOK, plan
<1>9. ASSUME \/ \E k \in DmKey : DmHit(k) \/ DmPublish(k) \/ DmForeignPublish(k)
             \/ \E l \in DmLoads : DmOtherUse(l.other)
      PROVE  FALSE
  BY <1>9, DmDisturbFacts DEF DmHit, DmPublish, DmForeignPublish, DmOtherUse
<1>10. CASE DmResting
  <2>1. DmWorldKept /\ dmPass' = dmPass
    BY <1>10 DEF DmResting, DmWorldKept
  <2>2. DmPressureOf(dmPass.view, dmPass.pressure)' = DmPressureOf(dmPass.view, dmPass.pressure)
    BY <2>1, DmPressureKept
  <2>3. dmPass.pc \in {"round", "commit", "locked"} => DmViewExact'
    BY <1>q, <2>1, DmExactKept
  <2>4. dmPass.pc = "locked" /\ dmPass.plan.selected = {} => DmRelievedAt(dmPass.plan.pressure)'
    BY <1>q, <2>1, DmRelievedKept
  <2>5. dmPass.pc = "locked" /\ dmPass.plan.selected \ dmPass.plan.expired # {}
          => DmNeeded(dmPass.plan.pressure)'
    BY <1>q, <2>1, DmNeededKept DEF DmNeeded
  <2>6. dmPass.pc = "report" => DmRelievedAt(dmPass.pressure)'
    BY <1>q, <2>1, DmRelievedKept
  <2>7. dmPending' = dmPending /\ dmRetired' = dmRetired
    BY <2>1 DEF DmWorldKept
  <2> QED BY <1>q, <2>1, <2>2, <2>3, <2>4, <2>5, <2>6, <2>7 DEF DmQuietOK, DmPlanning
<1> QED
  BY <1>1, <1>2, <1>3, <1>4, <1>5, <1>6, <1>7, <1>8, <1>9, <1>10, DmCases DEF DmLeaving


-----------------------------------------------------------------------------
(* The rounds of a pass *)

\* How many artifacts there are, and what a step makes of it.
LEMMA DmOnDiskCount ==
    ASSUME DmTypes
    PROVE  /\ IsFiniteSet(DmOnDisk) /\ DmOnDisk \subseteq DmKey
           /\ Cardinality(DmOnDisk) \in Nat /\ Cardinality(DmKey) \in Nat
           /\ Cardinality(DmOnDisk) <= Cardinality(DmKey)
           /\ \A k \in DmOnDisk : Cardinality(DmOnDisk) >= 1
<1>1. DmOnDisk \subseteq DmKey /\ IsFiniteSet(DmKey)
  BY DmAssumption DEF DmOnDisk
<1>2. /\ IsFiniteSet(DmOnDisk) /\ Cardinality(DmOnDisk) <= Cardinality(DmKey)
  BY <1>1, FS_Subset
<1>3. Cardinality(DmOnDisk) \in Nat /\ Cardinality(DmKey) \in Nat
  BY <1>1, <1>2, FS_CardinalityType
<1>4. ASSUME NEW k \in DmOnDisk PROVE Cardinality(DmOnDisk) >= 1
  <2>1. Cardinality(DmOnDisk) # 0
    BY <1>2, <1>4, FS_EmptySet
  <2> QED BY <1>3, <2>1
<1> QED BY <1>1, <1>2, <1>3, <1>4

\* Each artifact unlinked leaves fewer on the disk.
LEMMA DmOnDiskUnlinked ==
    ASSUME DmTypes, NEW keys \in SUBSET DmRemovable, DmUnlink(keys)
    PROVE  /\ keys # {} => Cardinality(DmOnDisk') + 1 <= Cardinality(DmOnDisk)
           /\ Cardinality(DmOnDisk') <= Cardinality(DmOnDisk)
           /\ Cardinality(DmOnDisk') \in Nat
<1>1. keys \in SUBSET DmKey /\ keys \subseteq DmOnDisk
  BY DmPassFields DEF DmRemovable, DmPlanType, DmUnchanged, DmOnDisk
<1>2. \A k \in DmKey : dmDisk'[k].on <=> dmDisk[k].on /\ k \notin keys
  BY <1>1, DmUnlinkFacts
<1>3. DmOnDisk' = DmOnDisk \ keys
  BY <1>2 DEF DmOnDisk
<1> DEFINE after == DmOnDisk'
<1>4. after \subseteq DmOnDisk /\ IsFiniteSet(DmOnDisk) /\ Cardinality(DmOnDisk) \in Nat
  BY <1>3, DmOnDiskCount
<1> HIDE DEF after
<1>5. IsFiniteSet(after) /\ Cardinality(after) <= Cardinality(DmOnDisk)
      /\ Cardinality(after) \in Nat
      /\ (Cardinality(after) = Cardinality(DmOnDisk) => after = DmOnDisk)
  BY <1>4, FS_Subset, FS_CardinalityType
<1>6. keys # {} => after # DmOnDisk
  BY <1>1, <1>3 DEF after
<1> QED BY <1>4, <1>5, <1>6 DEF after

\* Every step keeps the measure that bounds the rounds.
LEMMA DmRoundsStep == DmTypes /\ DmViewOK /\ DmRoundsOK /\ [DmNext]_dmVars => DmRoundsOK'
<1> SUFFICES ASSUME DmTypes, DmViewOK, DmRoundsOK, [DmNext]_dmVars PROVE DmRoundsOK'
  OBVIOUS
<1> DEFINE all == Cardinality(DmKey)
           left == Cardinality(DmOnDisk)
           left2 == Cardinality(DmOnDisk')
           sw == IF dmPass.swept THEN 1 ELSE 0
           sw2 == IF dmPass'.swept THEN 1 ELSE 0
<1>c. all \in Nat /\ left \in Nat /\ left <= all
  BY DmOnDiskCount
<1>d. left2 \in Nat /\ left2 <= all
  <2>1. DmTypes'
    BY DmTypesStep
  <2>2. DmOnDisk' \subseteq DmKey /\ IsFiniteSet(DmKey)
    BY DmAssumption DEF DmOnDisk
  <2> QED BY <2>2, FS_Subset, FS_CardinalityType
<1>s. sw \in {0, 1} /\ sw2 \in {0, 1}
  OBVIOUS
<1>n. dmPass.rounds \in Nat /\ dmEvents \in Nat
  BY DmPassFields
<1>r. /\ dmPass.pc \in {"scan", "round"} => dmPass.rounds + left <= all + dmEvents + sw
      /\ dmPass.pc \in {"commit", "locked"} =>
           /\ dmPass.rounds + left <= all + dmEvents + sw + 1
           /\ \E k \in DmKey : dmPass.view[k].on
      /\ dmPass.rounds <= all + 1 + dmEvents
  BY DEF DmRoundsOK, DmRoundsBounded
<1>g. ASSUME dmPass'.pc \in {"scan", "round"} => dmPass'.rounds + left2 <= all + dmEvents' + sw2,
             dmPass'.pc \in {"commit", "locked"} =>
               /\ dmPass'.rounds + left2 <= all + dmEvents' + sw2 + 1
               /\ \E k \in DmKey : dmPass'.view[k].on,
             dmPass'.rounds <= all + 1 + dmEvents'
      PROVE  DmRoundsOK'
  BY <1>g DEF DmRoundsOK, DmRoundsBounded
<1>k. dmPass.pc \in {"commit", "locked"} => left >= 1
  BY <1>r, DmOnDiskCount DEF DmViewOK, DmPlanning, DmOnDisk
<1>o. dmDisk' = dmDisk => left2 = left
  BY DEF DmOnDisk
<1> HIDE DEF all, left, left2, sw, sw2
<1>1. CASE DmStart
  <2>1. dmPass'.pc = "scan" /\ dmPass'.rounds = 0 /\ dmEvents' = dmEvents
    BY <1>1, DmStartFacts DEF DmStart, DmKeepWorld
  <2> QED BY <1>c, <1>d, <1>g, <1>n, <1>s, <2>1
<1>2. CASE DmScan \/ DmStop
  <2>1. /\ dmPass.pc \in {"scan", "round"} /\ dmPass'.rounds = dmPass.rounds
        /\ dmPass'.pc \in {"round", "report"}
        /\ dmPass'.pc = "round" => dmPass'.swept = dmPass.swept
        /\ dmEvents' = dmEvents /\ dmDisk' = dmDisk
    BY <1>2, DmScanFacts, DmStopFacts DEF DmScan, DmStop, DmKeepWorld
  <2>2. dmPass'.pc = "round" => sw2 = sw
    BY <2>1 DEF sw, sw2
  <2> QED BY <1>c, <1>g, <1>n, <1>o, <1>r, <1>s, <2>1, <2>2
<1>3. CASE DmSweep
  <2>1. /\ dmPass.pc = "round" /\ dmPass'.pc = "round" /\ dmPass'.rounds = dmPass.rounds + 1
        /\ dmPass.swept = FALSE /\ dmPass'.swept = TRUE /\ dmEvents' = dmEvents /\ dmDisk' = dmDisk
    BY <1>3, DmSweepFacts DEF DmSweep, DmKeepWorld
  <2>2. sw = 0 /\ sw2 = 1
    BY <2>1 DEF sw, sw2
  <2> QED BY <1>c, <1>g, <1>n, <1>o, <1>r, <2>1, <2>2
<1>4. CASE DmRound
  <2>1. /\ dmPass.pc = "round" /\ dmPass'.view = dmPass.view /\ dmPass'.swept = dmPass.swept
        /\ dmEvents' = dmEvents /\ dmDisk' = dmDisk
    BY <1>4, DmRoundFacts DEF DmRound, DmKeepWorld
  <2>2. PICK plan \in DmPlans(dmPass.view, dmPass.pressure) :
          IF plan.selected = {}
          THEN dmPass'.pc = "report" /\ dmPass'.rounds = dmPass.rounds
          ELSE dmPass'.pc = "commit" /\ dmPass'.rounds = dmPass.rounds + 1
    BY <1>4, DmRoundFacts
  <2>3. plan.selected # {} => \E k \in DmKey : dmPass.view[k].on
    <3>1. dmPass.view \in [DmKey -> DmView]
      BY DmPassFields
    <3>2. ASSUME NEW k \in plan.selected PROVE k \in DmKey /\ dmPass.view[k].on
      BY <3>1, DmPlanSelects
    <3> QED BY <3>2
  <2>4. sw2 = sw
    BY <2>1 DEF sw, sw2
  <2>5. dmPass.rounds + 1 <= all + 1 + dmEvents \/ plan.selected = {}
    <3>1. plan.selected # {} => left >= 1
      BY <2>1, <2>3, DmOnDiskCount DEF DmViewOK, DmPlanning, DmOnDisk, left
    <3> QED BY <1>c, <1>n, <1>r, <1>s, <2>1, <3>1
  <2>6. CASE plan.selected = {}
    BY <1>c, <1>g, <1>n, <1>o, <1>r, <1>s, <2>1, <2>2, <2>4, <2>6
  <2>7. CASE plan.selected # {}
    BY <1>c, <1>g, <1>n, <1>o, <1>r, <1>s, <2>1, <2>2, <2>3, <2>4, <2>5, <2>7
  <2> QED BY <2>6, <2>7
<1>5. CASE DmLock
  <2>1. /\ dmPass.pc = "commit" /\ dmPass'.pc = "locked" /\ dmPass'.rounds = dmPass.rounds
        /\ dmPass'.swept = dmPass.swept /\ dmPass'.view = DmRefreshed(dmPass.view)
        /\ dmEvents' = dmEvents /\ dmDisk' = dmDisk
    BY <1>5, DmLockFacts DEF DmLock, DmKeepWorld
  <2>2. \A k \in DmKey : DmRefreshed(dmPass.view)[k].on = dmPass.view[k].on
    BY DmPassFields, DmRefreshedType DEF DmTypes
  <2>3. sw2 = sw
    BY <2>1 DEF sw, sw2
  <2>4. \E k \in DmKey : dmPass'.view[k].on
    BY <1>r, <2>1, <2>2
  <2> QED BY <1>c, <1>g, <1>n, <1>o, <1>r, <1>s, <2>1, <2>3, <2>4
<1>6. ASSUME NEW b \in BOOLEAN, DmRemove(b) PROVE DmRoundsOK'
  <2>1. /\ dmPass.pc = "locked" /\ dmPass'.rounds = dmPass.rounds
        /\ dmPass'.swept = dmPass.swept /\ dmEvents' = dmEvents
    BY <1>6, DmRemoveFacts DEF DmRemove
  <2>2. PICK removed \in SUBSET DmRemovable :
          DmUnlink(removed) /\ dmPass'.pc = IF removed = {} THEN "report" ELSE "scan"
    BY <1>6, DmRemoveFacts
  <2>3. removed # {} => left2 + 1 <= left
    BY <2>2, DmOnDiskUnlinked DEF left, left2
  <2>4. sw2 = sw
    BY <2>1 DEF sw, sw2
  <2> QED BY <1>c, <1>d, <1>g, <1>k, <1>n, <1>r, <1>s, <2>1, <2>2, <2>3, <2>4
<1>7. CASE DmRemoveFails
  <2>1. /\ dmPass.pc = "locked" /\ dmPass'.rounds = dmPass.rounds /\ dmPass'.pc = "idle"
        /\ dmEvents' = dmEvents
    BY <1>7, DmRemoveFailsFacts DEF DmRemoveFails
  <2> QED BY <1>c, <1>g, <1>n, <1>r, <1>s, <2>1
<1>8. ASSUME NEW b \in BOOLEAN, DmReport(b) PROVE DmRoundsOK'
  <2>1. /\ dmPass'.rounds = dmPass.rounds /\ dmPass'.pc = "idle" /\ dmEvents' = dmEvents
    BY <1>8, DmReportFacts DEF DmReport, DmKeepWorld
  <2> QED BY <1>g, <1>r, <2>1
<1>9. ASSUME dmEvents' = dmEvents + 1, left2 <= left + 1, dmPass'.pc = dmPass.pc,
             dmPass'.view = dmPass.view, dmPass'.rounds = dmPass.rounds,
             dmPass'.swept = dmPass.swept
      PROVE  DmRoundsOK'
  <2>1. sw2 = sw
    BY <1>9 DEF sw, sw2
  <2> QED BY <1>9, <1>c, <1>d, <1>g, <1>n, <1>r, <1>s, <2>1
<1>10. ASSUME NEW k \in DmKey, DmHit(k) \/ DmPublish(k) \/ DmForeignPublish(k) PROVE DmRoundsOK'
  <2>1. DmEvent /\ DmDisturb
    BY <1>10 DEF DmHit, DmPublish, DmForeignPublish
  <2>2. DmOnDisk' \subseteq DmOnDisk \cup {k}
    <3>1. ASSUME NEW j \in DmKey, j # k PROVE dmDisk'[j].on = dmDisk[j].on
      BY <1>10, <3>1, DmHitFacts, DmNewGeneration DEF DmPublish, DmForeignPublish
    <3> QED BY <3>1 DEF DmOnDisk
  <2> DEFINE after == DmOnDisk'
             more == DmOnDisk \cup {k}
  <2>3. IsFiniteSet(DmOnDisk) /\ Cardinality(DmOnDisk) \in Nat
    BY DmOnDiskCount
  <2>4. IsFiniteSet(more) /\ Cardinality(more) <= Cardinality(DmOnDisk) + 1
        /\ Cardinality(more) \in Nat
    <3>1. IsFiniteSet(more)
          /\ Cardinality(more) = IF k \in DmOnDisk THEN Cardinality(DmOnDisk)
                                                 ELSE Cardinality(DmOnDisk) + 1
      BY <2>3, FS_AddElement
    <3> QED BY <2>3, <3>1
  <2>5. after \subseteq more
    BY <2>2
  <2> HIDE DEF after, more
  <2>6. Cardinality(after) <= Cardinality(more) /\ Cardinality(after) \in Nat
    BY <2>4, <2>5, FS_Subset, FS_CardinalityType
  <2>7. left2 <= left + 1
    BY <2>3, <2>4, <2>6 DEF left, left2, after
  <2> QED BY <1>9, <2>1, <2>7, DmEventFacts, DmDisturbFacts
<1>11. ASSUME NEW l \in DmLoads, DmOtherUse(l.other) PROVE DmRoundsOK'
  <2>1. DmEvent /\ DmDisturb /\ dmDisk' = dmDisk
    BY <1>11 DEF DmOtherUse
  <2> QED BY <1>9, <1>c, <1>o, <2>1, DmEventFacts, DmDisturbFacts
<1>12. CASE DmRequestShutdown
  <2>1. DmEvent /\ dmDisk' = dmDisk /\ dmPass' = dmPass
    BY <1>12 DEF DmRequestShutdown
  <2> QED BY <1>9, <1>c, <1>o, <2>1, DmEventFacts
<1>13. CASE UNCHANGED dmVars
  <2>1. dmEvents' = dmEvents /\ dmDisk' = dmDisk /\ dmPass' = dmPass
    BY <1>13 DEF dmVars
  <2>2. sw2 = sw
    BY <2>1 DEF sw, sw2
  <2> QED BY <1>g, <1>o, <1>r, <2>1, <2>2
<1> QED
  BY <1>1, <1>2, <1>3, <1>4, <1>5, <1>6, <1>7, <1>8, <1>10, <1>11, <1>12, <1>13, DmCases DEF DmLeaving


-----------------------------------------------------------------------------

\* The inductive invariant holds initially.
LEMMA DmInvInit == DmInit => DmInv
<1> SUFFICES ASSUME DmInit PROVE DmInv
  OBVIOUS
<1>1. DmTypes
  BY DmTypesInit
<1>2. dmPass.pc = "idle" /\ dmPass.rounds = 0 /\ dmPass.view = DmNoView /\ dmEvents = 0
  BY DEF DmInit
<1>3. DmViewOK /\ DmFreshOK /\ DmPlanOK /\ DmQuietOK
  BY <1>2 DEF DmViewOK, DmFreshOK, DmPlanOK, DmQuietOK, DmPlanning
<1>4. DmRoundsOK
  BY <1>1, <1>2, DmOnDiskCount DEF DmRoundsOK, DmRoundsBounded
<1> QED BY <1>1, <1>3, <1>4 DEF DmInv

\* Every step keeps the inductive invariant.
LEMMA DmInvStep == DmInv /\ [DmNext]_dmVars => DmInv'
BY DmTypesStep, DmViewStep, DmFreshStep, DmPlanStep, DmQuietStep, DmRoundsStep DEF DmInv

\* The inductive invariant holds throughout.
LEMMA DmInvHolds == DmSpec => []DmInv
BY DmInvInit, DmInvStep, PTL DEF DmSpec

\* A pass ends after a number of rounds that is known beforehand, whatever compiles
\* and other processes do meanwhile (the loop of maintain_state_disk).
THEOREM DmRoundsBoundedHolds == DmSpec => []DmRoundsBounded
<1>1. DmInv => DmRoundsBounded
  BY DEF DmInv, DmRoundsOK
<1> QED BY <1>1, DmInvHolds, PTL

\* A pass that nobody disturbed relieves the pressure, or leaves nothing behind that
\* it may evict and that would help (plan_maintenance_at_least and its loop).
THEOREM DmRelievedHolds == DmSpec => []DmRelieved
<1>1. DmInv => DmRelieved
  BY DEF DmInv, DmQuietOK, DmRelieved, DmRelievedAt, DmPassAt
<1> QED BY <1>1, DmInvHolds, PTL

\* What a step evicts is in the plan, and is what was scanned.
LEMMA DmEvictedPlanned ==
    ASSUME DmTypes, [DmNext]_dmVars, NEW k \in DmKey, DmEvicted(k)
    PROVE  dmPass.pc = "locked" /\ k \in dmPass.plan.selected /\ DmUnchanged(k)
<1>e. dmDisk[k].on /\ ~dmDisk'[k].on
  BY DEF DmEvicted
<1>1. ASSUME NEW keys \in SUBSET DmRemovable, DmUnlink(keys)
      PROVE  k \in dmPass.plan.selected /\ DmUnchanged(k)
  <2>1. keys \in SUBSET DmKey
    BY DmPassFields DEF DmRemovable, DmPlanType
  <2>2. k \in keys
    BY <1>1, <1>e, <2>1, DmUnlinkFacts
  <2> QED BY <2>2 DEF DmRemovable
<1>2. ASSUME NEW b \in BOOLEAN, DmRemove(b) PROVE k \in dmPass.plan.selected /\ DmUnchanged(k)
  BY <1>1, <1>2, DmRemoveFacts
<1>3. CASE DmRemoveFails
  BY <1>1, <1>3, DmRemoveFailsFacts
<1>4. ASSUME NEW j \in DmKey, DmHit(j) \/ DmPublish(j) \/ DmForeignPublish(j) PROVE FALSE
  <2>1. CASE DmHit(j)
    BY <1>e, <2>1, DmHitFacts
  <2>2. CASE DmPublish(j) \/ DmForeignPublish(j)
    <3>1. (\A i \in DmKey : i # j => dmDisk'[i] = dmDisk[i]) /\ dmDisk'[j].on
      BY <2>2, DmNewGeneration DEF DmPublish, DmForeignPublish
    <3> QED BY <1>e, <3>1
  <2> QED BY <1>4, <2>1, <2>2
<1>5. ASSUME \/ DmStart \/ DmStop \/ DmScan \/ DmSweep \/ DmRound \/ DmLock
             \/ \E b \in BOOLEAN : DmReport(b)
             \/ \E l \in DmLoads : DmOtherUse(l.other)
             \/ DmResting
      PROVE  FALSE
  BY <1>5, <1>e DEF DmStart, DmStop, DmScan, DmSweep, DmRound, DmLock, DmReport, DmOtherUse,
                    DmKeepWorld, DmResting
<1>6. (\E b \in BOOLEAN : DmRemove(b)) \/ DmRemoveFails
  BY <1>4, <1>5, DmCases DEF DmLeaving
<1>7. dmPass.pc = "locked"
  BY <1>6, DmRemoveFacts, DmRemoveFailsFacts
<1> QED BY <1>2, <1>3, <1>6, <1>7

\* Eviction never outruns use: what goes is old enough at that moment, and not only
\* when it was scanned (remove_planned_artifacts under the publication barrier).
THEOREM DmEvictionJustifiedHolds == DmSpec => DmEvictionJustified
<1>1. ASSUME DmInv, [DmNext]_dmVars, NEW k \in DmKey, DmEvicted(k)
      PROVE  \/ dmPass.kind = "Full" /\ DmLastUse(k) = 3
             \/ dmPass.plan.pressure # "None" /\ DmLastUse(k) > 1
             \/ /\ dmPass.plan.pressure = "Hard"
                /\ ~(DmLastUse(k) = 0 /\ DmJustPublished(k))
  <2>1. dmPass.pc = "locked" /\ k \in dmPass.plan.selected /\ DmUnchanged(k)
    BY <1>1, DmEvictedPlanned DEF DmInv
  <2>2. /\ dmPass.view[k].on
        /\ \/ dmPass.kind = "Full" /\ dmPass.view[k].age = 3
           \/ dmPass.plan.pressure # "None" /\ dmPass.view[k].age > 1
           \/ /\ dmPass.plan.pressure = "Hard"
              /\ ~(dmPass.view[k].age = 0 /\ dmPass.view[k].recent)
    BY <1>1, <2>1 DEF DmInv, DmPlanOK
  <2>3. dmPass.view[k].age = DmLastUse(k) /\ (DmJustPublished(k) => dmPass.view[k].recent)
    BY <1>1, <2>1, <2>2 DEF DmInv, DmFreshOK
  <2> QED BY <2>2, <2>3
<1>2. DmInv /\ [DmNext]_dmVars =>
        [\A k \in DmKey : DmEvicted(k) =>
            \/ dmPass.kind = "Full" /\ DmLastUse(k) = 3
            \/ dmPass.plan.pressure # "None" /\ DmLastUse(k) > 1
            \/ /\ dmPass.plan.pressure = "Hard"
               /\ ~(DmLastUse(k) = 0 /\ DmJustPublished(k))]_dmVars
  BY <1>1
<1> QED BY <1>2, DmInvHolds, PTL DEF DmSpec, DmEvictionJustified

\* Eviction stops at its marks: while nobody interferes, nothing that is not expired
\* goes once usage and free space are where the planner wants them, nor before the
\* retired stores were swept.
THEOREM DmEvictionNeededHolds == DmSpec => DmEvictionNeeded
<1>1. ASSUME DmInv, [DmNext]_dmVars, NEW k \in DmKey, DmEvicted(k),
             k \notin dmPass.plan.expired, dmPass.undisturbed
      PROVE  /\ \/ DmUsage > DmOf(IF dmPass.plan.pressure = "Hard" THEN 80 ELSE 70)
                \/ DmFree < DmRecoveryFree
             /\ dmPass.swept \/ dmRetired = 0
  <2>1. dmPass.pc = "locked" /\ k \in dmPass.plan.selected
    BY <1>1, DmEvictedPlanned DEF DmInv
  <2>2. dmPass.plan.selected \ dmPass.plan.expired # {}
    BY <1>1, <2>1
  <2> QED BY <1>1, <2>1, <2>2 DEF DmInv, DmQuietOK, DmNeeded
<1>2. DmInv /\ [DmNext]_dmVars =>
        [\A k \in DmKey :
          DmEvicted(k) /\ k \notin dmPass.plan.expired /\ dmPass.undisturbed =>
            /\ \/ DmUsage > DmOf(IF dmPass.plan.pressure = "Hard" THEN 80 ELSE 70)
               \/ DmFree < DmRecoveryFree
            /\ dmPass.swept \/ dmRetired = 0]_dmVars
  BY <1>1
<1> QED BY <1>2, DmInvHolds, PTL DEF DmSpec, DmEvictionNeeded
=============================================================================
