------------------------ MODULE ResponsivenessProofs ------------------------
(***************************************************************************)
(* The planners of Topology and the controllers of Responsiveness: TypeOK, *)
(* ReserveSpread, WidthFits and WidthEarned for every topology,            *)
(* configuration and bound. First the facts about orders, selections and   *)
(* plans, which hold for any snapshot of CPU Sets, then the inductive      *)
(* invariant WidthInv, one lemma per action.                               *)
(***************************************************************************)
EXTENDS Responsiveness, FiniteSetTheorems, SequenceTheorems,
        WellFoundedInduction, TLAPS

-----------------------------------------------------------------------------
\* Least and greatest numbers

\* A set of natural numbers that is not empty has a least element.
LEMMA LeastNatural ==
    ASSUME NEW S, S \subseteq Nat, S # {}
    PROVE  \E n \in S : \A m \in S : n <= m
<1> DEFINE R == OpToRel(<, Nat)
<1>1. IsWellFoundedOn(R, Nat)
  BY NatLessThanWellFounded
<1>2. \A x, y \in Nat : x < y => <<x, y>> \in R
  BY DEF OpToRel
<1> HIDE DEF R
<1>3. PICK n \in S : \A m \in S : ~ (<<m, n>> \in R)
  BY <1>1, WFMin
<1>4. \A m \in S : n <= m
  <2> TAKE m \in S
  <2>1. m \in Nat /\ n \in Nat
    OBVIOUS
  <2>2. ~ (<<m, n>> \in R)
    BY <1>3
  <2>3. ~ (m < n)
    BY <1>2, <2>1, <2>2, Zenon
  <2> QED
    BY <2>1, <2>3
<1> QED
  BY <1>4

\* A finite one has a greatest element: the set of those above it is a least
\* one under inclusion.
LEMMA GreatestNatural ==
    ASSUME NEW S, S \subseteq Nat, S # {}, IsFiniteSet(S)
    PROVE  \E n \in S : \A m \in S : m <= n
<1> DEFINE R == StrictSubsetOrdering(S)
           Above(x) == {y \in S : x < y}
           F == {U \in SUBSET S : \E x \in S : U = Above(x)}
<1>1. IsWellFoundedOn(R, SUBSET S)
  BY FS_StrictSubsetOrderingWellFounded, FS_FiniteSubsetsOfFinite
<1>2. F \subseteq SUBSET S /\ F # {}
  OBVIOUS
<1>3. PICK U \in F : \A V \in F : ~ (<<V, U>> \in R)
  <2> HIDE DEF F, R
  <2> QED
    BY <1>1, <1>2, WFMin
<1>4. PICK x \in S : U = Above(x)
  OBVIOUS
<1>5. \A y \in S : y <= x
  <2> SUFFICES ASSUME NEW y \in S, x < y PROVE FALSE
    OBVIOUS
  <2>1. Above(y) \in F /\ Above(y) \in SUBSET S /\ U \in SUBSET S
    OBVIOUS
  <2>0. x \in Nat /\ y \in Nat /\ U = Above(x)
    BY <1>4
  <2>1a. \A z \in S : z \in Nat
    OBVIOUS
  <2>1b. Above(y) \subseteq U
    <3> SUFFICES ASSUME NEW z \in S, y < z PROVE x < z
      BY <2>0
    <3> QED
      BY <2>0, <2>1a
  <2>1c. y \in U /\ y \notin Above(y)
    BY <2>0
  <2>2. Above(y) \subseteq U /\ Above(y) # U
    BY <2>1b, <2>1c
  <2>3. <<Above(y), U>> \in R
    BY <2>1, <2>2, <2>1b DEF StrictSubsetOrdering
  <2> QED
    BY <1>3, <2>1, <2>3
<1> QED
  BY <1>5

\* Max and Min of the community module, for the sets they are used for.
LEMMA MaxIsGreatest ==
    ASSUME NEW S, S \subseteq Nat, S # {}, IsFiniteSet(S)
    PROVE  Max(S) \in S /\ \A m \in S : m <= Max(S)
<1>1. \E n \in S : \A m \in S : n >= m
  BY GreatestNatural
<1> QED
  BY <1>1 DEF Max

\* Min is the least element of a set that is not empty.
LEMMA MinIsLeast ==
    ASSUME NEW S, S \subseteq Nat, S # {}
    PROVE  Min(S) \in S /\ \A m \in S : Min(S) <= m
<1>1. \E n \in S : \A m \in S : n <= m
  BY LeastNatural
<1> QED
  BY <1>1 DEF Min

\* Max of two numbers,
LEMMA MaxOfTwo ==
    ASSUME NEW a \in Int, NEW b \in Int
    PROVE  Max({a, b}) = IF a >= b THEN a ELSE b
<1>1. \E n \in {a, b} : \A m \in {a, b} : n >= m
  OBVIOUS
<1>2. Max({a, b}) \in {a, b} /\ \A m \in {a, b} : Max({a, b}) >= m
  BY <1>1 DEF Max
<1> QED
  BY <1>2

\* and Min.
LEMMA MinOfTwo ==
    ASSUME NEW a \in Int, NEW b \in Int
    PROVE  Min({a, b}) = IF a <= b THEN a ELSE b
<1>1. \E n \in {a, b} : \A m \in {a, b} : n <= m
  OBVIOUS
<1>2. Min({a, b}) \in {a, b} /\ \A m \in {a, b} : Min({a, b}) <= m
  BY <1>1 DEF Min
<1> QED
  BY <1>2

-----------------------------------------------------------------------------
\* Places in an order

\* The place of k in P under the strict order R.
Place(P, R, k) == Cardinality({j \in P : <<j, k>> \in R})

Orders(R, P) ==
    /\ \A j \in P : <<j, j>> \notin R
    /\ \A i, j, k \in P : <<i, j>> \in R /\ <<j, k>> \in R => <<i, k>> \in R
    /\ \A j, k \in P : j = k \/ <<j, k>> \in R \/ <<k, j>> \in R

\* The places are 0 up to the size of the set, in the order, none left out.
LEMMA Places ==
    ASSUME NEW P, IsFiniteSet(P), NEW R, Orders(R, P)
    PROVE  /\ \A k \in P : Place(P, R, k) \in 0 .. Cardinality(P) - 1
           /\ \A j, k \in P :
                 (<<j, k>> \in R) <=> (Place(P, R, j) < Place(P, R, k))
           /\ \A i \in 0 .. Cardinality(P) - 1 :
                 \E k \in P : Place(P, R, k) = i
<1> DEFINE Pre(k) == {j \in P : <<j, k>> \in R}
           n == Cardinality(P)
<1>1. n \in Nat
  BY FS_CardinalityType
<1>2. \A k \in P : IsFiniteSet(Pre(k)) /\ Cardinality(Pre(k)) \in Nat
  BY FS_Subset, FS_CardinalityType
<1>3. ASSUME NEW k \in P
      PROVE  Place(P, R, k) \in 0 .. n - 1
  <2>1. IsFiniteSet(P \ {k}) /\ Cardinality(P \ {k}) = n - 1
    BY FS_RemoveElement
  <2>2. Pre(k) \in SUBSET (P \ {k})
    BY DEF Orders
  <2> HIDE DEF Pre, n
  <2>3. Cardinality(Pre(k)) <= n - 1
    BY <2>1, <2>2, FS_Subset
  <2>4. Cardinality(Pre(k)) \in 0 .. n - 1
    BY <1>1, <1>2, <2>3
  <2> QED
    BY <2>4 DEF Place, Pre
<1>4. ASSUME NEW j \in P, NEW k \in P, <<j, k>> \in R
      PROVE  Place(P, R, j) < Place(P, R, k)
  <2>1. Pre(j) \in SUBSET Pre(k) /\ j \in Pre(k) /\ j \notin Pre(j)
    BY <1>4 DEF Orders
  <2>2. Pre(j) # Pre(k)
    BY <2>1
  <2> HIDE DEF Pre
  <2>3. /\ Cardinality(Pre(j)) <= Cardinality(Pre(k))
        /\ Cardinality(Pre(j)) # Cardinality(Pre(k))
    BY <1>2, <2>1, <2>2, FS_Subset
  <2> QED
    BY <1>2, <2>3 DEF Place, Pre
<1>5. ASSUME NEW j \in P, NEW k \in P, Place(P, R, j) < Place(P, R, k)
      PROVE  <<j, k>> \in R
  <2>1. Place(P, R, j) \in Int /\ Place(P, R, k) \in Int
    BY <1>3
  <2>2. j # k /\ <<k, j>> \notin R
    BY <1>4, <1>5, <2>1
  <2> QED
    BY <2>2 DEF Orders
<1>6. \A i \in 0 .. n - 1 : \E k \in P : Place(P, R, k) = i
  <2> DEFINE f == [k \in P |-> Place(P, R, k)]
             I == 0 .. n - 1
  <2>1. f \in [P -> I]
    BY <1>3
  <2>2. ASSUME NEW j \in P, NEW k \in P, f[j] = f[k]
        PROVE  j = k
    <3>1. Place(P, R, j) = Place(P, R, k) /\ Place(P, R, j) \in Int
      BY <1>3, <2>2
    <3>2. <<j, k>> \notin R /\ <<k, j>> \notin R
      BY <1>4, <3>1
    <3> QED
      BY <3>2 DEF Orders
  <2>3. f \in Injection(P, I)
    BY <2>1, <2>2 DEF Injection, IsInjective
  <2>4. IsFiniteSet(I) /\ Cardinality(I) = n
    BY <1>1, FS_Interval
  <2> HIDE DEF I
  <2>5. f \in Surjection(P, I)
    BY <2>3, <2>4, FS_Injection
  <2> QED
    BY <2>5 DEF Surjection, I
<1> QED
  BY <1>3, <1>4, <1>5, <1>6

\* As many elements come at the first places as there are places.
LEMMA FirstPlaces ==
    ASSUME NEW P, IsFiniteSet(P), NEW R, Orders(R, P), NEW n \in Nat
    PROVE  LET S == {k \in P : Place(P, R, k) < n} IN
           /\ IsFiniteSet(S)
           /\ Cardinality(S) = IF n <= Cardinality(P) THEN n
                               ELSE Cardinality(P)
<1> DEFINE S == {k \in P : Place(P, R, k) < n}
           m == IF n <= Cardinality(P) THEN n ELSE Cardinality(P)
           I == 0 .. m - 1
           f == [k \in S |-> Place(P, R, k)]
<1>1. /\ \A k \in P : Place(P, R, k) \in 0 .. Cardinality(P) - 1
      /\ \A j, k \in P :
            (<<j, k>> \in R) <=> (Place(P, R, j) < Place(P, R, k))
      /\ \A i \in 0 .. Cardinality(P) - 1 : \E k \in P : Place(P, R, k) = i
  BY Places
<1>2. Cardinality(P) \in Nat /\ IsFiniteSet(S) /\ m \in Nat
  BY FS_CardinalityType, FS_Subset
<1>3. f \in [S -> I]
  BY <1>1, <1>2
<1>4. ASSUME NEW j \in S, NEW k \in S, f[j] = f[k]
      PROVE  j = k
  <2>1. Place(P, R, j) = Place(P, R, k) /\ Place(P, R, j) \in Int
    BY <1>1, <1>4
  <2> QED
    BY <1>1, <2>1 DEF Orders
<1>5. f \in Injection(S, I)
  BY <1>3, <1>4 DEF Injection, IsInjective
<1>6. \A i \in I : \E k \in S : f[k] = i
  BY <1>1, <1>2
<1>7. f \in Surjection(S, I)
  BY <1>3, <1>6 DEF Surjection
<1>8. IsFiniteSet(I) /\ Cardinality(I) = m
  <2>1. 0 \in Int /\ m - 1 \in Int /\ (0 > m - 1 => m = 0)
        /\ (m - 1) - 0 + 1 = m
    BY <1>2
  <2> QED
    BY <2>1, FS_Interval
<1> HIDE DEF I, f
<1>9. Cardinality(S) = Cardinality(I)
  BY <1>5, <1>7, <1>8, FS_Injection
<1> QED
  BY <1>2, <1>8, <1>9

-----------------------------------------------------------------------------
\* Snapshots and their cores

\* The values of a function on a finite set are finitely many.
LEMMA ValuesFinite ==
    ASSUME NEW S, IsFiniteSet(S), NEW f, f = [x \in S |-> f[x]]
    PROVE  /\ IsFiniteSet({f[x] : x \in S})
           /\ Cardinality({f[x] : x \in S}) <= Cardinality(S)
<1> DEFINE V == {f[x] : x \in S}
<1>1. f \in Surjection(S, V)
  <2>1. f \in [S -> V]
    OBVIOUS
  <2> QED
    BY <2>1 DEF Surjection
<1> QED
  BY <1>1, FS_Surjection

Snapshot(T) == IsTopology(T) /\ IsFiniteSet(T)

\* The fields of a CPU Set have their types.
LEMMA CpuFields ==
    ASSUME NEW u \in CpuSet
    PROVE  /\ u.id \in Nat /\ u.core \in Nat /\ u.llc \in Nat
           /\ u.numa \in Nat /\ u.processor \in Nat /\ u.efficiency \in Nat
           /\ u.scheduling \in Nat /\ u.flags \in SUBSET Flags
BY DEF CpuSet

\* A snapshot has finitely many cores and CPU Set ids.
LEMMA CoresFinite ==
    ASSUME NEW T, Snapshot(T)
    PROVE  /\ PhysicalCores(T) \subseteq Nat /\ IsFiniteSet(PhysicalCores(T))
           /\ Placeable(T) \subseteq PhysicalCores(T)
           /\ IsFiniteSet(Placeable(T))
           /\ Cardinality(PhysicalCores(T)) \in Nat
           /\ Cardinality(Placeable(T)) \in Nat
           /\ Cardinality(Placeable(T)) <= Cardinality(PhysicalCores(T))
           /\ Cardinality(PhysicalCores(T)) <= Cardinality(T)
           /\ Cardinality(T) \in Nat
<1>1. T \subseteq CpuSet /\ IsFiniteSet(T)
  BY DEF Snapshot, IsTopology
<1> DEFINE f == [cpu \in T |-> cpu.core]
           Cores == {cpu.core : cpu \in T}
<1>2. {f[cpu] : cpu \in T} = Cores /\ f = [cpu \in T |-> f[cpu]]
  OBVIOUS
<1>3. IsFiniteSet(Cores) /\ Cardinality(Cores) <= Cardinality(T)
  <2> HIDE DEF f, Cores
  <2> QED
    BY <1>1, <1>2, ValuesFinite
<1>4. Cores \subseteq Nat
  BY <1>1, CpuFields
<1>5. PhysicalCores(T) \in SUBSET Cores
  BY DEF PhysicalCores
<1>6. Placeable(T) \in SUBSET PhysicalCores(T)
  BY DEF Placeable
<1>7. IsFiniteSet(PhysicalCores(T))
      /\ Cardinality(PhysicalCores(T)) <= Cardinality(Cores)
  <2> HIDE DEF Cores
  <2> QED
    BY <1>3, <1>5, FS_Subset
<1>8. IsFiniteSet(Placeable(T))
      /\ Cardinality(Placeable(T)) <= Cardinality(PhysicalCores(T))
  BY <1>6, <1>7, FS_Subset
<1>9. /\ Cardinality(T) \in Nat /\ Cardinality(Cores) \in Nat
      /\ Cardinality(PhysicalCores(T)) \in Nat
      /\ Cardinality(Placeable(T)) \in Nat
  <2> HIDE DEF Cores
  <2> QED
    BY <1>1, <1>3, <1>7, <1>8, FS_CardinalityType
<1> HIDE DEF Cores
<1>10. Cardinality(PhysicalCores(T)) <= Cardinality(T)
  BY <1>3, <1>7, <1>9
<1>11. PhysicalCores(T) \subseteq Nat
  BY <1>4, <1>5
<1> QED
  BY <1>6, <1>7, <1>8, <1>9, <1>10, <1>11

\* The siblings of a physical core have its last-level cache and a greatest
\* scheduling class.
LEMMA CoreFields ==
    ASSUME NEW T, Snapshot(T), NEW k \in PhysicalCores(T)
    PROVE  /\ k \in Nat /\ Siblings(T, k) # {}
           /\ Llc(T, k) \in Nat
           /\ \A u \in Siblings(T, k) : u.llc = Llc(T, k)
           /\ SchedulingClass(T, k) \in Nat
<1>1. T \subseteq CpuSet /\ IsFiniteSet(T)
  BY DEF Snapshot, IsTopology
<1>2. PICK u \in T : u.core = k
  BY DEF PhysicalCores
<1>3. u \in Siblings(T, k)
  BY <1>2 DEF Siblings
<1>4. \A a \in Siblings(T, k) : a.llc = u.llc
  BY <1>3 DEF PhysicalCores
<1>5. {a.llc : a \in Siblings(T, k)} = {u.llc}
  BY <1>3, <1>4
<1>6. Llc(T, k) = u.llc
  BY <1>5 DEF Llc
<1>7. u.core \in Nat /\ u.llc \in Nat
  BY <1>1, <1>2, CpuFields
<1> DEFINE S == Siblings(T, k)
           f == [a \in S |-> a.scheduling]
           C == {a.scheduling : a \in S}
<1>8. {f[a] : a \in S} = C /\ f = [a \in S |-> f[a]]
  OBVIOUS
<1>9. IsFiniteSet(S)
  BY <1>1, FS_Subset DEF Siblings
<1>10. C \subseteq Nat /\ C # {}
  BY <1>1, <1>3, CpuFields DEF Siblings
<1>11. IsFiniteSet(C)
  <2> HIDE DEF f, C, S
  <2> QED
    BY <1>8, <1>9, ValuesFinite
<1>12. SchedulingClass(T, k) \in Nat
  <2> HIDE DEF C
  <2>1. Max(C) \in C
    BY <1>10, <1>11, MaxIsGreatest
  <2>2. SchedulingClass(T, k) = Max(C)
    BY DEF SchedulingClass, C
  <2> QED
    BY <1>10, <2>1, <2>2
<1> QED
  BY <1>2, <1>3, <1>4, <1>6, <1>7, <1>12

\* To take cores out of a snapshot withholds them and changes nothing else.
LEMMA ExcludingSnapshot ==
    ASSUME NEW T, Snapshot(T), NEW R
    PROVE  /\ Snapshot(Excluding(T, R))
           /\ Cardinality(Excluding(T, R)) <= Cardinality(T)
<1> DEFINE f == [cpu \in T |->
                    IF cpu.core \in R
                    THEN [cpu EXCEPT !.flags =
                             (@ \ {"allocated_to_target_process"})
                                \cup {"allocated"}]
                    ELSE cpu]
           V == Excluding(T, R)
<1>1. T # {} /\ T \subseteq CpuSet /\ IsFiniteSet(T)
      /\ \A a, b \in T : a.id = b.id => a = b
  BY DEF Snapshot, IsTopology
<1>2. V = {f[cpu] : cpu \in T} /\ f = [cpu \in T |-> f[cpu]]
  BY DEF Excluding
<1>3. \A cpu \in T : f[cpu] \in CpuSet /\ f[cpu].id = cpu.id
  <2> TAKE cpu \in T
  <2>1. cpu \in CpuSet
    BY <1>1
  <2>2. CASE cpu.core \in R
    BY <2>1, <2>2 DEF CpuSet, Flags
  <2>3. CASE cpu.core \notin R
    BY <2>1, <2>3
  <2> QED
    BY <2>2, <2>3
<1> HIDE DEF f, V
<1>4. IsFiniteSet(V) /\ Cardinality(V) <= Cardinality(T)
  BY <1>1, <1>2, ValuesFinite
<1>5. V # {} /\ V \subseteq CpuSet
  BY <1>1, <1>2, <1>3
<1>6. \A a, b \in V : a.id = b.id => a = b
  <2> SUFFICES ASSUME NEW a \in V, NEW b \in V, a.id = b.id PROVE a = b
    OBVIOUS
  <2>1. PICK x \in T, y \in T : a = f[x] /\ b = f[y]
    BY <1>2
  <2>2. x.id = y.id
    BY <1>3, <2>1
  <2> QED
    BY <1>1, <2>1, <2>2
<1>7. Snapshot(V)
  BY <1>4, <1>5, <1>6 DEF Snapshot, IsTopology
<1> QED
  BY <1>4, <1>7 DEF V

-----------------------------------------------------------------------------
\* Selections

\* An order has a first element.
LEMMA FirstOf ==
    ASSUME NEW P, IsFiniteSet(P), P # {}, NEW R, Orders(R, P)
    PROVE  \E k \in P : \A j \in P : j = k \/ <<k, j>> \in R
<1>1. Cardinality(P) \in Nat /\ Cardinality(P) # 0
  BY FS_CardinalityType, FS_EmptySet
<1>2. PICK k \in P : Place(P, R, k) = 0
  BY <1>1, Places
<1>3. ASSUME NEW j \in P, <<j, k>> \in R
      PROVE  FALSE
  <2>1. Place(P, R, j) < Place(P, R, k) /\ Place(P, R, j) \in Nat
    BY <1>1, <1>3, Places
  <2> QED
    BY <1>2, <2>1
<1> QED
  BY <1>3 DEF Orders

\* The placeable cores of a domain, and which of two the planners take first.
CoresIn(T, d) == {k \in Placeable(T) : Llc(T, k) = d}

BetterCore(T, j, k) ==
    \/ SchedulingClass(T, j) > SchedulingClass(T, k)
    \/ SchedulingClass(T, j) = SchedulingClass(T, k) /\ j < k

\* The place of a core in its domain is a number, and grows in the order.
LEMMA Depths ==
    ASSUME NEW T, Snapshot(T), NEW d
    PROVE  LET P == CoresIn(T, d) IN
           /\ IsFiniteSet(P) /\ Cardinality(P) \in Nat
           /\ \A k \in P : Depth(T, k) \in 0 .. Cardinality(P) - 1
           /\ \A j, k \in P :
                 BetterCore(T, j, k) <=> Depth(T, j) < Depth(T, k)
           /\ \A j, k \in P : Depth(T, j) = Depth(T, k) => j = k
           /\ \A i \in 0 .. Cardinality(P) - 1 : \E k \in P : Depth(T, k) = i
           /\ \A n \in Nat :
                 Cardinality({k \in P : Depth(T, k) < n}) =
                    IF n <= Cardinality(P) THEN n ELSE Cardinality(P)
<1> DEFINE P == CoresIn(T, d)
           R == {p \in P \X P : BetterCore(T, p[1], p[2])}
<1>1. IsFiniteSet(P) /\ Cardinality(P) \in Nat
  BY CoresFinite, FS_Subset, FS_CardinalityType DEF CoresIn
<1>2. \A k \in P : k \in Nat /\ SchedulingClass(T, k) \in Nat
  BY CoresFinite, CoreFields DEF CoresIn
<1>3. \A j, k \in P : <<j, k>> \in R <=> BetterCore(T, j, k)
  OBVIOUS
<1>4. Orders(R, P)
  <2>1. \A j \in P : <<j, j>> \notin R
    BY <1>2, <1>3 DEF BetterCore
  <2>2. ASSUME NEW i \in P, NEW j \in P, NEW k \in P,
               <<i, j>> \in R, <<j, k>> \in R
        PROVE  <<i, k>> \in R
    <3>1. BetterCore(T, i, j) /\ BetterCore(T, j, k)
      BY <1>3, <2>2
    <3>2. BetterCore(T, i, k)
      BY <1>2, <3>1 DEF BetterCore
    <3> QED
      BY <1>3, <3>2
  <2>3. ASSUME NEW j \in P, NEW k \in P
        PROVE  j = k \/ <<j, k>> \in R \/ <<k, j>> \in R
    BY <1>2, <1>3 DEF BetterCore
  <2> HIDE DEF R, P
  <2> QED
    BY <2>1, <2>2, <2>3 DEF Orders
<1>5. \A k \in P : Depth(T, k) = Place(P, R, k)
  <2> TAKE k \in P
  <2>1. {j \in P : <<j, k>> \in R} =
        {j \in Placeable(T) :
            /\ Llc(T, j) = Llc(T, k)
            /\ \/ SchedulingClass(T, j) > SchedulingClass(T, k)
               \/ SchedulingClass(T, j) = SchedulingClass(T, k) /\ j < k}
    BY DEF CoresIn, BetterCore
  <2> QED
    BY <2>1 DEF Place, Depth
<1> HIDE DEF P, R
<1>6. /\ \A k \in P : Place(P, R, k) \in 0 .. Cardinality(P) - 1
      /\ \A j, k \in P :
            (<<j, k>> \in R) <=> (Place(P, R, j) < Place(P, R, k))
      /\ \A i \in 0 .. Cardinality(P) - 1 : \E k \in P : Place(P, R, k) = i
  BY <1>1, <1>4, Places
<1>7. \A j, k \in P : Depth(T, j) = Depth(T, k) => j = k
  <2> SUFFICES ASSUME NEW j \in P, NEW k \in P,
                      Place(P, R, j) = Place(P, R, k)
               PROVE  j = k
    BY <1>5
  <2>1. Place(P, R, j) \in Int
    BY <1>1, <1>6
  <2>2. <<j, k>> \notin R /\ <<k, j>> \notin R
    BY <1>6, <2>1
  <2> QED
    BY <1>4, <2>2 DEF Orders
<1>8. \A n \in Nat :
         Cardinality({k \in P : Depth(T, k) < n}) =
            IF n <= Cardinality(P) THEN n ELSE Cardinality(P)
  <2> TAKE n \in Nat
  <2>1. {k \in P : Depth(T, k) < n} = {k \in P : Place(P, R, k) < n}
    BY <1>5
  <2> QED
    BY <1>1, <1>4, <2>1, FirstPlaces
<1>9. \A k \in P : Depth(T, k) \in 0 .. Cardinality(P) - 1
  BY <1>5, <1>6
<1>10. \A j, k \in P : BetterCore(T, j, k) <=> Depth(T, j) < Depth(T, k)
  BY <1>3, <1>5, <1>6
<1>11. \A i \in 0 .. Cardinality(P) - 1 : \E k \in P : Depth(T, k) = i
  BY <1>5, <1>6
<1> QED
  BY <1>1, <1>7, <1>8, <1>9, <1>10, <1>11 DEF P

\* The indices of the domains that have a placeable core.
LEMMA Indices ==
    ASSUME NEW T, Snapshot(T)
    PROVE  LET D == PlaceableDomains(T) IN
           /\ IsFiniteSet(D) /\ Cardinality(D) \in Nat /\ D \subseteq Nat
           /\ \A d \in D : Index(T, d) \in 0 .. Cardinality(D) - 1
           /\ \A i \in 0 .. Cardinality(D) - 1 : \E d \in D : Index(T, d) = i
<1> DEFINE D == PlaceableDomains(T)
           R == {p \in D \X D : p[1] < p[2]}
           f == [k \in Placeable(T) |-> Llc(T, k)]
<1>1. D = {f[k] : k \in Placeable(T)} /\ f = [k \in Placeable(T) |-> f[k]]
  BY DEF PlaceableDomains
<1>2. D \subseteq Nat
  BY CoresFinite, CoreFields DEF PlaceableDomains
<1>3. \A d \in D : Index(T, d) = Place(D, R, d)
  <2> TAKE d \in D
  <2>1. {e \in D : <<e, d>> \in R} = {e \in D : e < d}
    OBVIOUS
  <2> QED
    BY <2>1 DEF Index, Place
<1>4. \A d, e \in D : <<d, e>> \in R <=> d < e
  OBVIOUS
<1> HIDE DEF D, R, f
<1>5. IsFiniteSet(D) /\ Cardinality(D) \in Nat
  BY <1>1, CoresFinite, ValuesFinite, FS_CardinalityType
<1>6. Orders(R, D)
  BY <1>2, <1>4 DEF Orders
<1>7. /\ \A d \in D : Place(D, R, d) \in 0 .. Cardinality(D) - 1
      /\ \A i \in 0 .. Cardinality(D) - 1 : \E d \in D : Place(D, R, d) = i
  BY <1>5, <1>6, Places
<1> QED
  BY <1>2, <1>3, <1>5, <1>7 DEF D

\* A pass over the domains takes one core of each at most, so the passes and
\* the domains put the cores in an order.
Earlier(T, first, j, k) ==
    \/ Pass(T, j, first) < Pass(T, k, first)
    \/ /\ Pass(T, j, first) = Pass(T, k, first)
       /\ Llc(T, j) < Llc(T, k)

PassOrder(T, first) ==
    {p \in Placeable(T) \X Placeable(T) : Earlier(T, first, p[1], p[2])}

\* With a first pass of different domains, a core has a pass of its own.
LEMMA Passes ==
    ASSUME NEW T, Snapshot(T), NEW first
    PROVE  /\ \A k \in Placeable(T) :
                 /\ Depth(T, k) \in Nat /\ Llc(T, k) \in Nat
                 /\ Pass(T, k, first) \in Nat
                 /\ Pass(T, k, first) = Depth(T, k) +
                       IF Index(T, Llc(T, k)) \in first THEN 0 ELSE 1
           /\ \A j, k \in Placeable(T) :
                 /\ Llc(T, j) = Llc(T, k)
                 /\ Pass(T, j, first) = Pass(T, k, first)
                 => j = k
           /\ Orders(PassOrder(T, first), Placeable(T))
<1> DEFINE P == Placeable(T)
<1>1. \A k \in P : k \in CoresIn(T, Llc(T, k))
  BY DEF CoresIn
<1>2. \A k \in P : Depth(T, k) \in Nat /\ Llc(T, k) \in Nat
  <2> TAKE k \in P
  <2>1. Depth(T, k) \in 0 .. Cardinality(CoresIn(T, Llc(T, k))) - 1
        /\ Cardinality(CoresIn(T, Llc(T, k))) \in Nat
    BY <1>1, Depths
  <2> QED
    BY <2>1, CoresFinite, CoreFields
<1>3. \A k \in P : Pass(T, k, first) = Depth(T, k) +
                      IF Index(T, Llc(T, k)) \in first THEN 0 ELSE 1
  BY DEF Pass
<1>4. \A k \in P : Pass(T, k, first) \in Nat
  BY <1>2, <1>3
<1>5. ASSUME NEW j \in P, NEW k \in P, Llc(T, j) = Llc(T, k),
             Pass(T, j, first) = Pass(T, k, first)
      PROVE  j = k
  <2>1. Depth(T, j) = Depth(T, k)
    BY <1>2, <1>3, <1>5
  <2>2. j \in CoresIn(T, Llc(T, k)) /\ k \in CoresIn(T, Llc(T, k))
    BY <1>1, <1>5
  <2> QED
    BY <2>1, <2>2, Depths
<1>6. \A j, k \in P :
         <<j, k>> \in PassOrder(T, first) <=> Earlier(T, first, j, k)
  BY DEF PassOrder
<1>7. Orders(PassOrder(T, first), P)
  <2> HIDE DEF P
  <2>1. \A j \in P : ~ Earlier(T, first, j, j)
    BY <1>2, <1>4 DEF Earlier
  <2>2. \A i, j, k \in P :
           Earlier(T, first, i, j) /\ Earlier(T, first, j, k)
           => Earlier(T, first, i, k)
    BY <1>2, <1>4 DEF Earlier
  <2>3. \A j, k \in P :
           j = k \/ Earlier(T, first, j, k) \/ Earlier(T, first, k, j)
    BY <1>2, <1>4, <1>5 DEF Earlier
  <2> QED
    BY <1>6, <2>1, <2>2, <2>3 DEF Orders
<1> QED
  BY <1>2, <1>3, <1>4, <1>5, <1>7

\* A selection has as many cores as asked for and there are, and with a core
\* all that come earlier.
LEMMA Selections ==
    ASSUME NEW T, Snapshot(T), NEW n \in Nat
    PROVE  LET S == Selected(T, n)
               first == FirstPass(Cardinality(PlaceableDomains(T)), n)
           IN
           /\ S \subseteq Placeable(T) /\ IsFiniteSet(S)
           /\ Cardinality(S) = IF n <= Cardinality(Placeable(T)) THEN n
                               ELSE Cardinality(Placeable(T))
           /\ \A k \in S, j \in Placeable(T) :
                 Earlier(T, first, j, k) => j \in S
           /\ \A k \in S :
                 Cardinality({j \in Placeable(T) : Earlier(T, first, j, k)})
                 < n
<1> DEFINE P == Placeable(T)
           S == Selected(T, n)
           first == FirstPass(Cardinality(PlaceableDomains(T)), n)
           O == PassOrder(T, first)
<1>1. IsFiniteSet(P) /\ Orders(O, P)
  BY CoresFinite, Passes
<1>2. \A k \in P : Cardinality({j \in P : Earlier(T, first, j, k)}) =
                   Place(P, O, k)
  <2> TAKE k \in P
  <2>1. {j \in P : <<j, k>> \in O} = {j \in P : Earlier(T, first, j, k)}
    BY DEF PassOrder
  <2> QED
    BY <2>1 DEF Place
<1>3. S = {k \in P : Cardinality({j \in P : Earlier(T, first, j, k)}) < n}
  BY DEF Selected, Earlier
<1>4. \A j, k \in P : <<j, k>> \in O <=> Earlier(T, first, j, k)
  BY DEF PassOrder
<1> HIDE DEF P, S, first, O
<1>5. S = {k \in P : Place(P, O, k) < n}
  BY <1>2, <1>3
<1>6. IsFiniteSet(S) /\ Cardinality(S) = IF n <= Cardinality(P) THEN n
                                         ELSE Cardinality(P)
  BY <1>1, <1>5, FirstPlaces
<1>7. \A k \in P : Place(P, O, k) \in Int
  BY <1>1, Places, FS_CardinalityType
<1>8. ASSUME NEW k \in S, NEW j \in P, Earlier(T, first, j, k)
      PROVE  j \in S
  <2>1. k \in P /\ Place(P, O, k) < n
    BY <1>5
  <2>2. Place(P, O, j) < Place(P, O, k)
    BY <1>1, <1>4, <1>8, <2>1, Places
  <2>3. Place(P, O, j) < n
    BY <1>7, <2>1, <2>2
  <2> QED
    BY <1>5, <2>3
<1> QED
  BY <1>3, <1>5, <1>6, <1>8 DEF P, S, first

-----------------------------------------------------------------------------
\* The first pass

\* Division rounds down, and grows with what is divided.
LEMMA Division ==
    ASSUME NEW a \in Nat, NEW n \in Nat \ {0}
    PROVE  /\ a \div n \in Nat
           /\ n * (a \div n) <= a /\ a < n * (a \div n) + n
OBVIOUS

LEMMA DivisionGrows ==
    ASSUME NEW a \in Nat, NEW b \in Nat, NEW n \in Nat \ {0}, a + n <= b
    PROVE  a \div n < b \div n
BY SMTT(30)

\* The first pass starts in a domain for each core asked for, as long as there
\* are domains: the distances between them are not less than one.
LEMMA Distances ==
    ASSUME NEW n \in Nat, NEW D \in Nat, n < D
    PROVE  /\ \A i \in 0 .. n - 1 : (i * D) \div n \in 0 .. D - 1
           /\ \A i, j \in 0 .. n - 1 :
                 (i * D) \div n = (j * D) \div n => i = j
<1>1. ASSUME NEW i \in 0 .. n - 1
      PROVE  i * D \in Nat /\ (i * D) \div n \in 0 .. D - 1
  <2>1. n \in Nat \ {0} /\ i * D \in Nat /\ D \in Nat \ {0}
    OBVIOUS
  <2>2. (i * D) \div n < D
    BY <2>1, SMTT(30)
  <2>3. (i * D) \div n \in Nat
    BY <2>1, Division
  <2> QED
    BY <2>1, <2>2, <2>3
<1>2. ASSUME NEW i \in 0 .. n - 1, NEW j \in 0 .. n - 1, i < j
      PROVE  (i * D) \div n < (j * D) \div n
  <2>1. i * D + D <= j * D
    BY <1>2, SMTT(30)
  <2>2. i * D \in Nat /\ j * D \in Nat /\ n \in Nat \ {0}
    BY <1>1
  <2>3. i * D + n <= j * D
    BY <2>1, <2>2
  <2> QED
    BY <2>2, <2>3, DivisionGrows
<1>3. ASSUME NEW i \in 0 .. n - 1, NEW j \in 0 .. n - 1,
             (i * D) \div n = (j * D) \div n
      PROVE  i = j
  <2>1. (i * D) \div n \in Int /\ (j * D) \div n \in Int
    BY <1>1
  <2>2. ~ (i < j) /\ ~ (j < i)
    BY <1>2, <1>3, <2>1
  <2> QED
    BY <2>2
<1> QED
  BY <1>1, <1>3

\* With a core for every domain all of them are in it.
LEMMA WholePass ==
    ASSUME NEW n \in Nat, NEW D \in Nat, D <= n
    PROVE  \A i \in 0 .. D - 1 : i \in FirstPass(D, n)
<1> SUFFICES ASSUME NEW i \in 0 .. D - 1
             PROVE  i \in FirstPass(D, n)
  OBVIOUS
<1>1. D \in Nat \ {0} /\ i \in Nat
  OBVIOUS
<1>2. (i * D) \div D = i
  BY <1>1, SMTT(30)
<1>3. (IF n < D THEN n ELSE D) = D
  OBVIOUS
<1> QED
  BY <1>2, <1>3 DEF FirstPass

\* Each of these places is in the first pass.
LEMMA PartPass ==
    ASSUME NEW n \in Nat, NEW D \in Nat, n < D
    PROVE  \A i \in 0 .. n - 1 : (i * D) \div n \in FirstPass(D, n)
BY DEF FirstPass

\* A selection of fewer cores than domains takes the first core of its domains.
LEMMA OneOfEach ==
    ASSUME NEW T, Snapshot(T), NEW n \in Nat,
           n < Cardinality(PlaceableDomains(T))
    PROVE  \A k \in Selected(T, n) : Depth(T, k) = 0
<1> DEFINE P == Placeable(T)
           N == Cardinality(PlaceableDomains(T))
           first == FirstPass(N, n)
           I == 0 .. n - 1
           Z == {k \in P : Pass(T, k, first) = 0}
           At(i, k) == Index(T, Llc(T, k)) = (i * N) \div n /\ Depth(T, k) = 0
           g == [i \in I |-> CHOOSE k \in P : At(i, k)]
<1>1. N \in Nat /\ n < N
  BY Indices
<1>2. /\ \A i \in I : (i * N) \div n \in 0 .. N - 1
      /\ \A i, j \in I : (i * N) \div n = (j * N) \div n => i = j
      /\ \A i \in I : (i * N) \div n \in first
  <2> HIDE DEF N
  <2> QED
    BY <1>1, Distances, PartPass
<1>3. ASSUME NEW i \in I
      PROVE  g[i] \in P /\ At(i, g[i])
  <2>1. PICK d \in PlaceableDomains(T) : Index(T, d) = (i * N) \div n
    BY <1>2, Indices
  <2>2. PICK j \in P : Llc(T, j) = d
    BY DEF PlaceableDomains
  <2>3. j \in CoresIn(T, d)
    BY <2>2 DEF CoresIn
  <2>4. IsFiniteSet(CoresIn(T, d)) /\ Cardinality(CoresIn(T, d)) \in Nat
    BY Depths
  <2>5. Cardinality(CoresIn(T, d)) # 0
    BY <2>3, <2>4, FS_EmptySet
  <2>6. PICK k \in CoresIn(T, d) : Depth(T, k) = 0
    BY <2>4, <2>5, Depths
  <2>7. k \in P /\ At(i, k)
    BY <2>1, <2>6 DEF CoresIn
  <2> HIDE DEF At, P
  <2> QED
    BY <2>7
<1>4. \A i \in I : g[i] \in Z
  <2> TAKE i \in I
  <2>1. g[i] \in P /\ Index(T, Llc(T, g[i])) \in first
        /\ Depth(T, g[i]) = 0
    BY <1>2, <1>3
  <2>2. Pass(T, g[i], first) = 0
    BY <2>1 DEF Pass
  <2> QED
    BY <2>1, <2>2
<1>5. g \in Injection(I, Z)
  <2>1. g \in [I -> Z]
    BY <1>4
  <2>2. \A i, j \in I : g[i] = g[j] => i = j
    <3> SUFFICES ASSUME NEW i \in I, NEW j \in I, g[i] = g[j] PROVE i = j
      OBVIOUS
    <3>1. (i * N) \div n = (j * N) \div n
      BY <1>3
    <3> QED
      BY <1>2, <3>1
  <2> HIDE DEF g, Z, I
  <2> QED
    BY <2>1, <2>2 DEF Injection, IsInjective
<1>6. IsFiniteSet(Z)
  BY CoresFinite, FS_Subset
<1>7. Cardinality(I) = n
  <2>1. 0 \in Int /\ n - 1 \in Int /\ (0 > n - 1 => n = 0)
        /\ (n - 1) - 0 + 1 = n
    OBVIOUS
  <2> QED
    BY <2>1, FS_Interval
<1>8. n <= Cardinality(Z)
  <2> HIDE DEF g, Z, I
  <2> QED
    BY <1>5, <1>6, <1>7, FS_Injection
<1> SUFFICES ASSUME NEW k \in Selected(T, n) PROVE Depth(T, k) = 0
  OBVIOUS
<1> DEFINE E == {j \in P : Earlier(T, first, j, k)}
<1> HIDE DEF first
<1>9. k \in P /\ Cardinality(E) < n
  BY Selections DEF first
<1>10. /\ Pass(T, k, first) \in Nat /\ Depth(T, k) \in Nat
       /\ Pass(T, k, first) = 0 => Depth(T, k) = 0
  BY <1>9, Passes
<1>11. ASSUME Pass(T, k, first) # 0
       PROVE  FALSE
  <2>1. Z \in SUBSET E
    BY <1>9, <1>10, <1>11 DEF Earlier
  <2>2. IsFiniteSet(E)
    BY CoresFinite, FS_Subset
  <2> HIDE DEF Z, E
  <2>3. Cardinality(Z) <= Cardinality(E) /\ Cardinality(Z) \in Nat
        /\ Cardinality(E) \in Nat
    BY <1>6, <2>1, <2>2, FS_Subset, FS_CardinalityType
  <2> QED
    BY <1>8, <1>9, <2>3
<1> QED
  BY <1>10, <1>11

-----------------------------------------------------------------------------
\* The reserve

\* What a reserve asks for is no more than there is to place.
LEMMA Targets ==
    ASSUME NEW total \in Nat, NEW percent \in Nat, NEW least \in Nat,
           NEW most \in Nat
    PROVE  LET asked == ReserveTarget(total, percent, least, most) IN
           /\ asked \in Nat
           /\ total # 0 => asked < total
<1>1. CASE total <= 1 \/ percent = 0 \/ most = 0
  BY <1>1 DEF ReserveTarget
<1>2. CASE ~ (total <= 1 \/ percent = 0 \/ most = 0)
  <2> DEFINE whole == (total * percent + 99) \div 100
             share == Max({whole, least})
             rest == Min({share, most, total - 1})
  <2>1. total * percent + 99 \in Nat
    OBVIOUS
  <2>2. whole \in Nat
    <3> DEFINE a == total * percent + 99
    <3> HIDE DEF a
    <3>1. a \in Nat => a \div 100 \in Nat
      OBVIOUS
    <3> QED
      BY <2>1, <3>1 DEF a
  <2> HIDE DEF whole
  <2>3. share \in Nat
    BY <2>2, MaxOfTwo
  <2> HIDE DEF share
  <2>4. total - 1 \in Nat
    BY <1>2
  <2>5. rest \in {share, most, total - 1} /\ rest <= total - 1
    <3>1. {share, most, total - 1} \subseteq Nat
      BY <2>3, <2>4
    <3> QED
      BY <3>1, MinIsLeast
  <2>6. ReserveTarget(total, percent, least, most) = rest
    BY <1>2 DEF ReserveTarget, share, whole
  <2> HIDE DEF rest
  <2> QED
    BY <2>3, <2>4, <2>5, <2>6
<1> QED
  BY <1>1, <1>2

\* What the assumptions say of a topology and a configuration.
LEMMA Given ==
    ASSUME NEW T \in Topologies, NEW c \in AllConfigurations
    PROVE  /\ Snapshot(T) /\ c \in ConfigType /\ Valid(c)
           /\ c.percent \in Nat /\ c.minReserved \in Nat
           /\ c.maxReserved \in Nat
           /\ c.minCores \in Nat /\ c.maxCores \in Nat
           /\ c.enabled \in BOOLEAN /\ c.guard \in BOOLEAN
           /\ c.smt \in BOOLEAN
           /\ c.stability \in Nat \ {0} /\ c.cooldown \in Nat \ {0}
<1>1. c \in {x \in ConfigType : Valid(x)}
  BY ResponsivenessAssumption DEF AllConfigurations
<1>2. Snapshot(T)
  BY ResponsivenessAssumption DEF Snapshot
<1> QED
  BY <1>1, <1>2 DEF ConfigType, Valid

\* The cores in a plan are within the asked number and the placeable ones.
LEMMA Reserved ==
    ASSUME NEW T \in Topologies, NEW c \in AllConfigurations
    PROVE  /\ Plans[T][c] = PlanOf(T, c)
           /\ Plans[T][c].reserve = ReserveOf(T, c)
           /\ Plans[T][c].view = Excluding(T, ReserveOf(T, c))
           /\ ReserveOf(T, c) \subseteq Placeable(T)
BY Given, Selections, Targets, CoresFinite
   DEF Plans, PlanOf, ReserveOf, Reserve

\* The reserve planned for a configuration is spread.
LEMMA SpreadHolds ==
    ASSUME NEW T \in Topologies, NEW c \in AllConfigurations
    PROVE  SpreadOf(T, c)
<1> DEFINE P == Placeable(T)
           C == PhysicalCores(T)
           N == Cardinality(PlaceableDomains(T))
           asked == ReserveTarget(Cardinality(C), c.percent, c.minReserved,
                        c.maxReserved)
           first == FirstPass(N, asked)
           R == Plans[T][c].reserve
           Held(d) == {k \in R : Llc(T, k) = d}
           Left(d) == {k \in P \ R : Llc(T, k) = d}
<1>1. Snapshot(T) /\ c.enabled \in BOOLEAN
  BY Given
<1>2. CASE ~ c.enabled
  BY <1>2, Reserved DEF SpreadOf, ReserveOf
<1>3. CASE c.enabled
  <2>1. R = Selected(T, asked)
    BY <1>3, Reserved DEF ReserveOf, Reserve
  <2>2. /\ Cardinality(C) \in Nat /\ Cardinality(P) \in Nat
        /\ Cardinality(P) <= Cardinality(C)
        /\ IsFiniteSet(C) /\ P \subseteq C
    BY <1>1, CoresFinite
  <2>3. asked \in Nat /\ (Cardinality(C) # 0 => asked < Cardinality(C))
    BY <2>2, Given, Targets
  <2>4. N \in Nat
    BY <1>1, Indices
  <2> HIDE DEF asked, N, C, P
  <2>5. /\ R \subseteq P /\ IsFiniteSet(R)
        /\ Cardinality(R) = IF asked <= Cardinality(P) THEN asked
                            ELSE Cardinality(P)
        /\ \A k \in R, j \in P : Earlier(T, first, j, k) => j \in R
    BY <1>1, <2>1, <2>3, Selections DEF N, P
  <2>6. Cardinality(R) = Min({asked, Cardinality(P)})
    BY <2>2, <2>3, <2>5, MinOfTwo
  <2>7. C # {} => C \ R # {}
    <3> SUFFICES ASSUME C # {}, C \ R = {} PROVE FALSE
      OBVIOUS
    <3>1. R = C
      BY <2>2, <2>5
    <3>2. Cardinality(C) # 0
      BY <2>2, FS_EmptySet
    <3> QED
      BY <2>2, <2>3, <2>5, <3>1, <3>2
  <2>8. \A k \in P : /\ Depth(T, k) \in Nat /\ Llc(T, k) \in Nat
                     /\ Pass(T, k, first) \in Nat
    BY <1>1, Passes DEF P
  <2>9. \A k \in P : k \in CoresIn(T, Llc(T, k))
    BY DEF CoresIn, P
  <2>10. ASSUME NEW d \in PlaceableDomains(T),
                NEW k \in Held(d), NEW j \in Left(d)
         PROVE  SchedulingClass(T, k) >= SchedulingClass(T, j)
    <3>1. /\ k \in R /\ k \in P /\ Llc(T, k) = d
          /\ j \in P /\ j \notin R /\ Llc(T, j) = d
      BY <2>5
    <3>2. ~ Earlier(T, first, j, k)
      BY <2>5, <3>1
    <3>3. ~ (Pass(T, j, first) < Pass(T, k, first))
      BY <3>2 DEF Earlier
    <3>4. ~ (Depth(T, j) < Depth(T, k))
      BY <2>8, <3>1, <3>3 DEF Pass
    <3>5. ~ BetterCore(T, j, k)
      BY <1>1, <2>9, <3>1, <3>4, Depths
    <3>6. SchedulingClass(T, k) \in Nat /\ SchedulingClass(T, j) \in Nat
      BY <1>1, <2>2, <3>1, CoreFields DEF C
    <3> QED
      BY <3>5, <3>6 DEF BetterCore
  <2>11. ASSUME NEW d \in PlaceableDomains(T), NEW e \in PlaceableDomains(T)
         PROVE  \/ Cardinality(Held(d)) <= Cardinality(Held(e)) + 1
                \/ Left(e) = {}
    <3>1. \A x : Held(x) \in SUBSET CoresIn(T, x)
      BY <2>5 DEF CoresIn, P
    <3>2. \A x : /\ IsFiniteSet(Held(x)) /\ Cardinality(Held(x)) \in Nat
                 /\ IsFiniteSet(CoresIn(T, x))
                 /\ Cardinality(CoresIn(T, x)) \in Nat
      BY <1>1, <3>1, Depths, FS_Subset, FS_CardinalityType
    <3> DEFINE h == Cardinality(Held(e))
    <3>3. ASSUME NEW m \in Nat,
                 \A k \in Held(d) : Depth(T, k) < m
          PROVE  Cardinality(Held(d)) <= m
      <4> DEFINE U == {k \in CoresIn(T, d) : Depth(T, k) < m}
      <4>1. Held(d) \in SUBSET U
        BY <3>1, <3>3
      <4>2. IsFiniteSet(U)
        BY <3>2, FS_Subset
      <4>3. Cardinality(U) <= m /\ Cardinality(U) \in Nat
        BY <1>1, <3>2, Depths
      <4> HIDE DEF U, Held
      <4>4. Cardinality(Held(d)) <= Cardinality(U)
        BY <4>1, <4>2, FS_Subset
      <4> QED
        BY <3>2, <4>3, <4>4
    <3>4. CASE asked < N
      <4>1. \A k \in Held(d) : Depth(T, k) < 1
        BY <1>1, <2>1, <2>3, <3>4, OneOfEach DEF N
      <4>2. Cardinality(Held(d)) <= 1
        <5> HIDE DEF Held
        <5> QED
          BY <3>3, <4>1
      <4> HIDE DEF Held
      <4> QED
        BY <3>2, <4>2
    <3>5. CASE N <= asked /\ Left(e) # {}
      <4>1. \A k \in P : Pass(T, k, first) = Depth(T, k)
        <5> TAKE k \in P
        <5>1. Llc(T, k) \in PlaceableDomains(T)
          BY DEF PlaceableDomains, P
        <5>2. Index(T, Llc(T, k)) \in 0 .. N - 1
          BY <1>1, <5>1, Indices DEF N
        <5>3. Index(T, Llc(T, k)) \in first
          BY <2>3, <2>4, <3>5, <5>2, WholePass
        <5> QED
          BY <2>8, <5>3 DEF Pass
      <4>2. PICK x \in CoresIn(T, e) \ Held(e) : Depth(T, x) <= h
        <5> DEFINE W == {k \in CoresIn(T, e) : Depth(T, k) < h + 1}
        <5>1. PICK y \in Left(e) : TRUE
          BY <3>5
        <5>2. y \in CoresIn(T, e) /\ y \notin Held(e)
          BY <5>1 DEF CoresIn, P
        <5> HIDE DEF Held
        <5>3. h \in Nat /\ h + 1 \in Nat
          BY <3>2
        <5>4. h <= Cardinality(CoresIn(T, e))
              /\ h # Cardinality(CoresIn(T, e))
          BY <3>1, <3>2, <5>2, FS_Subset
        <5>5. Cardinality(W) = h + 1
          BY <1>1, <3>2, <5>3, <5>4, Depths
        <5>6. ~ (W \subseteq Held(e))
          <6> SUFFICES ASSUME W \in SUBSET Held(e) PROVE FALSE
            OBVIOUS
          <6> HIDE DEF W
          <6>1. Cardinality(W) <= h
            BY <3>2, FS_Subset
          <6> QED
            BY <5>3, <5>5, <6>1
        <5>7. PICK x \in W : x \notin Held(e)
          BY <5>6
        <5>8. x \in P
          BY <5>7 DEF CoresIn, P
        <5>9. Depth(T, x) <= h
          BY <2>8, <5>3, <5>7, <5>8
        <5> QED
          BY <5>7, <5>9
      <4>3. x \in P /\ x \notin R
        BY <4>2 DEF CoresIn, P
      <4>4. \A k \in Held(d) : Depth(T, k) < h + 1
        <5> SUFFICES ASSUME NEW k \in Held(d), ~ (Depth(T, k) < h + 1)
                     PROVE  FALSE
          OBVIOUS
        <5>1. k \in R /\ k \in P
          BY <2>5
        <5>2. Depth(T, x) < Depth(T, k)
          <6> HIDE DEF Held
          <6> QED
            BY <2>8, <3>2, <4>2, <4>3, <5>1
        <5>3. Earlier(T, first, x, k)
          BY <4>1, <4>3, <5>1, <5>2 DEF Earlier
        <5> QED
          BY <2>5, <4>3, <5>1, <5>3
      <4> HIDE DEF Held
      <4>5. h + 1 \in Nat
        BY <3>2
      <4> QED
        BY <3>3, <4>4, <4>5
    <3> QED
      BY <2>3, <2>4, <3>4, <3>5
  <2> QED
    BY <1>3, <2>6, <2>7, <2>10, <2>11 DEF SpreadOf, P, C, asked
<1> QED
  BY <1>1, <1>2, <1>3

-----------------------------------------------------------------------------
\* Plans for applications

\* The bounds of the width can be had from the topology without the reserve.
LEMMA PlanBounds ==
    ASSUME NEW T \in Topologies, NEW c \in AllConfigurations
    PROVE  LET Q == Plans[T][c]
               V == Q.view
           IN
           /\ V = Excluding(T, Q.reserve)
           /\ Snapshot(V) /\ Cardinality(V) <= Cardinality(T)
           /\ Q.minimum \in Nat /\ Q.maximum \in Nat
           /\ Q.minimum <= Q.maximum
           /\ Q.maximum <= Cardinality(Placeable(V))
           /\ Cardinality(Placeable(V)) \in Nat
           /\ Cardinality(Placeable(V)) <= Cardinality(V)
           /\ Cardinality(V) \in Nat /\ Cardinality(T) \in Nat
<1> DEFINE Q == Plans[T][c]
           R == ReserveOf(T, c)
           V == Excluding(T, R)
           a == Cardinality(AssignableCores(V))
<1>1. Snapshot(T) /\ c.maxCores \in Nat /\ c.minCores \in Nat
  BY Given
<1>2. /\ Q.reserve = R /\ Q.view = V
      /\ Q.maximum = MaximumOf(V, c)
      /\ Q.minimum = Min({c.minCores, Q.maximum})
  <2>1. Q = [reserve |-> R, view |-> V, maximum |-> MaximumOf(V, c),
             minimum |-> Min({c.minCores, MaximumOf(V, c)})]
    BY Reserved DEF PlanOf
  <2> HIDE DEF Q, R, V
  <2> QED
    BY <2>1
<1> HIDE DEF Q, R
<1>3. Snapshot(V) /\ Cardinality(V) <= Cardinality(T)
  BY <1>1, ExcludingSnapshot
<1> HIDE DEF V
<1>4. /\ Cardinality(V) \in Nat /\ Cardinality(Placeable(V)) \in Nat
      /\ Cardinality(Placeable(V)) <= Cardinality(V)
      /\ Cardinality(T) \in Nat
  <2>1. /\ Cardinality(V) \in Nat /\ Cardinality(Placeable(V)) \in Nat
        /\ Cardinality(PhysicalCores(V)) \in Nat
        /\ Cardinality(Placeable(V)) <= Cardinality(PhysicalCores(V))
        /\ Cardinality(PhysicalCores(V)) <= Cardinality(V)
    BY <1>3, CoresFinite
  <2> QED
    BY <1>1, <2>1, CoresFinite
<1>5. a = Cardinality(Placeable(V))
  <2>1. a = IF Cardinality(V) <= Cardinality(Placeable(V))
            THEN Cardinality(V) ELSE Cardinality(Placeable(V))
    BY <1>3, <1>4, Selections DEF AssignableCores, Unlimited
  <2> HIDE DEF a
  <2> QED
    BY <1>4, <2>1
<1>6. MaximumOf(V, c) = Min({c.maxCores, a})
  BY DEF MaximumOf
<1> HIDE DEF a
<1>7. Q.maximum \in Nat /\ Q.maximum <= a
  BY <1>1, <1>2, <1>4, <1>5, <1>6, MinOfTwo
<1>8. Q.minimum \in Nat /\ Q.minimum <= Q.maximum
  BY <1>1, <1>2, <1>7, MinOfTwo
<1> QED
  BY <1>2, <1>3, <1>4, <1>5, <1>7, <1>8 DEF Q, V

\* A placeable core has a thread to give.
Usable(T, k) == {c \in Siblings(T, k) : Assignable(c)}

LEMMA Threads ==
    ASSUME NEW T, Snapshot(T), NEW k \in Placeable(T)
    PROVE  Thread(T, k) \in T /\ Thread(T, k).core = k
           /\ Assignable(Thread(T, k))
<1> DEFINE P == Usable(T, k)
           Over(a, b) ==
              \/ a.scheduling > b.scheduling
              \/ /\ a.scheduling = b.scheduling
                 /\ \/ a.processor < b.processor
                    \/ a.processor = b.processor /\ a.id < b.id
           R == {p \in P \X P : Over(p[1], p[2])}
<1>1. T \subseteq CpuSet /\ IsFiniteSet(T)
      /\ \A a, b \in T : a.id = b.id => a = b
  BY DEF Snapshot, IsTopology
<1>2. P \subseteq T /\ IsFiniteSet(P) /\ P # {}
  BY <1>1, FS_Subset DEF Usable, Siblings, Placeable
<1>3. \A a \in P : /\ a.scheduling \in Nat /\ a.processor \in Nat
                   /\ a.id \in Nat
  BY <1>1, <1>2, CpuFields
<1>4. \A a, b \in P : <<a, b>> \in R <=> Over(a, b)
  OBVIOUS
<1>5. Orders(R, P)
  <2>1. \A a \in P : ~ Over(a, a)
    BY <1>3
  <2>2. \A a, b, e \in P : Over(a, b) /\ Over(b, e) => Over(a, e)
    BY <1>3
  <2>3. \A a, b \in P : a = b \/ Over(a, b) \/ Over(b, a)
    BY <1>1, <1>2, <1>3
  <2> HIDE DEF R, P, Over
  <2> QED
    BY <1>4, <2>1, <2>2, <2>3 DEF Orders
<1> HIDE DEF R
<1>6. PICK a \in P : \A b \in P : b = a \/ <<a, b>> \in R
  <2> HIDE DEF P
  <2> QED
    BY <1>2, <1>5, FirstOf
<1>7. \A b \in P : \/ a.scheduling > b.scheduling
                   \/ /\ a.scheduling = b.scheduling
                      /\ a.processor <= b.processor
  <2> TAKE b \in P
  <2>1. b = a \/ Over(a, b)
    BY <1>4, <1>6
  <2> QED
    BY <1>3, <2>1
<1>8. Thread(T, k) \in P
  BY <1>7 DEF Thread, Usable
<1> QED
  BY <1>2, <1>8 DEF Usable, Siblings

\* What a plan without the reserved cores may take: assignable CPU Sets of the
\* whole topology, outside the reserve.
LEMMA Unreserved ==
    ASSUME NEW T, Snapshot(T), NEW R
    PROVE  LET V == Excluding(T, R) IN
           /\ \A u \in V : Assignable(u) => u \in T /\ u.core \notin R
           /\ \A u \in T : u.core \notin R => u \in V
           /\ \A u \in V : \E a \in T : a.llc = u.llc /\ a.id = u.id
<1>1. T \subseteq CpuSet
  BY DEF Snapshot, IsTopology
<1> DEFINE W(cpu) ==
              [cpu EXCEPT !.flags =
                 (@ \ {"allocated_to_target_process"}) \cup {"allocated"}]
           V == Excluding(T, R)
<1>2. \A cpu \in T : ~ Assignable(W(cpu)) /\ W(cpu).llc = cpu.llc
                     /\ W(cpu).id = cpu.id
  BY <1>1 DEF CpuSet, Assignable, Available
<1>3. V = {IF cpu.core \in R THEN W(cpu) ELSE cpu : cpu \in T}
  BY DEF Excluding
<1> HIDE DEF W, V
<1>4. ASSUME NEW u \in V
      PROVE  /\ Assignable(u) => u \in T /\ u.core \notin R
             /\ \E a \in T : a.llc = u.llc /\ a.id = u.id
  <2>1. PICK cpu \in T : u = IF cpu.core \in R THEN W(cpu) ELSE cpu
    BY <1>3
  <2> QED
    BY <1>2, <2>1
<1>5. \A u \in T : u.core \notin R => u \in V
  BY <1>3
<1> QED
  BY <1>4, <1>5 DEF V

\* A class that a domain is asked for is there if the domain has any CPU Set.
LEMMA ClassesOf ==
    ASSUME NEW T, Snapshot(T), NEW d,
           NEW preference \in {"Any", "Fastest", "MostEfficient"}
    PROVE  /\ ClassIds(T, d, preference) \subseteq Ids(DomainCpus(T, d))
           /\ IsFiniteSet(ClassIds(T, d, preference))
           /\ Cardinality(ClassIds(T, d, preference)) \in Nat
           /\ ClassIds(T, d, preference) = {} => DomainCpus(T, d) = {}
<1> DEFINE S == DomainCpus(T, d)
           E == {cpu.efficiency : cpu \in S}
           f == [cpu \in S |-> cpu.efficiency]
           g == [cpu \in S |-> cpu.id]
<1>1. T \subseteq CpuSet /\ IsFiniteSet(T)
  BY DEF Snapshot, IsTopology
<1>2. S \subseteq T /\ IsFiniteSet(S)
  BY <1>1, FS_Subset DEF DomainCpus
<1>3. \A cpu \in S : cpu.efficiency \in Nat
  BY <1>1, <1>2, CpuFields
<1>4. /\ E = {f[cpu] : cpu \in S} /\ f = [cpu \in S |-> f[cpu]]
      /\ Ids(S) = {g[cpu] : cpu \in S} /\ g = [cpu \in S |-> g[cpu]]
  BY DEF Ids
<1>5. E \subseteq Nat
  BY <1>3
<1> HIDE DEF f, g
<1>6. IsFiniteSet(E) /\ IsFiniteSet(Ids(S))
  <2> HIDE DEF E, S
  <2> QED
    BY <1>2, <1>4, ValuesFinite
<1>7. ClassIds(T, d, preference) =
        Ids(CASE preference = "Any" -> S
              [] preference = "Fastest" ->
                   {cpu \in S : \A e \in E : cpu.efficiency >= e}
              [] preference = "MostEfficient" ->
                   {cpu \in S : \A e \in E : cpu.efficiency <= e})
  BY DEF ClassIds
<1>8. PICK U \in SUBSET S :
        /\ ClassIds(T, d, preference) = Ids(U)
        /\ S # {} => U # {}
  <2>1. CASE preference = "Any"
    BY <1>7, <2>1
  <2>2. CASE preference = "Fastest"
    <3> DEFINE U == {cpu \in S : \A e \in E : cpu.efficiency >= e}
    <3>1. ClassIds(T, d, preference) = Ids(U)
      BY <1>7, <2>2
    <3>2. S # {} => U # {}
      <4> SUFFICES ASSUME S # {} PROVE U # {}
        OBVIOUS
      <4>1. E # {}
        OBVIOUS
      <4> HIDE DEF E
      <4>2. PICK m \in E : \A e \in E : e <= m
        BY <1>5, <1>6, <4>1, GreatestNatural
      <4>3. PICK cpu \in S : cpu.efficiency = m
        BY DEF E
      <4>4. cpu \in U
        BY <1>5, <4>2, <4>3
      <4> QED
        BY <4>4
    <3> QED
      BY <3>1, <3>2
  <2>3. CASE preference = "MostEfficient"
    <3> DEFINE U == {cpu \in S : \A e \in E : cpu.efficiency <= e}
    <3>1. ClassIds(T, d, preference) = Ids(U)
      BY <1>7, <2>3
    <3>2. S # {} => U # {}
      <4> SUFFICES ASSUME S # {} PROVE U # {}
        OBVIOUS
      <4>1. E # {}
        OBVIOUS
      <4> HIDE DEF E
      <4>2. PICK m \in E : \A e \in E : m <= e
        BY <1>5, <4>1, LeastNatural
      <4>3. PICK cpu \in S : cpu.efficiency = m
        BY DEF E
      <4>4. cpu \in U
        BY <4>2, <4>3
      <4> QED
        BY <4>4
    <3> QED
      BY <3>1, <3>2
  <2> QED
    BY <2>1, <2>2, <2>3
<1>9. Ids(U) \in SUBSET Ids(S)
  BY DEF Ids
<1>10. IsFiniteSet(Ids(U)) /\ Cardinality(Ids(U)) \in Nat
  <2> HIDE DEF S
  <2> QED
    BY <1>6, <1>9, FS_Subset, FS_CardinalityType
<1>11. Ids(U) = {} => U = {}
  BY DEF Ids
<1> QED
  BY <1>8, <1>9, <1>10, <1>11

\* The domain chosen for a plan has a CPU Set if any domain has one.
LEMMA BestIsLargest ==
    ASSUME NEW T, Snapshot(T),
           NEW preference \in {"Any", "Fastest", "MostEfficient"}
    PROVE  LET d == BestDomain(T, preference) IN
           /\ d \in {cpu.llc : cpu \in T}
           /\ ClassIds(T, d, preference) = {} =>
                 \A e \in {cpu.llc : cpu \in T} :
                    ClassIds(T, e, preference) = {}
<1> DEFINE Domains == {cpu.llc : cpu \in T}
           Count(d) == Cardinality(ClassIds(T, d, preference))
           Class(d) == Max({0} \cup {cpu.efficiency : cpu \in DomainCpus(T, d)})
           Over(d, e) ==
              \/ Count(d) > Count(e)
              \/ Count(d) = Count(e) /\ Class(d) > Class(e)
           R == {p \in Domains \X Domains :
                    \/ Over(p[1], p[2])
                    \/ ~ Over(p[2], p[1]) /\ p[1] < p[2]}
           f == [cpu \in T |-> cpu.llc]
<1>1. T # {} /\ T \subseteq CpuSet /\ IsFiniteSet(T)
  BY DEF Snapshot, IsTopology
<1>2. Domains # {} /\ Domains \subseteq Nat
  BY <1>1, CpuFields
<1>3. Domains = {f[cpu] : cpu \in T} /\ f = [cpu \in T |-> f[cpu]]
  OBVIOUS
<1> HIDE DEF f
<1>4. IsFiniteSet(Domains)
  <2> HIDE DEF Domains
  <2> QED
    BY <1>1, <1>3, ValuesFinite
<1>5. \A d : Count(d) \in Nat
  BY ClassesOf
<1>6. \A d : Class(d) \in Nat
  <2> TAKE d
  <2> DEFINE S == DomainCpus(T, d)
             g == [cpu \in S |-> cpu.efficiency]
             E == {cpu.efficiency : cpu \in S}
  <2>1. S \subseteq T /\ IsFiniteSet(S)
    BY <1>1, FS_Subset DEF DomainCpus
  <2>2. E \subseteq Nat
    BY <1>1, <2>1, CpuFields
  <2>3. E = {g[cpu] : cpu \in S} /\ g = [cpu \in S |-> g[cpu]]
    OBVIOUS
  <2> HIDE DEF g
  <2>4. IsFiniteSet(E)
    <3> HIDE DEF E, S
    <3> QED
      BY <2>1, <2>3, ValuesFinite
  <2> HIDE DEF E
  <2>5. IsFiniteSet({0} \cup E)
    BY <2>4, FS_Singleton, FS_Union
  <2>6. {0} \cup E \subseteq Nat /\ {0} \cup E # {}
    BY <2>2
  <2>7. Max({0} \cup E) \in {0} \cup E
    BY <2>5, <2>6, MaxIsGreatest
  <2> QED
    BY <2>6, <2>7 DEF E
<1> HIDE DEF Count, Class
<1>7. \A d, e \in Domains :
         <<d, e>> \in R <=> Over(d, e) \/ (~ Over(e, d) /\ d < e)
  OBVIOUS
<1>8. Orders(R, Domains)
  <2>1. \A d, e \in Domains :
           <<d, e>> \in R <=>
              \/ Count(d) > Count(e)
              \/ /\ Count(d) = Count(e)
                 /\ \/ Class(d) > Class(e)
                    \/ Class(d) = Class(e) /\ d < e
    <3> SUFFICES ASSUME NEW d \in Domains, NEW e \in Domains
                 PROVE  <<d, e>> \in R <=>
                           \/ Count(d) > Count(e)
                           \/ /\ Count(d) = Count(e)
                              /\ \/ Class(d) > Class(e)
                                 \/ Class(d) = Class(e) /\ d < e
      OBVIOUS
    <3>1. /\ d \in Nat /\ e \in Nat
          /\ Count(d) \in Nat /\ Count(e) \in Nat
          /\ Class(d) \in Nat /\ Class(e) \in Nat
      BY <1>2, <1>5, <1>6
    <3>2. <<d, e>> \in R <=> Over(d, e) \/ (~ Over(e, d) /\ d < e)
      BY <1>7
    <3> HIDE DEF R
    <3> QED
      BY <3>1, <3>2
  <2> HIDE DEF R, Domains
  <2>2. \A d \in Domains : <<d, d>> \notin R
    BY <1>2, <1>5, <1>6, <2>1
  <2>3. \A d, e, x \in Domains :
           <<d, e>> \in R /\ <<e, x>> \in R => <<d, x>> \in R
    <3> SUFFICES ASSUME NEW d \in Domains, NEW e \in Domains,
                        NEW x \in Domains,
                        <<d, e>> \in R, <<e, x>> \in R
                 PROVE  <<d, x>> \in R
      OBVIOUS
    <3>1. /\ d \in Nat /\ e \in Nat /\ x \in Nat
          /\ Count(d) \in Nat /\ Count(e) \in Nat /\ Count(x) \in Nat
          /\ Class(d) \in Nat /\ Class(e) \in Nat /\ Class(x) \in Nat
      BY <1>2, <1>5, <1>6
    <3> QED
      BY <2>1, <3>1
  <2>4. ASSUME NEW d \in Domains, NEW e \in Domains
        PROVE  d = e \/ <<d, e>> \in R \/ <<e, d>> \in R
    <3>1. /\ d \in Nat /\ e \in Nat
          /\ Count(d) \in Nat /\ Count(e) \in Nat
          /\ Class(d) \in Nat /\ Class(e) \in Nat
      BY <1>2, <1>5, <1>6
    <3> QED
      BY <2>1, <3>1
  <2> QED
    BY <2>2, <2>3, <2>4 DEF Orders
<1> HIDE DEF R
<1>9. PICK b \in Domains : \A e \in Domains : e = b \/ <<b, e>> \in R
  <2> HIDE DEF Domains, Over
  <2>1. Domains # {}
    BY <1>2
  <2>2. Orders(R, Domains)
    BY <1>8
  <2>3. IsFiniteSet(Domains)
    BY <1>4
  <2>4. \E k \in Domains : \A j \in Domains : j = k \/ <<k, j>> \in R
    BY <2>1, <2>2, <2>3, FirstOf
  <2> QED
    BY <2>4
<1>10. \A e \in Domains : Over(b, e) \/ (~ Over(e, b) /\ b <= e)
  <2> TAKE e \in Domains
  <2>1. b \in Nat /\ e \in Nat /\ Count(b) \in Nat /\ Class(b) \in Nat
    BY <1>2, <1>5, <1>6
  <2>2. CASE e = b
    BY <2>1, <2>2
  <2>3. CASE <<b, e>> \in R
    BY <1>7, <2>1, <2>3
  <2> QED
    BY <1>9, <2>2, <2>3
<1>11. BestDomain(T, preference) =
          CHOOSE d \in Domains : \A e \in Domains :
             Over(d, e) \/ (~ Over(e, d) /\ d <= e)
  BY DEF BestDomain, Count, Class
<1> DEFINE d == BestDomain(T, preference)
<1>12. d \in Domains
       /\ \A e \in Domains : Over(d, e) \/ (~ Over(e, d) /\ d <= e)
  <2> HIDE DEF Domains, Over
  <2> QED
    BY <1>10, <1>11
<1> HIDE DEF d
<1>13. ASSUME ClassIds(T, d, preference) = {}, NEW e \in Domains
       PROVE  ClassIds(T, e, preference) = {}
  <2>1. Count(d) = 0
    BY <1>13, FS_EmptySet DEF Count
  <2>2. ~ (Count(e) > Count(d))
    BY <1>5, <1>12
  <2>3. Count(e) = 0
    BY <1>5, <2>1, <2>2
  <2> QED
    BY <2>3, ClassesOf, FS_EmptySet DEF Count
<1> QED
  BY <1>12, <1>13 DEF d

\* A width within what is placeable has its plans.
LEMMA FitHolds ==
    ASSUME NEW T \in Topologies, NEW c \in AllConfigurations, NEW n \in Nat,
           n <= Cardinality(Placeable(Plans[T][c].view))
    PROVE  FitOf(T, c, n)
<1> DEFINE R == Plans[T][c].reserve
           V == Plans[T][c].view
           free == Ids({cpu \in T : Assignable(cpu) /\ cpu.core \notin R})
           sel == Selected(V, n)
           P == Partition(V, n, c.smt)
<1>1. Snapshot(T) /\ Snapshot(V) /\ V = Excluding(T, R)
      /\ c.smt \in BOOLEAN
  BY Given, PlanBounds
<1> HIDE DEF R, V
<1>2. /\ \A u \in V : Assignable(u) => u \in T /\ u.core \notin R
      /\ \A u \in T : u.core \notin R => u \in V
      /\ \A u \in V : \E a \in T : a.llc = u.llc /\ a.id = u.id
  BY <1>1, Unreserved
<1>3. sel \subseteq Placeable(V) /\ IsFiniteSet(sel) /\ Cardinality(sel) = n
  BY <1>1, Selections DEF V
<1>4. P.cores = sel
  BY DEF Partition
<1>5. \A k \in sel : /\ Thread(V, k) \in V /\ Thread(V, k).core = k
                     /\ Assignable(Thread(V, k))
  BY <1>1, <1>3, Threads
<1> DEFINE threads == {Thread(V, k) : k \in sel}
           all == {u \in V : u.core \in sel /\ Assignable(u)}
<1>6. /\ c.smt => P.ids = Ids(all)
      /\ ~ c.smt => P.ids = Ids(threads)
  BY DEF Partition
<1>7. Cardinality(Ids(threads)) = n
  <2> DEFINE h == [k \in sel |-> Thread(V, k).id]
             S == Ids(threads)
  <2>1. h \in Surjection(sel, S)
    <3>1. h \in [sel -> S] /\ \A i \in S : \E k \in sel : h[k] = i
      BY DEF Ids
    <3> HIDE DEF h, S, sel
    <3> QED
      BY <3>1 DEF Surjection
  <2>2. ASSUME NEW j \in sel, NEW k \in sel, h[j] = h[k]
        PROVE  j = k
    <3>1. Thread(V, j).id = Thread(V, k).id
      BY <2>2
    <3>2. Thread(V, j) = Thread(V, k)
      BY <1>1, <1>5, <3>1 DEF Snapshot, IsTopology
    <3> QED
      BY <1>5, <3>2
  <2>3. h \in Injection(sel, S)
    <3>1. h \in [sel -> S] /\ \A j, k \in sel : h[j] = h[k] => j = k
      BY <2>1, <2>2 DEF Surjection
    <3> HIDE DEF h, S, sel
    <3> QED
      BY <3>1 DEF Injection, IsInjective
  <2> HIDE DEF h, S, sel
  <2>4. Cardinality(S) = Cardinality(sel)
    BY <1>3, <2>1, <2>3, FS_Surjection
  <2> QED
    BY <1>3, <2>4 DEF S
<1>8. \A U \in SUBSET V : (\A u \in U : Assignable(u)) => Ids(U) \subseteq free
  BY <1>2 DEF Ids
<1>9. P.ids \subseteq free
  <2>1. threads \in SUBSET V /\ \A u \in threads : Assignable(u)
    BY <1>5
  <2>2. all \in SUBSET V /\ \A u \in all : Assignable(u)
    OBVIOUS
  <2> HIDE DEF threads, all, free, P
  <2> QED
    BY <1>1, <1>6, <1>8, <2>1, <2>2
<1>10. Partition(V, Unlimited(V), TRUE).ids \subseteq free
  <2> DEFINE U == {u \in V : /\ u.core \in Selected(V, Unlimited(V))
                             /\ Assignable(u)}
  <2>1. Partition(V, Unlimited(V), TRUE).ids = Ids(U)
    BY DEF Partition
  <2>2. U \in SUBSET V /\ \A u \in U : Assignable(u)
    OBVIOUS
  <2> HIDE DEF U, free
  <2> QED
    BY <1>8, <2>1, <2>2
<1>11. \A d : \A preference \in {"Any", "Fastest", "MostEfficient"} :
          ClassIds(V, d, preference) \subseteq Ids(DomainCpus(V, d))
  BY <1>1, ClassesOf
<1>12. \A d : Ids(DomainCpus(V, d)) \subseteq free
  BY <1>8 DEF DomainCpus
<1>13. ASSUME NEW preference \in {"Any", "Fastest", "MostEfficient"}
       PROVE  LET A == Assignment(V, preference) IN
              /\ \A d \in {u.llc : u \in V} :
                    ClassIds(V, d, preference) \subseteq free
              /\ A.ids = {} => free = {}
              /\ A.ids # {} => IsWithinOneDomain(T, A.ids)
  <2> DEFINE d == BestDomain(V, preference)
             I == ClassIds(V, d, preference)
  <2>1. Assignment(V, preference).ids = I
    BY DEF Assignment
  <2>2. /\ d \in {cpu.llc : cpu \in V}
        /\ I = {} => \A e \in {cpu.llc : cpu \in V} :
                        ClassIds(V, e, preference) = {}
    BY <1>1, BestIsLargest
  <2>3. I \subseteq Ids(DomainCpus(V, d))
    BY <1>11
  <2> HIDE DEF d, I
  <2>4. ASSUME I = {}
        PROVE  free = {}
    <3> SUFFICES ASSUME NEW cpu \in T, Assignable(cpu), cpu.core \notin R
                 PROVE  FALSE
      BY DEF Ids
    <3>1. cpu \in V
      BY <1>2
    <3>2. DomainCpus(V, cpu.llc) = {}
      BY <1>1, <2>2, <2>4, <3>1, ClassesOf
    <3> QED
      BY <3>1, <3>2 DEF DomainCpus
  <2>5. ASSUME I # {}
        PROVE  IsWithinOneDomain(T, I)
    <3>1. \A i \in I : \E u \in T : u.id = i /\ u.llc = d
      BY <1>2, <2>3 DEF Ids, DomainCpus
    <3>2. I \subseteq Ids(T)
      BY <3>1 DEF Ids
    <3>3. \A u \in T : u.id \in I => u.llc = d
      BY <1>1, <3>1 DEF Snapshot, IsTopology
    <3>4. {cpu.llc : cpu \in {u \in T : u.id \in I}} = {d}
      BY <2>5, <3>1, <3>3
    <3>5. DomainsOf(T, I) = {d}
      BY <3>2, <3>4 DEF DomainsOf
    <3> QED
      BY <3>5, FS_Singleton DEF IsWithinOneDomain
  <2> HIDE DEF free
  <2> QED
    BY <1>11, <1>12, <2>1, <2>4, <2>5
<1> HIDE DEF free, P, sel, threads
<1>14. P.cores = sel /\ Cardinality(sel) = n
  BY <1>3, <1>4
<1> QED
  BY <1>6, <1>7, <1>9, <1>10, <1>13, <1>14
     DEF FitOf, free, P, V, R

-----------------------------------------------------------------------------
\* What is so between the steps

Kinds == {"unknown", "elevated", "recovered", "between"}
Samples == [late : Classes, stale : BOOLEAN]
Widths ==
    [cores : Nat, elevated : Nat, recovered : Nat, since : Nat \cup {None},
     pressure : {"unknown", "normal", "elevated"}]

\* The last readings of the list are so many of one kind.
EndsWith(list, count, kind) ==
    /\ count <= Len(list)
    /\ \A i \in 0 .. count - 1 : list[Len(list) - i] = kind

StaleIn(samples) == {i \in DOMAIN samples : samples[i].stale}

ShapesOK ==
    /\ topology \in Topologies /\ config \in AllConfigurations
    /\ width \in Widths /\ fresh \in Nat
    /\ window \in Seq(Samples) /\ Len(window) <= Capacity
    /\ readings \in Seq(Kinds)
    /\ pc \in {"ready", "clear", "resize"}
    /\ probe \in {"asleep", "record", "record stale"}

\* The width fits the plan, except from a reload until it is resized.
BoundsOK ==
    pc = "ready" =>
        /\ width.cores \in Plan.minimum .. Plan.maximum
        /\ width.elevated <= config.stability
        /\ width.recovered <= config.stability

\* A streak counts readings there were, all since the last change.
StreaksOK ==
    /\ width.elevated <= fresh /\ width.recovered <= fresh
    /\ EndsWith(readings, width.elevated, "elevated")
    /\ EndsWith(readings, width.recovered, "recovered")

\* One sample may come too late for the clearing of the window, that of the
\* recording under way when the flag changed.
StaleOK ==
    pc # "clear" =>
        /\ Cardinality(StaleIn(window)) <= 1
        /\ probe = "record stale" => Cardinality(StaleIn(window)) = 0

WidthInv == ShapesOK /\ BoundsOK /\ StreaksOK /\ StaleOK

-----------------------------------------------------------------------------
\* The width controller

\* The bounds of the history and of the clock cover every configuration.
LEMMA LongestOf ==
    /\ Longest \in Nat /\ \A c \in AllConfigurations : c.stability <= Longest
    /\ LongestCooldown \in Nat
    /\ \A c \in AllConfigurations : c.cooldown <= LongestCooldown
<1> DEFINE A == AllConfigurations
           f == [c \in A |-> c.stability]
           g == [c \in A |-> c.cooldown]
           S == {c.stability : c \in A}
           C == {c.cooldown : c \in A}
<1>1. IsFiniteSet(A) /\ DefaultConfig \in A
  <2>1. A = Configs \cup {DefaultConfig}
    BY DEF AllConfigurations
  <2> QED
    BY <2>1, ResponsivenessAssumption, FS_Singleton, FS_Union
<1>2. \A c \in A : c.stability \in Nat /\ c.cooldown \in Nat
  BY ResponsivenessAssumption DEF AllConfigurations, ConfigType
<1>3. /\ S = {f[c] : c \in A} /\ f = [c \in A |-> f[c]]
      /\ C = {g[c] : c \in A} /\ g = [c \in A |-> g[c]]
  OBVIOUS
<1>4. S \subseteq Nat /\ C \subseteq Nat /\ S # {} /\ C # {}
  BY <1>1, <1>2
<1>5. IsFiniteSet(S) /\ IsFiniteSet(C)
  <2> HIDE DEF f, g, S, C, A
  <2> QED
    BY <1>1, <1>3, ValuesFinite
<1>6. /\ Max(S) \in S /\ \A m \in S : m <= Max(S)
      /\ Max(C) \in C /\ \A m \in C : m <= Max(C)
  <2> HIDE DEF S, C
  <2> QED
    BY <1>4, <1>5, MaxIsGreatest
<1>7. Longest = Max(S) /\ LongestCooldown = Max(C)
  BY DEF Longest, LongestCooldown
<1>8. \A c \in A : c.stability \in S /\ c.cooldown \in C
  OBVIOUS
<1> HIDE DEF S, C
<1> QED
  BY <1>4, <1>6, <1>7, <1>8

\* The fields of the width controller have their types.
LEMMA WidthFields ==
    ASSUME NEW w \in Widths
    PROVE  /\ w.cores \in Nat /\ w.elevated \in Nat /\ w.recovered \in Nat
           /\ w.since \in Nat \cup {None}
           /\ w.pressure \in {"unknown", "normal", "elevated"}
BY DEF Widths

\* Time passes for nothing but the cooldown.
LEMMA AgedFields ==
    ASSUME NEW w \in Widths, NEW gap \in Nat
    PROVE  LET a == Aged(w, gap) IN
           /\ a \in Widths
           /\ a.cores = w.cores /\ a.elevated = w.elevated
           /\ a.recovered = w.recovered
           /\ (a.since = None) <=> (w.since = None)
           /\ w.since # None => a.since \in Nat /\ a.since <= w.since + gap
<1>1. CASE w.since = None
  BY <1>1 DEF Aged
<1>2. CASE w.since # None
  <2> DEFINE s == UpTo(LongestCooldown, w.since + gap)
  <2>1. w.since \in Nat
    BY <1>2, WidthFields
  <2>2. s \in Nat /\ s <= w.since + gap
    BY <2>1, LongestOf DEF UpTo
  <2>3. s # None
    BY <2>2, ResponsivenessAssumption
  <2>4. Aged(w, gap) = [w EXCEPT !.since = s]
    BY <1>2 DEF Aged
  <2> HIDE DEF s
  <2> QED
    BY <1>2, <2>2, <2>3, <2>4 DEF Widths
<1> QED
  BY <1>1, <1>2

\* A reading prolongs the streak of its kind and ends the other.
LEMMA ObservedFields ==
    ASSUME NEW w \in Widths, NEW c \in AllConfigurations,
           NEW reading \in Kinds
    PROVE  LET o == Observed(w, c, reading) IN
           /\ o \in Widths /\ o.cores = w.cores /\ o.since = w.since
           /\ o.elevated = IF reading = "elevated"
                           THEN UpTo(c.stability, w.elevated + 1) ELSE 0
           /\ o.recovered = IF reading = "recovered"
                            THEN UpTo(c.stability, w.recovered + 1) ELSE 0
<1> DEFINE e == IF reading = "elevated"
                THEN UpTo(c.stability, w.elevated + 1) ELSE 0
           r == IF reading = "recovered"
                THEN UpTo(c.stability, w.recovered + 1) ELSE 0
           p == CASE reading = "unknown" -> "unknown"
                  [] reading = "elevated" -> "elevated"
                  [] OTHER -> "normal"
<1>1. c.stability \in Nat
  BY ResponsivenessAssumption DEF AllConfigurations, ConfigType
<1>2. e \in Nat /\ r \in Nat
  BY <1>1, WidthFields DEF UpTo
<1>3. p \in {"unknown", "normal", "elevated"}
  OBVIOUS
<1>4. Observed(w, c, reading) =
        [w EXCEPT !.pressure = p, !.elevated = e, !.recovered = r]
  BY DEF Observed
<1> HIDE DEF e, r, p
<1> DEFINE o == Observed(w, c, reading)
<1>5. /\ o \in Widths /\ o.cores = w.cores /\ o.since = w.since
      /\ o.elevated = e /\ o.recovered = r
  BY <1>2, <1>3, <1>4 DEF Widths
<1> HIDE DEF o
<1> QED
  BY <1>5 DEF o, e, r

\* A width above the minimum shrinks to the minimum at most;
LEMMA ShrunkFields ==
    ASSUME NEW w \in Widths, NEW least \in Nat, least < w.cores
    PROVE  LET v == Shrunk(w, least) IN
           /\ v \in Widths /\ v.cores \in least .. w.cores - 1
           /\ v.elevated = 0 /\ v.recovered = w.recovered
<1> DEFINE part == (w.cores + ShrinkBy - 1) \div ShrinkBy
           step == ShrinkStep(w.cores)
           n == Max({least, w.cores - step})
<1>1. w.cores \in Nat /\ ShrinkBy \in Nat \ {0}
  BY WidthFields, ResponsivenessAssumption
<1>2. part \in Nat
  <2> DEFINE a == w.cores + ShrinkBy - 1
  <2>1. a \in Nat
    BY <1>1
  <2> HIDE DEF a
  <2> QED
    BY <1>1, <2>1, Division DEF a
<1> HIDE DEF part
<1>3. step \in Nat /\ step >= 1
  BY <1>2, MaxOfTwo DEF ShrinkStep, part
<1> HIDE DEF step
<1>4. n = IF least >= w.cores - step THEN least ELSE w.cores - step
  BY <1>1, <1>3, MaxOfTwo
<1>5. n \in least .. w.cores - 1 /\ n \in Nat
  BY <1>1, <1>3, <1>4
<1>6. Shrunk(w, least) =
        [w EXCEPT !.cores = n, !.elevated = 0, !.since = 0]
  BY DEF Shrunk, step
<1> HIDE DEF n
<1> DEFINE v == Shrunk(w, least)
<1>7. /\ v \in Widths /\ v.cores = n
      /\ v.elevated = 0 /\ v.recovered = w.recovered
  <2>1. n \in Nat
    BY <1>5
  <2>2. v = [w EXCEPT !.cores = n, !.elevated = 0, !.since = 0]
    BY <1>6
  <2> HIDE DEF v
  <2> QED
    BY <2>1, <2>2 DEF Widths
<1> HIDE DEF v
<1> QED
  BY <1>5, <1>7 DEF v

\* one that expands grows by one core.
LEMMA ExpandedFields ==
    ASSUME NEW w \in Widths
    PROVE  LET v == Expanded(w) IN
           /\ v \in Widths /\ v.cores = w.cores + 1
           /\ v.elevated = w.elevated /\ v.recovered = 0
<1>1. w.cores + 1 \in Nat
  BY WidthFields
<1> QED
  BY <1>1 DEF Expanded, Widths

\* An evaluation keeps the width or changes it by a streak that is complete.
Kept(w, v, c, reading) ==
    /\ v.cores = w.cores
    /\ \/ /\ v.elevated = IF reading = "elevated"
                          THEN UpTo(c.stability, w.elevated + 1) ELSE 0
          /\ v.recovered = IF reading = "recovered"
                           THEN UpTo(c.stability, w.recovered + 1) ELSE 0
       \/ v.elevated = 0 /\ v.recovered = 0

Changed(w, v, c, reading) ==
    /\ reading # "unknown" /\ ~ Cooling(w, c)
    /\ v.elevated = 0 /\ v.recovered = 0

Lowered(w, v, least, c, reading) ==
    /\ Changed(w, v, c, reading)
    /\ reading = "elevated" /\ w.elevated + 1 >= c.stability
    /\ v.cores \in least .. w.cores - 1

Raised(w, v, most, c, reading) ==
    /\ Changed(w, v, c, reading)
    /\ reading = "recovered" /\ w.recovered + 1 >= c.stability
    /\ v.cores = w.cores + 1 /\ v.cores <= most

\* An evaluation keeps the width, lowers it no further than the minimum or
\* raises it by one, the latter two after a complete streak.
LEMMA EvaluatedFields ==
    ASSUME NEW w \in Widths, NEW c \in AllConfigurations,
           NEW reading \in Kinds, NEW P,
           P.minimum \in Nat, P.maximum \in Nat
    PROVE  LET v == Evaluated(w, P, c, reading) IN
           /\ v \in Widths
           /\ \/ Kept(w, v, c, reading)
              \/ Lowered(w, v, P.minimum, c, reading)
              \/ Raised(w, v, P.maximum, c, reading)
<1> DEFINE o == Observed(w, c, reading)
           v == Evaluated(w, P, c, reading)
<1>1. /\ o \in Widths /\ o.cores = w.cores /\ o.since = w.since
      /\ o.elevated = IF reading = "elevated"
                      THEN UpTo(c.stability, w.elevated + 1) ELSE 0
      /\ o.recovered = IF reading = "recovered"
                       THEN UpTo(c.stability, w.recovered + 1) ELSE 0
  BY ObservedFields
<1>2. c.stability \in Nat \ {0}
  BY ResponsivenessAssumption DEF AllConfigurations, ConfigType, Valid
<1>3. w.cores \in Nat /\ w.elevated \in Nat /\ w.recovered \in Nat
  BY WidthFields
<1>4. Cooling(o, c) <=> Cooling(w, c)
  BY <1>1 DEF Cooling
<1>5. v = IF ~ Guarded(c) THEN Observed(w, c, "unknown")
          ELSE IF reading = "unknown" \/ Cooling(o, c) THEN o
          ELSE IF o.elevated >= c.stability /\ o.cores > P.minimum
               THEN Shrunk(o, P.minimum)
          ELSE IF o.recovered >= c.stability /\ o.cores < P.maximum
               THEN Expanded(o)
          ELSE o
  BY DEF Evaluated
<1>6. o.elevated >= c.stability =>
        /\ reading = "elevated" /\ w.elevated + 1 >= c.stability
        /\ o.recovered = 0
  BY <1>1, <1>2, <1>3 DEF UpTo
<1>7. o.recovered >= c.stability =>
        /\ reading = "recovered" /\ w.recovered + 1 >= c.stability
        /\ o.elevated = 0
  BY <1>1, <1>2, <1>3 DEF UpTo
<1> HIDE DEF o, v
<1>8. CASE v = Observed(w, c, "unknown")
  <2>1. "unknown" \in Kinds
    BY DEF Kinds
  <2>2. v \in Widths /\ v.cores = w.cores /\ v.elevated = 0 /\ v.recovered = 0
    BY <1>8, <2>1, ObservedFields
  <2> QED
    BY <2>2 DEF Kept, v
<1>9. CASE v = o
  BY <1>1, <1>9 DEF Kept, v
<1>10. CASE /\ reading # "unknown" /\ ~ Cooling(o, c)
            /\ o.elevated >= c.stability /\ o.cores > P.minimum
            /\ v = Shrunk(o, P.minimum)
  <2>1. o.cores \in Nat /\ P.minimum < o.cores
    BY <1>1, <1>3, <1>10
  <2>2. /\ v \in Widths /\ v.cores \in P.minimum .. o.cores - 1
        /\ v.elevated = 0 /\ v.recovered = o.recovered
    BY <1>1, <1>10, <2>1, ShrunkFields
  <2>3. Lowered(w, v, P.minimum, c, reading)
    BY <1>1, <1>4, <1>6, <1>10, <2>2 DEF Lowered, Changed
  <2> QED
    BY <2>2, <2>3 DEF v
<1>11. CASE /\ reading # "unknown" /\ ~ Cooling(o, c)
            /\ o.recovered >= c.stability /\ o.cores < P.maximum
            /\ v = Expanded(o)
  <2>1. /\ v \in Widths /\ v.cores = o.cores + 1
        /\ v.elevated = o.elevated /\ v.recovered = 0
    BY <1>1, <1>11, ExpandedFields
  <2>2. v.cores <= P.maximum
    BY <1>1, <1>3, <1>11, <2>1
  <2>3. Raised(w, v, P.maximum, c, reading)
    BY <1>1, <1>4, <1>7, <1>11, <2>1, <2>2 DEF Raised, Changed
  <2> QED
    BY <2>1, <2>3 DEF v
<1> QED
  BY <1>5, <1>8, <1>9, <1>10, <1>11

-----------------------------------------------------------------------------
\* The histories

\* A reading is of one of three kinds; one that is known has enough samples.
LEMMA Readings ==
    ASSUME NEW samples, NEW interrupts
    PROVE  /\ Reading(samples, interrupts) \in Kinds
           /\ Reading(samples, interrupts) # "unknown" /\ Len(samples) \in Nat
              => Len(samples) >= MinSamples
<1>1. CASE Len(samples) < MinSamples
  BY <1>1 DEF Reading, Kinds
<1>2. CASE ~ (Len(samples) < MinSamples)
  <2>1. Reading(samples, interrupts) \in Kinds
    BY <1>2 DEF Reading, Kinds
  <2>2. Len(samples) \in Nat => Len(samples) >= MinSamples
    BY <1>2, ResponsivenessAssumption
  <2> QED
    BY <2>1, <2>2
<1> QED
  BY <1>1, <1>2

\* A reading at the end of a list of the last ones prolongs a streak of its
\* kind; the list keeps as many as any configuration asks for.
LEMMA StreakGrows ==
    ASSUME NEW list \in Seq(Kinds), NEW k \in Kinds, NEW kind,
           NEW count \in Nat, EndsWith(list, count, kind),
           NEW m \in Nat, m <= Longest,
           m # 0 => k = kind /\ m <= count + 1
    PROVE  LET all == Append(list, k)
               rest == IF Len(all) > Longest THEN Tail(all) ELSE all
           IN rest \in Seq(Kinds) /\ EndsWith(rest, m, kind)
<1> DEFINE all == Append(list, k)
           rest == IF Len(all) > Longest THEN Tail(all) ELSE all
           n == Len(list)
<1>1. /\ n \in Nat /\ all \in Seq(Kinds) /\ Len(all) = n + 1
      /\ all[n + 1] = k /\ \A i \in 1 .. n : all[i] = list[i]
  OBVIOUS
<1>2. Longest \in Nat
  BY LongestOf
<1>3. ASSUME NEW i \in 0 .. m - 1
      PROVE  /\ n + 1 - i \in 1 .. n + 1
             /\ all[n + 1 - i] = kind
  <2>1. m # 0 /\ k = kind /\ m <= count + 1 /\ count <= n
    BY DEF EndsWith
  <2>2. CASE i = 0
    BY <1>1, <2>1, <2>2
  <2>3. CASE i # 0
    <3>1. i - 1 \in 0 .. count - 1 /\ n + 1 - i \in 1 .. n
          /\ n + 1 - i = n - (i - 1)
      BY <1>1, <2>1, <2>3
    <3>2. list[n - (i - 1)] = kind
      BY <3>1 DEF EndsWith
    <3> QED
      BY <1>1, <3>1, <3>2
  <2> QED
    BY <2>2, <2>3
<1>4. m <= n + 1
  BY <1>1 DEF EndsWith
<1> HIDE DEF all
<1>5. CASE Len(all) > Longest
  <2>1. rest = Tail(all)
    BY <1>5
  <2>2. /\ rest \in Seq(Kinds) /\ Len(rest) = n
        /\ \A i \in 1 .. n : rest[i] = all[i + 1]
    BY <1>1, <2>1
  <2>3. m <= n
    BY <1>1, <1>2, <1>5
  <2> HIDE DEF rest
  <2>4. ASSUME NEW i \in 0 .. m - 1
        PROVE  rest[Len(rest) - i] = kind
    <3>1. n - i \in 1 .. n /\ (n - i) + 1 = n + 1 - i
      BY <1>1, <2>3
    <3>2. rest[n - i] = all[n + 1 - i]
      BY <2>2, <3>1
    <3> QED
      BY <1>3, <2>2, <3>2
  <2> QED
    BY <2>2, <2>3, <2>4 DEF EndsWith, rest, all
<1>6. CASE ~ (Len(all) > Longest)
  <2>1. rest = all
    BY <1>6
  <2> HIDE DEF rest
  <2>2. m <= Len(rest) /\ Len(rest) = n + 1
    BY <1>1, <1>4, <2>1
  <2>3. \A i \in 0 .. m - 1 : rest[Len(rest) - i] = kind
    BY <1>3, <2>1, <2>2
  <2>4. EndsWith(rest, m, kind)
    BY <2>2, <2>3 DEF EndsWith
  <2> QED
    BY <1>1, <2>1, <2>4 DEF rest, all
<1> QED
  BY <1>5, <1>6

\* The stale samples of a window are finitely many.
LEMMA StaleFinite ==
    ASSUME NEW s \in Seq(Samples)
    PROVE  /\ StaleIn(s) \subseteq 1 .. Len(s) /\ Len(s) \in Nat
           /\ IsFiniteSet(StaleIn(s)) /\ Cardinality(StaleIn(s)) \in Nat
<1>1. DOMAIN s = 1 .. Len(s) /\ Len(s) \in Nat
  OBVIOUS
<1>2. IsFiniteSet(1 .. Len(s))
  BY <1>1, FS_Interval
<1>3. StaleIn(s) \in SUBSET (1 .. Len(s))
  BY <1>1 DEF StaleIn
<1> QED
  BY <1>1, <1>2, <1>3, FS_Subset, FS_CardinalityType

\* What leaves the window does not add to its stale samples,
LEMMA StaleTail ==
    ASSUME NEW s \in Seq(Samples), s # <<>>
    PROVE  /\ Tail(s) \in Seq(Samples) /\ Len(Tail(s)) = Len(s) - 1
           /\ Cardinality(StaleIn(Tail(s))) <= Cardinality(StaleIn(s))
<1> DEFINE t == Tail(s)
           A == StaleIn(t)
           B == StaleIn(s)
           f == [i \in A |-> i + 1]
<1>1. /\ t \in Seq(Samples) /\ Len(t) = Len(s) - 1 /\ Len(s) \in Nat
      /\ DOMAIN t = 1 .. Len(s) - 1 /\ DOMAIN s = 1 .. Len(s)
      /\ \A i \in 1 .. Len(s) - 1 : t[i] = s[i + 1]
  OBVIOUS
<1> HIDE DEF t
<1>2. \A i \in A : i \in 1 .. Len(s) - 1 /\ i + 1 \in B
  BY <1>1 DEF StaleIn
<1>3. f \in Injection(A, B)
  <2>1. f \in [A -> B]
    BY <1>2
  <2>2. \A i, j \in A : f[i] = f[j] => i = j
    BY <1>2
  <2> HIDE DEF f, A, B
  <2> QED
    BY <2>1, <2>2 DEF Injection, IsInjective
<1>4. IsFiniteSet(B)
  BY StaleFinite
<1>5. Cardinality(A) <= Cardinality(B)
  <2> HIDE DEF f, A, B
  <2> QED
    BY <1>3, <1>4, FS_Injection
<1> QED
  BY <1>1, <1>5 DEF t

\* and what is recorded adds one at most.
LEMMA StaleAppend ==
    ASSUME NEW s \in Seq(Samples), NEW x \in Samples
    PROVE  /\ Append(s, x) \in Seq(Samples) /\ Len(Append(s, x)) = Len(s) + 1
           /\ Cardinality(StaleIn(Append(s, x))) <=
                 Cardinality(StaleIn(s)) + IF x.stale THEN 1 ELSE 0
<1> DEFINE t == Append(s, x)
           A == StaleIn(t)
           B == StaleIn(s)
<1>1. /\ t \in Seq(Samples) /\ Len(t) = Len(s) + 1 /\ Len(s) \in Nat
      /\ DOMAIN t = 1 .. Len(s) + 1 /\ DOMAIN s = 1 .. Len(s)
      /\ t[Len(s) + 1] = x /\ \A i \in 1 .. Len(s) : t[i] = s[i]
  OBVIOUS
<1> HIDE DEF t
<1>2. /\ IsFiniteSet(A) /\ IsFiniteSet(B)
      /\ Cardinality(A) \in Nat /\ Cardinality(B) \in Nat
  BY <1>1, StaleFinite
<1>3. CASE x.stale
  <2>1. A \in SUBSET (B \cup {Len(s) + 1})
    BY <1>1 DEF StaleIn
  <2>2. Len(s) + 1 \notin B
    BY <1>1 DEF StaleIn
  <2> HIDE DEF A, B
  <2>3. /\ IsFiniteSet(B \cup {Len(s) + 1})
        /\ Cardinality(B \cup {Len(s) + 1}) = Cardinality(B) + 1
    BY <1>2, <2>2, FS_AddElement
  <2>4. Cardinality(A) <= Cardinality(B) + 1
    BY <2>1, <2>3, FS_Subset
  <2> QED
    BY <1>1, <1>3, <2>4 DEF A, B, t
<1>4. CASE ~ x.stale
  <2>1. A \in SUBSET B
    BY <1>1, <1>4 DEF StaleIn
  <2> HIDE DEF A, B
  <2>2. Cardinality(A) <= Cardinality(B)
    BY <1>2, <2>1, FS_Subset
  <2> QED
    BY <1>1, <1>2, <1>4, <2>2 DEF A, B, t
<1> QED
  BY <1>3, <1>4

\* and a record adds itself only.
LEMMA StaleRecorded ==
    ASSUME NEW s \in Seq(Samples), Len(s) <= Capacity, NEW x \in Samples
    PROVE  LET r == Recorded(s, x) IN
           /\ r \in Seq(Samples) /\ Len(r) <= Capacity
           /\ Cardinality(StaleIn(r)) <=
                 Cardinality(StaleIn(s)) + IF x.stale THEN 1 ELSE 0
           /\ Cardinality(StaleIn(r)) \in Nat
<1>1. Capacity \in Nat /\ Capacity >= 1
  BY ResponsivenessAssumption
<1>2. Len(s) \in Nat /\ (Len(s) = Capacity => s # <<>>)
  BY <1>1
<1>3. \A q \in Seq(Samples) : Cardinality(StaleIn(q)) \in Nat
  BY StaleFinite
<1>4. CASE Len(s) = Capacity
  <2>1. Recorded(s, x) = Append(Tail(s), x)
    BY <1>4 DEF Recorded
  <2>2. /\ Tail(s) \in Seq(Samples) /\ Len(Tail(s)) = Len(s) - 1
        /\ Cardinality(StaleIn(Tail(s))) <= Cardinality(StaleIn(s))
    BY <1>2, <1>4, StaleTail
  <2> DEFINE t == Tail(s)
  <2> HIDE DEF t
  <2>3. /\ Append(t, x) \in Seq(Samples) /\ Len(Append(t, x)) = Len(t) + 1
        /\ Cardinality(StaleIn(Append(t, x))) <=
              Cardinality(StaleIn(t)) + IF x.stale THEN 1 ELSE 0
    BY <2>2, StaleAppend DEF t
  <2>4. /\ Cardinality(StaleIn(t)) \in Nat
        /\ Cardinality(StaleIn(Append(t, x))) \in Nat
        /\ Cardinality(StaleIn(s)) \in Nat
    BY <1>3, <2>2, <2>3 DEF t
  <2>5. Cardinality(StaleIn(Append(t, x))) <=
           Cardinality(StaleIn(s)) + IF x.stale THEN 1 ELSE 0
    BY <2>2, <2>3, <2>4 DEF t
  <2>6. Len(Append(t, x)) <= Capacity
    BY <1>1, <1>2, <1>4, <2>2, <2>3 DEF t
  <2> QED
    BY <2>1, <2>3, <2>4, <2>5, <2>6 DEF t
<1>5. CASE Len(s) # Capacity
  <2>1. Recorded(s, x) = Append(s, x)
    BY <1>5 DEF Recorded
  <2>2. Len(s) + 1 <= Capacity
    BY <1>1, <1>2, <1>5
  <2> QED
    BY <1>3, <2>1, <2>2, StaleAppend
<1> QED
  BY <1>4, <1>5

-----------------------------------------------------------------------------
\* The invariant holds

\* The plan in force has its bounds.
LEMMA PlanInForce ==
    ASSUME ShapesOK
    PROVE  /\ Plan.minimum \in Nat /\ Plan.maximum \in Nat
           /\ Plan.minimum <= Plan.maximum
BY PlanBounds DEF ShapesOK, Plan

\* A new controller has the types and the bounds of its limits.
LEMMA NewWidthFields ==
    ASSUME NEW P, P.maximum \in Nat
    PROVE  /\ NewWidth(P) \in Widths /\ NewWidth(P).cores = P.maximum
           /\ NewWidth(P).elevated = 0 /\ NewWidth(P).recovered = 0
BY DEF NewWidth, Widths

\* The invariant holds when the controller starts.
LEMMA InitHolds == Init => WidthInv
<1> SUFFICES ASSUME Init PROVE WidthInv
  OBVIOUS
<1>1. topology \in Topologies /\ config \in AllConfigurations
  BY DEF Init
<1>2. /\ Plan.minimum \in Nat /\ Plan.maximum \in Nat
      /\ Plan.minimum <= Plan.maximum
  BY <1>1, PlanBounds DEF Plan
<1>3. /\ width \in Widths /\ width.cores = Plan.maximum
      /\ width.elevated = 0 /\ width.recovered = 0
  BY <1>2, NewWidthFields DEF Init
<1>4. /\ window = <<>> /\ readings = <<>> /\ fresh = 0
      /\ pc = "ready" /\ probe = "asleep"
  BY DEF Init
<1>5. ShapesOK
  BY <1>1, <1>3, <1>4, ResponsivenessAssumption DEF ShapesOK
<1>6. BoundsOK
  <2>1. config.stability \in Nat
    BY <1>1, Given, ResponsivenessAssumption
       DEF AllConfigurations, ConfigType
  <2> QED
    BY <1>2, <1>3, <2>1 DEF BoundsOK
<1>7. StreaksOK
  BY <1>3, <1>4 DEF StreaksOK, EndsWith
<1>8. StaleOK
  <2>1. StaleIn(window) = {}
    BY <1>4 DEF StaleIn
  <2> QED
    BY <1>4, <2>1, FS_EmptySet DEF StaleOK
<1> QED
  BY <1>5, <1>6, <1>7, <1>8 DEF WidthInv

\* A reload leaves the width to Resize and what was sampled stale.
LEMMA ReloadHolds == WidthInv /\ Reload => WidthInv'
<1> SUFFICES ASSUME WidthInv, Reload PROVE WidthInv'
  OBVIOUS
<1> USE DEF WidthInv
<1>1. /\ config' \in AllConfigurations /\ enabled' = Guarded(config')
      /\ pc = "ready" /\ topology' = topology /\ width' = width
      /\ readings' = readings /\ fresh' = fresh
      /\ pc' = IF enabled' # enabled THEN "clear" ELSE "resize"
      /\ probe' = IF enabled' # enabled /\ probe = "record"
                  THEN "record stale" ELSE probe
      /\ window' = [i \in DOMAIN window |->
                      [window[i] EXCEPT !.stale = @ \/ enabled' # enabled]]
  BY DEF Reload, plan
<1>2. /\ window \in Seq(Samples) /\ DOMAIN window = 1 .. Len(window)
      /\ Len(window) \in Nat
      /\ \A i \in 1 .. Len(window) : window[i] \in Samples
  <2>1. window \in Seq(Samples)
    BY DEF ShapesOK
  <2> QED
    BY <2>1
<1>3. window' \in Seq(Samples) /\ Len(window') = Len(window)
  <2>1. \A i \in 1 .. Len(window) :
           [window[i] EXCEPT !.stale = @ \/ enabled' # enabled] \in Samples
    BY <1>2 DEF Samples
  <2>2. window' \in [1 .. Len(window) -> Samples]
    BY <1>1, <1>2, <2>1
  <2> QED
    BY <1>2, <2>2, IsASeq
<1>4. ShapesOK'
  BY <1>1, <1>3 DEF ShapesOK
<1>5. BoundsOK' /\ pc' # "ready"
  BY <1>1 DEF BoundsOK
<1>6. StreaksOK'
  BY <1>1 DEF StreaksOK
<1>7. StaleOK'
  <2>1. CASE enabled' # enabled
    BY <1>1, <2>1 DEF StaleOK
  <2>2. CASE enabled' = enabled
    <3>1. \A i \in DOMAIN window : window[i].stale \in BOOLEAN
      BY <1>2 DEF Samples
    <3>2. /\ DOMAIN window' = DOMAIN window
          /\ \A i \in DOMAIN window : window'[i].stale = window[i].stale
      BY <1>1, <1>2, <2>2, <3>1 DEF Samples
    <3>3. StaleIn(window') = StaleIn(window)
      BY <3>2 DEF StaleIn
    <3>4. StaleIn(window)' = StaleIn(window')
      BY DEF StaleIn
    <3> QED
      BY <1>1, <2>2, <3>3, <3>4 DEF StaleOK
  <2> QED
    BY <2>1, <2>2
<1> QED
  BY <1>4, <1>5, <1>6, <1>7

\* Clearing leaves no stale sample but the one under way.
LEMMA ClearHolds == WidthInv /\ Clear => WidthInv'
<1> SUFFICES ASSUME WidthInv, Clear PROVE WidthInv'
  OBVIOUS
<1> USE DEF WidthInv
<1>1. /\ pc = "clear" /\ window' = <<>> /\ pc' = "resize"
      /\ topology' = topology /\ config' = config /\ width' = width
      /\ probe' = probe /\ readings' = readings /\ fresh' = fresh
  BY DEF Clear, plan
<1>2. ShapesOK'
  <2>1. window' \in Seq(Samples) /\ Len(window') = 0
    BY <1>1
  <2>2. Len(window') <= Capacity
    BY <2>1, ResponsivenessAssumption
  <2> QED
    BY <1>1, <2>1, <2>2 DEF ShapesOK
<1>3. BoundsOK'
  BY <1>1 DEF BoundsOK
<1>4. StreaksOK'
  BY <1>1 DEF StreaksOK
<1>5. StaleOK'
  <2>1. StaleIn(window') = {}
    BY <1>1 DEF StaleIn
  <2>2. Cardinality(StaleIn(window')) = 0
    BY <2>1, FS_EmptySet
  <2>3. Cardinality(StaleIn(window')) <= 1
    BY <2>2
  <2> QED
    BY <2>2, <2>3, Zenon DEF StaleOK
<1> QED
  BY <1>2, <1>3, <1>4, <1>5

\* Resizing brings the width within the new bounds.
LEMMA ResizeHolds == WidthInv /\ Resize => WidthInv'
<1> SUFFICES ASSUME WidthInv, Resize PROVE WidthInv'
  OBVIOUS
<1> USE DEF WidthInv
<1>1. /\ pc = "resize" /\ pc' = "ready" /\ readings' = <<>> /\ fresh' = 0
      /\ width' = Reconfigured(width, Plan, config)
      /\ topology' = topology /\ config' = config /\ window' = window
      /\ probe' = probe
  BY DEF Resize, plan
<1>2. /\ Plan.minimum \in Nat /\ Plan.maximum \in Nat
      /\ Plan.minimum <= Plan.maximum
  BY PlanInForce
<1>3. width \in Widths
  BY DEF ShapesOK
<1>4. /\ width' \in Widths /\ width'.cores \in Plan.minimum .. Plan.maximum
      /\ width'.elevated = 0 /\ width'.recovered = 0
  <2>1. CASE ~ Guarded(config)
    <3>1. width' = NewWidth(Plan)
      BY <1>1, <2>1 DEF Reconfigured
    <3> QED
      BY <1>2, <3>1, NewWidthFields
  <2>2. CASE Guarded(config)
    <3> DEFINE low == Min({width.cores, Plan.maximum})
               n == Max({Plan.minimum, low})
    <3>1. low = IF width.cores <= Plan.maximum THEN width.cores
                ELSE Plan.maximum
      BY <1>2, <1>3, WidthFields, MinOfTwo
    <3>2. width.cores \in Nat
      BY <1>3, WidthFields
    <3> HIDE DEF low
    <3>3. low \in Nat /\ low <= Plan.maximum
      BY <1>2, <3>1, <3>2
    <3>4. n = IF Plan.minimum >= low THEN Plan.minimum ELSE low
      BY <1>2, <3>3, MaxOfTwo
    <3>5. width' = [width EXCEPT !.cores = n, !.elevated = 0,
                                 !.recovered = 0]
      BY <1>1, <2>2 DEF Reconfigured, low
    <3> HIDE DEF n
    <3>6. n \in Nat /\ n \in Plan.minimum .. Plan.maximum
      BY <1>2, <3>3, <3>4
    <3> QED
      BY <1>3, <3>5, <3>6 DEF Widths
  <2> QED
    BY <2>1, <2>2
<1>5. Plan' = Plan
  BY <1>1 DEF Plan
<1>6. ShapesOK'
  <2>1. readings' \in Seq(Kinds) /\ fresh' \in Nat
    BY <1>1
  <2> QED
    BY <1>1, <1>4, <2>1 DEF ShapesOK
<1>7. BoundsOK'
  <2>1. config.stability \in Nat
    BY ResponsivenessAssumption
       DEF ShapesOK, AllConfigurations, ConfigType
  <2> QED
    BY <1>1, <1>4, <1>5, <2>1 DEF BoundsOK
<1>8. StreaksOK'
  BY <1>1, <1>4 DEF StreaksOK, EndsWith
<1>9. StaleOK'
  BY <1>1 DEF StaleOK, StaleIn
<1> QED
  BY <1>6, <1>7, <1>8, <1>9

\* What an evaluation does with the width and the histories.
LEMMA Evaluations ==
    ASSUME WidthInv, Evaluate
    PROVE  \E gap \in 1 .. MaxGap, reading \in Kinds :
             LET w == Aged(width, gap) IN
             /\ w \in Widths /\ width' \in Widths
             /\ reading # "unknown" => Len(window) >= MinSamples
             /\ readings' \in Seq(Kinds)
             /\ \A m \in Nat, kind \in Kinds :
                   /\ m <= Longest
                   /\ m # 0 =>
                        /\ reading = kind
                        /\ \/ kind = "elevated" /\ m <= width.elevated + 1
                           \/ kind = "recovered" /\ m <= width.recovered + 1
                   => EndsWith(readings', m, kind)
             /\ fresh' = IF width'.cores # width.cores THEN 0
                         ELSE UpTo(Longest, fresh + 1)
             /\ \/ Kept(w, width', config, reading)
                \/ Lowered(w, width', Plan.minimum, config, reading)
                \/ Raised(w, width', Plan.maximum, config, reading)
<1> USE DEF WidthInv
<1>1. PICK gap \in 1 .. MaxGap, interrupts \in Classes :
        /\ width' = Evaluated(Aged(width, gap), Plan, config,
                       Reading(window, interrupts))
        /\ readings' =
              IF Len(Append(readings, Reading(window, interrupts))) > Longest
              THEN Tail(Append(readings, Reading(window, interrupts)))
              ELSE Append(readings, Reading(window, interrupts))
        /\ fresh' = IF width'.cores # width.cores THEN 0
                    ELSE UpTo(Longest, fresh + 1)
  BY DEF Evaluate
<1> DEFINE reading == Reading(window, interrupts)
           w == Aged(width, gap)
           all == Append(readings, reading)
           rest == IF Len(all) > Longest THEN Tail(all) ELSE all
<1>2. /\ config \in AllConfigurations /\ width \in Widths /\ gap \in Nat
      /\ window \in Seq(Samples) /\ readings \in Seq(Kinds)
      /\ Len(window) \in Nat
  <2>1. /\ config \in AllConfigurations /\ width \in Widths
        /\ window \in Seq(Samples) /\ readings \in Seq(Kinds)
    BY DEF ShapesOK
  <2>2. gap \in Nat
    BY ResponsivenessAssumption
  <2> QED
    BY <2>1, <2>2
<1>3. reading \in Kinds /\ (reading # "unknown" => Len(window) >= MinSamples)
  BY <1>2, Readings
<1>4. width' = Evaluated(w, Plan, config, reading)
      /\ readings' = rest
      /\ fresh' = IF width'.cores # width.cores THEN 0
                  ELSE UpTo(Longest, fresh + 1)
  BY <1>1
<1>5. Plan.minimum \in Nat /\ Plan.maximum \in Nat
  BY PlanInForce
<1>6. w \in Widths
  BY <1>2, AgedFields
<1> HIDE DEF reading, w
<1>7. /\ width' \in Widths
      /\ \/ Kept(w, width', config, reading)
         \/ Lowered(w, width', Plan.minimum, config, reading)
         \/ Raised(w, width', Plan.maximum, config, reading)
  BY <1>2, <1>3, <1>4, <1>5, <1>6, EvaluatedFields
<1>8. width.elevated \in Nat /\ width.recovered \in Nat
  BY <1>2, WidthFields
<1>9. ASSUME NEW m \in Nat, NEW kind \in Kinds, m <= Longest,
             m # 0 =>
                /\ reading = kind
                /\ \/ kind = "elevated" /\ m <= width.elevated + 1
                   \/ kind = "recovered" /\ m <= width.recovered + 1
      PROVE  readings' \in Seq(Kinds) /\ EndsWith(readings', m, kind)
  <2>1. CASE kind = "elevated"
    <3>1. EndsWith(readings, width.elevated, "elevated")
      BY DEF StreaksOK
    <3>2. m # 0 => reading = "elevated" /\ m <= width.elevated + 1
      BY <1>9, <2>1
    <3>3. rest \in Seq(Kinds) /\ EndsWith(rest, m, kind)
      BY <1>2, <1>3, <1>8, <1>9, <2>1, <3>1, <3>2, StreakGrows
    <3> QED
      BY <1>4, <3>3
  <2>2. CASE kind = "recovered"
    <3>1. EndsWith(readings, width.recovered, "recovered")
      BY DEF StreaksOK
    <3>2. m # 0 => reading = "recovered" /\ m <= width.recovered + 1
      BY <1>9, <2>2
    <3>3. rest \in Seq(Kinds) /\ EndsWith(rest, m, kind)
      BY <1>2, <1>3, <1>8, <1>9, <2>2, <3>1, <3>2, StreakGrows
    <3> QED
      BY <1>4, <3>3
  <2>3. CASE kind \notin {"elevated", "recovered"}
    <3>1. m = 0
      BY <1>9, <2>3
    <3>2. EndsWith(readings, 0, kind)
      <4>1. Len(readings) \in Nat
        BY <1>2
      <4> QED
        BY <4>1 DEF EndsWith
    <3>3. rest \in Seq(Kinds) /\ EndsWith(rest, m, kind)
      BY <1>2, <1>3, <1>9, <3>1, <3>2, StreakGrows
    <3> QED
      BY <1>4, <3>3
  <2> QED
    BY <2>1, <2>2, <2>3
<1>10. readings' \in Seq(Kinds)
  BY <1>3, <1>9, LongestOf
<1>11. gap \in 1 .. MaxGap
  OBVIOUS
<1> QED
  BY <1>3, <1>4, <1>6, <1>7, <1>9, <1>10, <1>11 DEF w

\* An evaluation keeps the width fit and its streaks true.
LEMMA EvaluateHolds == WidthInv /\ Evaluate => WidthInv'
<1> SUFFICES ASSUME WidthInv, Evaluate PROVE WidthInv'
  OBVIOUS
<1>1. PICK gap \in 1 .. MaxGap, reading \in Kinds :
        LET w == Aged(width, gap) IN
        /\ w \in Widths /\ width' \in Widths
        /\ reading # "unknown" => Len(window) >= MinSamples
        /\ readings' \in Seq(Kinds)
        /\ \A m \in Nat, kind \in Kinds :
              /\ m <= Longest
              /\ m # 0 =>
                   /\ reading = kind
                   /\ \/ kind = "elevated" /\ m <= width.elevated + 1
                      \/ kind = "recovered" /\ m <= width.recovered + 1
              => EndsWith(readings', m, kind)
        /\ fresh' = IF width'.cores # width.cores THEN 0
                    ELSE UpTo(Longest, fresh + 1)
        /\ \/ Kept(w, width', config, reading)
           \/ Lowered(w, width', Plan.minimum, config, reading)
           \/ Raised(w, width', Plan.maximum, config, reading)
  BY Evaluations
<1> DEFINE w == Aged(width, gap)
           v == width'
<1>2. /\ pc = "ready" /\ pc' = pc /\ topology' = topology /\ config' = config
      /\ window' = window /\ probe' = probe
  BY DEF Evaluate, plan
<1>3. /\ ShapesOK /\ BoundsOK /\ StreaksOK /\ StaleOK
  BY DEF WidthInv
<1>4. /\ width \in Widths /\ config \in AllConfigurations /\ fresh \in Nat
      /\ gap \in Nat
  <2>1. /\ width \in Widths /\ config \in AllConfigurations
        /\ fresh \in Nat
    BY <1>3 DEF ShapesOK
  <2>2. gap \in Nat
    BY ResponsivenessAssumption
  <2> QED
    BY <2>1, <2>2
<1>5. /\ w.cores = width.cores /\ w.elevated = width.elevated
      /\ w.recovered = width.recovered
  BY <1>4, AgedFields
<1> HIDE DEF w, v
<1>6. /\ width.cores \in Nat /\ width.elevated \in Nat
      /\ width.recovered \in Nat
      /\ v \in Widths /\ v.cores \in Nat
      /\ v.elevated \in Nat /\ v.recovered \in Nat
  BY <1>1, <1>4, WidthFields DEF v
<1>7. /\ config.stability \in Nat \ {0} /\ config.stability <= Longest
      /\ Longest \in Nat
  BY <1>4, LongestOf, ResponsivenessAssumption
     DEF AllConfigurations, ConfigType, Valid
<1>8. /\ Plan.minimum \in Nat /\ Plan.maximum \in Nat
      /\ width.cores \in Plan.minimum .. Plan.maximum
      /\ width.elevated <= config.stability
      /\ width.recovered <= config.stability
  BY <1>2, <1>3, PlanInForce DEF BoundsOK
<1>9. width.elevated <= fresh /\ width.recovered <= fresh
  BY <1>3 DEF StreaksOK
<1>10. fresh' = IF v.cores # width.cores THEN 0 ELSE UpTo(Longest, fresh + 1)
  BY <1>1 DEF v
<1>11. fresh' \in Nat
  BY <1>4, <1>7, <1>10 DEF UpTo
<1>12. /\ v.cores \in Plan.minimum .. Plan.maximum
       /\ v.elevated <= config.stability /\ v.recovered <= config.stability
       /\ v.elevated <= fresh' /\ v.recovered <= fresh'
       /\ v.elevated # 0 =>
             reading = "elevated" /\ v.elevated <= width.elevated + 1
       /\ v.recovered # 0 =>
             reading = "recovered" /\ v.recovered <= width.recovered + 1
  <2>1. CASE Kept(w, v, config, reading)
    <3>1. v.cores = width.cores
      BY <1>5, <2>1 DEF Kept
    <3>2. fresh' = UpTo(Longest, fresh + 1)
      BY <1>10, <3>1
    <3>3. \/ /\ v.elevated = IF reading = "elevated"
                             THEN UpTo(config.stability, width.elevated + 1)
                             ELSE 0
             /\ v.recovered = IF reading = "recovered"
                              THEN UpTo(config.stability, width.recovered + 1)
                              ELSE 0
          \/ v.elevated = 0 /\ v.recovered = 0
      BY <1>5, <2>1 DEF Kept
    <3>4. /\ v.elevated = 0
             \/ /\ reading = "elevated"
                /\ v.elevated = UpTo(config.stability, width.elevated + 1)
          /\ v.recovered = 0
             \/ /\ reading = "recovered"
                /\ v.recovered = UpTo(config.stability, width.recovered + 1)
      BY <3>3
    <3>5. /\ v.elevated <= config.stability
          /\ v.elevated <= fresh'
          /\ v.elevated # 0 =>
                reading = "elevated" /\ v.elevated <= width.elevated + 1
      BY <1>4, <1>6, <1>7, <1>9, <3>2, <3>4 DEF UpTo
    <3>6. /\ v.recovered <= config.stability
          /\ v.recovered <= fresh'
          /\ v.recovered # 0 =>
                reading = "recovered" /\ v.recovered <= width.recovered + 1
      BY <1>4, <1>6, <1>7, <1>9, <3>2, <3>4 DEF UpTo
    <3> QED
      BY <1>8, <3>1, <3>5, <3>6
  <2>2. CASE Lowered(w, v, Plan.minimum, config, reading)
    <3>1. /\ v.cores \in Plan.minimum .. width.cores - 1
          /\ v.elevated = 0 /\ v.recovered = 0
      BY <1>5, <2>2 DEF Lowered, Changed
    <3> QED
      BY <1>6, <1>7, <1>8, <1>11, <3>1
  <2>3. CASE Raised(w, v, Plan.maximum, config, reading)
    <3>1. /\ v.cores = width.cores + 1 /\ v.cores <= Plan.maximum
          /\ v.elevated = 0 /\ v.recovered = 0
      BY <1>5, <2>3 DEF Raised, Changed
    <3> QED
      BY <1>6, <1>7, <1>8, <1>11, <3>1
  <2> QED
    BY <1>1, <2>1, <2>2, <2>3 DEF w, v
<1>13. Plan' = Plan
  BY <1>2 DEF Plan
<1>14. ShapesOK'
  BY <1>1, <1>2, <1>3, <1>11 DEF ShapesOK
<1>15. BoundsOK'
  BY <1>2, <1>12, <1>13 DEF BoundsOK, v
<1>16. StreaksOK'
  <2>1. EndsWith(readings', v.elevated, "elevated")
    <3>1. "elevated" \in Kinds /\ v.elevated <= Longest
      BY <1>6, <1>7, <1>12 DEF Kinds
    <3> QED
      BY <1>1, <1>6, <1>12, <3>1
  <2>2. EndsWith(readings', v.recovered, "recovered")
    <3>1. "recovered" \in Kinds /\ v.recovered <= Longest
      BY <1>6, <1>7, <1>12 DEF Kinds
    <3> QED
      BY <1>1, <1>6, <1>12, <3>1
  <2> QED
    BY <1>12, <2>1, <2>2 DEF StreaksOK, v
<1>17. StaleOK'
  BY <1>2, <1>3 DEF StaleOK, StaleIn
<1> QED
  BY <1>14, <1>15, <1>16, <1>17 DEF WidthInv

\* The thread of the probe touches the window only.
LEMMA ProbeHolds == WidthInv /\ (Wake \/ Record) => WidthInv'
<1> SUFFICES ASSUME WidthInv, Wake \/ Record PROVE WidthInv'
  OBVIOUS
<1>1. /\ topology' = topology /\ config' = config /\ width' = width
      /\ pc' = pc /\ readings' = readings /\ fresh' = fresh
  BY DEF Wake, Record, plan
<1>2. /\ ShapesOK /\ BoundsOK /\ StreaksOK /\ StaleOK
  BY DEF WidthInv
<1>3. BoundsOK' /\ StreaksOK'
  BY <1>1, <1>2 DEF BoundsOK, StreaksOK, Plan
<1>4. CASE Wake
  <2>1. window' = window /\ probe = "asleep" /\ probe' = "record"
    BY <1>4 DEF Wake
  <2>2. ShapesOK'
    BY <1>1, <1>2, <2>1 DEF ShapesOK
  <2>3. StaleOK'
    BY <1>1, <1>2, <2>1 DEF StaleOK, StaleIn
  <2> QED
    BY <1>3, <2>2, <2>3 DEF WidthInv
<1>5. CASE Record
  <2>1. PICK late \in Classes :
          window' = Recorded(window,
                      [late |-> late, stale |-> probe = "record stale"])
    BY <1>5 DEF Record
  <2>2. probe # "asleep" /\ probe' = "asleep"
    BY <1>5 DEF Record
  <2> DEFINE x == [late |-> late, stale |-> probe = "record stale"]
  <2>3. x \in Samples /\ (x.stale <=> probe = "record stale")
    BY DEF Samples
  <2>4. window \in Seq(Samples) /\ Len(window) <= Capacity
    BY <1>2 DEF ShapesOK
  <2> HIDE DEF x
  <2>5. /\ window' \in Seq(Samples) /\ Len(window') <= Capacity
        /\ Cardinality(StaleIn(window')) <=
              Cardinality(StaleIn(window)) + IF x.stale THEN 1 ELSE 0
        /\ Cardinality(StaleIn(window')) \in Nat
        /\ Cardinality(StaleIn(window)) \in Nat
    BY <2>1, <2>3, <2>4, StaleRecorded, StaleFinite DEF x
  <2>6. ShapesOK'
    BY <1>1, <1>2, <2>2, <2>5 DEF ShapesOK
  <2>7. ASSUME pc # "clear"
        PROVE  Cardinality(StaleIn(window')) <= 1
    <3> DEFINE a == Cardinality(StaleIn(window))
               b == Cardinality(StaleIn(window'))
    <3>1. a <= 1 /\ (probe = "record stale" => a = 0)
      BY <1>2, <2>7 DEF StaleOK
    <3>2. a \in Nat /\ b \in Nat
      BY <2>5
    <3> HIDE DEF a, b
    <3>3. b <= a + (IF x.stale THEN 1 ELSE 0)
      BY <2>5 DEF a, b
    <3>4. b <= 1
      <4>1. CASE x.stale
        <5>1. b <= a + 1 /\ a = 0
          BY <2>3, <3>1, <3>3, <4>1
        <5> QED
          BY <3>2, <5>1
      <4>2. CASE ~ x.stale
        <5>1. b <= a
          BY <3>2, <3>3, <4>2
        <5>2. a <= 1
          BY <3>1
        <5> QED
          BY <3>2, <5>1, <5>2
      <4> QED
        BY <4>1, <4>2
    <3> QED
      BY <3>4 DEF b
  <2>8. StaleOK'
    <3>1. /\ pc' # "clear" => Cardinality(StaleIn(window')) <= 1
          /\ probe' # "record stale"
      BY <1>1, <2>2, <2>7
    <3> QED
      BY <3>1, Zenon DEF StaleOK
  <2> QED
    BY <1>3, <2>6, <2>8 DEF WidthInv
<1> QED
  BY <1>4, <1>5

\* Every step keeps the invariant.
LEMMA NextHolds == WidthInv /\ [Next]_vars => WidthInv'
<1>1. WidthInv /\ UNCHANGED vars => WidthInv'
  <2> SUFFICES ASSUME WidthInv, UNCHANGED vars PROVE WidthInv'
    OBVIOUS
  <2>1. /\ topology' = topology /\ config' = config /\ width' = width
        /\ window' = window /\ pc' = pc /\ probe' = probe
        /\ readings' = readings /\ fresh' = fresh
    BY DEF vars, plan
  <2> QED
    BY <2>1 DEF WidthInv, ShapesOK, BoundsOK, StreaksOK, StaleOK, Plan,
                StaleIn
<1> QED
  BY <1>1, ReloadHolds, ClearHolds, ResizeHolds, EvaluateHolds, ProbeHolds
     DEF Next

-----------------------------------------------------------------------------
\* The theorems

\* The inductive invariant of the controller and the probe.
THEOREM WidthInvariant == Spec => []WidthInv
<1> QED
  BY InitHolds, NextHolds, PTL DEF Spec

\* The width is within what the configuration and the topology for policies
\* allow whenever the controller evaluates, and the window within its capacity
\* (AdaptiveWidthController::reconfigure, evaluate; LatencyProbe).
THEOREM WidthTypes == Spec => []TypeOK
<1>1. WidthInv => TypeOK
  <2> SUFFICES ASSUME WidthInv PROVE TypeOK
    OBVIOUS
  <2>1. /\ ShapesOK /\ BoundsOK
    BY DEF WidthInv
  <2>2. /\ width.elevated \in Nat /\ width.recovered \in Nat
        /\ width.pressure \in {"unknown", "normal", "elevated"}
    BY <2>1, WidthFields DEF ShapesOK
  <2>3. config.stability \in Nat
    BY <2>1, ResponsivenessAssumption
       DEF ShapesOK, AllConfigurations, ConfigType
  <2>4. pc = "ready" =>
          /\ width.cores \in Plan.minimum .. Plan.maximum
          /\ width.elevated \in 0 .. config.stability
          /\ width.recovered \in 0 .. config.stability
    BY <2>1, <2>2, <2>3 DEF BoundsOK
  <2> QED
    BY <2>1, <2>2, <2>4 DEF ShapesOK, TypeOK
<1> QED
  BY <1>1, WidthInvariant, PTL

\* For any topology and configuration the reserve is as large as asked for,
\* leaves a physical core, is spread over the last-level caches and takes the
\* best cores of each (plan_system_reserve, select_spread_physical_cores).
THEOREM ReserveIsSpread == Spec => []ReserveSpread
<1>1. WidthInv => ReserveSpread
  BY SpreadHolds DEF WidthInv, ShapesOK, ReserveSpread, Spread
<1> QED
  BY <1>1, WidthInvariant, PTL

\* For any topology and configuration the width in force can be planned, and
\* no plan touches the reserve (plan_spread_partition, plan_assignment,
\* excluding_reserved_cpu_sets).
THEOREM WidthIsFit == Spec => []WidthFits
<1>1. ASSUME WidthInv, pc = "ready"
      PROVE  width.cores \in Fits[topology][config]
  <2> DEFINE T == topology
             c == config
             n == width.cores
  <2>1. T \in Topologies /\ c \in AllConfigurations /\ width \in Widths
    BY <1>1 DEF WidthInv, ShapesOK
  <2>2. n \in Plans[T][c].minimum .. Plans[T][c].maximum
    BY <1>1 DEF WidthInv, BoundsOK, Plan
  <2>3. n \in Nat
    BY <2>1, WidthFields
  <2> HIDE DEF T, c, n
  <2>4. n <= Cardinality(Placeable(Plans[T][c].view)) /\ n <= Cardinality(T)
    <3> DEFINE V == Plans[T][c].view
               m == Plans[T][c].maximum
               p == Cardinality(Placeable(V))
               q == Cardinality(V)
               r == Cardinality(T)
               l == Plans[T][c].minimum
    <3>1. /\ q <= r /\ l \in Nat /\ m \in Nat /\ m <= p /\ p \in Nat
          /\ p <= q /\ q \in Nat /\ r \in Nat
      BY <2>1, PlanBounds
    <3>2. n \in l .. m
      BY <2>2
    <3> HIDE DEF V, m, p, q, r, l
    <3>3. n <= p /\ n <= r
      BY <2>3, <3>1, <3>2
    <3> QED
      BY <3>3 DEF V, p, r
  <2>5. FitOf(T, c, n)
    BY <2>1, <2>3, <2>4, FitHolds
  <2>6. n \in 0 .. Unlimited(T)
    <3>1. Cardinality(T) \in Nat
      BY <2>1, Given, CoresFinite
    <3> QED
      BY <2>3, <2>4, <3>1 DEF Unlimited
  <2>7. n \in Fits[T][c]
    BY <2>1, <2>5, <2>6 DEF Fits
  <2> QED
    BY <2>7 DEF T, c, n
<1>2. WidthInv => WidthFits
  BY <1>1 DEF WidthFits
<1> QED
  BY <1>2, WidthInvariant, PTL

\* For any limits an evaluation changes the width only after stability_samples
\* readings of one kind under the configuration in force, all since the last
\* change, a cooldown after it, and from a window in which at most one sample
\* is older than the probe's enabling (AdaptiveWidthController::evaluate,
\* LatencyProbe::set_enabled).
THEOREM WidthIsEarned == Spec => WidthEarned
<1> DEFINE Since(kind) ==
              /\ fresh + 1 >= config.stability
              /\ Len(readings') >= config.stability
              /\ \A i \in 0 .. config.stability - 1 :
                    readings'[Len(readings') - i] = kind
           Earned ==
              (pc = "ready" /\ pc' = "ready" /\ width'.cores # width.cores) =>
                 /\ IF width'.cores < width.cores THEN Since("elevated")
                    ELSE width'.cores = width.cores + 1 /\ Since("recovered")
                 /\ width.since # None =>
                       width.since + MaxGap >= config.cooldown
                 /\ Len(window) >= MinSamples
                 /\ Cardinality({i \in DOMAIN window : window[i].stale}) <= 1
<1>1. ASSUME WidthInv, [Next]_vars
      PROVE  [Earned]_vars
  <2> SUFFICES ASSUME Next, pc = "ready", pc' = "ready",
                      width'.cores # width.cores
               PROVE  Earned
    BY <1>1
  <2>1. Evaluate
    BY DEF Next, Reload, Clear, Resize, Wake, Record
  <2>2. PICK gap \in 1 .. MaxGap, reading \in Kinds :
        LET w == Aged(width, gap) IN
        /\ w \in Widths /\ width' \in Widths
        /\ reading # "unknown" => Len(window) >= MinSamples
        /\ readings' \in Seq(Kinds)
        /\ \A m \in Nat, kind \in Kinds :
              /\ m <= Longest
              /\ m # 0 =>
                   /\ reading = kind
                   /\ \/ kind = "elevated" /\ m <= width.elevated + 1
                      \/ kind = "recovered" /\ m <= width.recovered + 1
              => EndsWith(readings', m, kind)
        /\ fresh' = IF width'.cores # width.cores THEN 0
                    ELSE UpTo(Longest, fresh + 1)
        /\ \/ Kept(w, width', config, reading)
           \/ Lowered(w, width', Plan.minimum, config, reading)
           \/ Raised(w, width', Plan.maximum, config, reading)
    BY <1>1, <2>1, Evaluations
  <2> DEFINE w == Aged(width, gap)
             v == width'
  <2>3. ShapesOK /\ StreaksOK /\ StaleOK
    BY <1>1 DEF WidthInv
  <2>4. /\ width \in Widths /\ config \in AllConfigurations /\ fresh \in Nat
        /\ gap \in Nat /\ gap <= MaxGap /\ MaxGap \in Nat
    <3>1. /\ width \in Widths /\ config \in AllConfigurations
          /\ fresh \in Nat
      BY <2>3 DEF ShapesOK
    <3>2. gap \in Nat /\ gap <= MaxGap /\ MaxGap \in Nat
      BY ResponsivenessAssumption
    <3> QED
      BY <3>1, <3>2
  <2>5. /\ w.cores = width.cores /\ w.elevated = width.elevated
        /\ w.recovered = width.recovered
        /\ (w.since = None) <=> (width.since = None)
        /\ width.since # None =>
              w.since \in Nat /\ w.since <= width.since + gap
    BY <2>4, AgedFields
  <2> HIDE DEF w, v
  <2>6. /\ width.cores \in Nat /\ width.elevated \in Nat
        /\ width.recovered \in Nat /\ v.cores \in Nat
        /\ width.since \in Nat \cup {None}
    BY <2>2, <2>4, WidthFields DEF v
  <2>7. /\ config.stability \in Nat \ {0} /\ config.stability <= Longest
        /\ config.cooldown \in Nat
    BY <2>4, LongestOf, ResponsivenessAssumption
       DEF AllConfigurations, ConfigType, Valid
  <2>8. width.elevated <= fresh /\ width.recovered <= fresh
    BY <2>3 DEF StreaksOK
  <2>9. \/ Lowered(w, v, Plan.minimum, config, reading)
        \/ Raised(w, v, Plan.maximum, config, reading)
    <3>1. v.cores # w.cores
      BY <2>5 DEF v
    <3>2. ~ Kept(w, v, config, reading)
      BY <3>1 DEF Kept
    <3> QED
      BY <2>2, <3>2 DEF w, v
  <2>10. Changed(w, v, config, reading)
    BY <2>9 DEF Lowered, Raised
  <2>11. IF v.cores < width.cores
         THEN reading = "elevated" /\ width.elevated + 1 >= config.stability
         ELSE /\ v.cores = width.cores + 1 /\ reading = "recovered"
              /\ width.recovered + 1 >= config.stability
    <3>1. CASE Lowered(w, v, Plan.minimum, config, reading)
      <4>1. /\ reading = "elevated"
            /\ width.elevated + 1 >= config.stability
            /\ v.cores <= width.cores - 1
        BY <2>5, <3>1 DEF Lowered
      <4> QED
        BY <2>6, <4>1
    <3>2. CASE Raised(w, v, Plan.maximum, config, reading)
      <4>1. /\ reading = "recovered"
            /\ width.recovered + 1 >= config.stability
            /\ v.cores = width.cores + 1
        BY <2>5, <3>2 DEF Raised
      <4> QED
        BY <2>6, <4>1
    <3> QED
      BY <2>9, <3>1, <3>2
  <2>12. ASSUME NEW kind \in {"elevated", "recovered"}, reading = kind,
                \/ kind = "elevated" /\ config.stability <= width.elevated + 1
                \/ kind = "recovered" /\ config.stability <= width.recovered + 1
         PROVE  Since(kind)
    <3>1. fresh + 1 >= config.stability
      BY <2>4, <2>6, <2>7, <2>8, <2>12
    <3>2. config.stability \in Nat /\ kind \in Kinds
      BY <2>7 DEF Kinds
    <3>3. EndsWith(readings', config.stability, kind)
      BY <2>2, <2>7, <2>12, <3>2
    <3>4. Len(readings') \in Nat
      BY <2>2
    <3> QED
      BY <3>1, <3>2, <3>3, <3>4 DEF EndsWith
  <2>13. IF v.cores < width.cores THEN Since("elevated")
         ELSE v.cores = width.cores + 1 /\ Since("recovered")
    <3> HIDE DEF Since
    <3>1. CASE v.cores < width.cores
      <4>1. /\ reading = "elevated"
            /\ config.stability <= width.elevated + 1
        BY <2>6, <2>7, <2>11, <3>1
      <4> QED
        BY <2>12, <3>1, <4>1
    <3>2. CASE ~ (v.cores < width.cores)
      <4>1. /\ reading = "recovered" /\ v.cores = width.cores + 1
            /\ config.stability <= width.recovered + 1
        BY <2>6, <2>7, <2>11, <3>2
      <4> QED
        BY <2>12, <3>2, <4>1
    <3> QED
      BY <3>1, <3>2
  <2>14. width.since # None => width.since + MaxGap >= config.cooldown
    <3> SUFFICES ASSUME width.since # None
                 PROVE  width.since + MaxGap >= config.cooldown
      OBVIOUS
    <3>1. w.since # None /\ ~ (w.since < config.cooldown)
      BY <2>5, <2>10 DEF Changed, Cooling
    <3>2. /\ width.since \in Nat /\ w.since \in Nat
          /\ w.since <= width.since + gap
      BY <2>5, <2>6
    <3> QED
      BY <2>4, <2>7, <3>1, <3>2
  <2>15. Len(window) >= MinSamples
    BY <2>2, <2>10 DEF Changed
  <2>16. Cardinality({i \in DOMAIN window : window[i].stale}) <= 1
    <3>1. Cardinality(StaleIn(window)) <= 1
      BY <2>3 DEF StaleOK
    <3> QED
      BY <3>1 DEF StaleIn
  <2> HIDE DEF Since
  <2> QED
    BY <2>13, <2>14, <2>15, <2>16 DEF v
<1>2. WidthInv /\ WidthInv' /\ [Next]_vars => [Earned]_vars
  BY <1>1
<1> QED
  BY <1>2, WidthInvariant, PTL DEF Spec, WidthEarned
=============================================================================
