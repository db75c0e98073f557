------------------------------ MODULE Topology ------------------------------
(***************************************************************************)
(* The CPU topology and its planners: which whole cores are held back for  *)
(* Windows, and which CPU Sets a profile may be given. All are functions   *)
(* of a snapshot, a set of CPU Sets with distinct ids.                     *)
(*                                                                         *)
(* A core and a last-level cache are natural numbers that stand for the    *)
(* pairs of group and index, in their order. Where the code sorts and      *)
(* walks lists, a definition says at which place an element comes.         *)
(***************************************************************************)
EXTENDS Integers, FiniteSets, FiniteSetsExt

Flags == {"parked", "allocated", "allocated_to_target_process", "realtime"}

CpuSet ==
    [id : Nat, core : Nat, llc : Nat, numa : Nat, processor : Nat,
     efficiency : Nat, scheduling : Nat, flags : SUBSET Flags]

\* Topology::new refuses an empty snapshot and an id that comes twice.
IsTopology(T) ==
    /\ T # {} /\ T \subseteq CpuSet
    /\ \A a, b \in T : a.id = b.id => a = b

Unlimited(T) == Cardinality(T)

Available(cpu) ==
    /\ "realtime" \notin cpu.flags
    /\ "allocated" \in cpu.flags => "allocated_to_target_process" \in cpu.flags

Assignable(cpu) == Available(cpu) /\ "parked" \notin cpu.flags

Ids(S) == {cpu.id : cpu \in S}

-----------------------------------------------------------------------------
\* Last-level caches

DomainCpus(T, d) == {cpu \in T : cpu.llc = d /\ Assignable(cpu)}

\* cpu_set_ids_for_class
ClassIds(T, d, preference) ==
    LET S == DomainCpus(T, d)
        classes == {cpu.efficiency : cpu \in S}
    IN Ids(CASE preference = "Any" -> S
             [] preference = "Fastest" ->
                  {cpu \in S : \A c \in classes : cpu.efficiency >= c}
             [] preference = "MostEfficient" ->
                  {cpu \in S : \A c \in classes : cpu.efficiency <= c})

\* domain_for_cpu_set_ids: the domain that holds all of a list, if one does.
DomainsOf(T, ids) ==
    IF ids \subseteq Ids(T) THEN {cpu.llc : cpu \in {c \in T : c.id \in ids}}
    ELSE {}
IsWithinOneDomain(T, ids) == Cardinality(DomainsOf(T, ids)) = 1

-----------------------------------------------------------------------------
\* Physical cores

Siblings(T, k) == {cpu \in T : cpu.core = k}

\* physical_cores: siblings that disagree on their locality are no core.
PhysicalCores(T) ==
    {k \in {cpu.core : cpu \in T} :
        \A a, b \in Siblings(T, k) : a.llc = b.llc /\ a.numa = b.numa}

Llc(T, k) == CHOOSE d \in {cpu.llc : cpu \in Siblings(T, k)} : TRUE
SchedulingClass(T, k) == Max({cpu.scheduling : cpu \in Siblings(T, k)})

\* The cores a plan may take as a whole.
Placeable(T) ==
    {k \in PhysicalCores(T) :
        /\ \E cpu \in Siblings(T, k) : Assignable(cpu)
        /\ \A cpu \in Siblings(T, k) : Available(cpu)}

\* The place of a core in its domain, best scheduling class first.
Depth(T, k) ==
    Cardinality({j \in Placeable(T) :
        /\ Llc(T, j) = Llc(T, k)
        /\ \/ SchedulingClass(T, j) > SchedulingClass(T, k)
           \/ SchedulingClass(T, j) = SchedulingClass(T, k) /\ j < k})

PlaceableDomains(T) == {Llc(T, k) : k \in Placeable(T)}
Index(T, d) == Cardinality({e \in PlaceableDomains(T) : e < d})

\* spread_indices: the domains of the first pass, at even distances.
FirstPass(domains, requested) ==
    LET n == IF requested < domains THEN requested ELSE domains
    IN {(i * domains) \div n : i \in 0 .. n - 1}

\* The pass that takes a core: after the first one, each takes the next core
\* of every domain, in the order of the domains.
Pass(T, k, first) ==
    Depth(T, k) + IF Index(T, Llc(T, k)) \in first THEN 0 ELSE 1

\* Mutant: the domains one after the other.
SelectedInOrder(T, requested) ==
    {k \in Placeable(T) :
        Cardinality({j \in Placeable(T) :
            \/ Llc(T, j) < Llc(T, k)
            \/ Llc(T, j) = Llc(T, k) /\ Depth(T, j) < Depth(T, k)})
        < requested}

\* select_spread_physical_cores
Selected(T, requested) ==
    LET first == FirstPass(Cardinality(PlaceableDomains(T)), requested)
        Before(j, k) ==
            \/ Pass(T, j, first) < Pass(T, k, first)
            \/ /\ Pass(T, j, first) = Pass(T, k, first)
               /\ Llc(T, j) < Llc(T, k)
    IN {k \in Placeable(T) :
            Cardinality({j \in Placeable(T) : Before(j, k)}) < requested}

AssignableCores(T) == Selected(T, Unlimited(T))

-----------------------------------------------------------------------------
\* The system reserve

ReserveTarget(total, percent, minimum, maximum) ==
    IF total <= 1 \/ percent = 0 \/ maximum = 0 THEN 0
    ELSE LET share == Max({(total * percent + 99) \div 100, minimum})
         IN Min({share, maximum, total - 1})

\* plan_system_reserve: the cores, whose siblings are all reserved.
Reserve(T, percent, minimum, maximum) ==
    Selected(T,
        ReserveTarget(Cardinality(PhysicalCores(T)), percent, minimum, maximum))

\* excluding_reserved_cpu_sets: the topology policies place on.
Excluding(T, cores) ==
    {IF cpu.core \in cores
     THEN [cpu EXCEPT !.flags =
              (@ \ {"allocated_to_target_process"}) \cup {"allocated"}]
     ELSE cpu : cpu \in T}

-----------------------------------------------------------------------------
\* Plans for applications

\* Without SMT a core gives its best processor.
Thread(T, k) ==
    CHOOSE cpu \in {c \in Siblings(T, k) : Assignable(c)} :
        \A other \in {c \in Siblings(T, k) : Assignable(c)} :
            \/ cpu.scheduling > other.scheduling
            \/ /\ cpu.scheduling = other.scheduling
               /\ cpu.processor <= other.processor

\* plan_spread_partition; no ids is no plan.
Partition(T, cores, smt) ==
    LET selected == Selected(T, cores)
    IN [cores |-> selected,
        ids |-> IF smt
                THEN Ids({cpu \in T : cpu.core \in selected /\ Assignable(cpu)})
                ELSE Ids({Thread(T, k) : k \in selected})]

\* plan_assignment with DomainSelector::Auto: most CPU Sets, then the fastest
\* class, then the first domain.
BestDomain(T, preference) ==
    LET Domains == {cpu.llc : cpu \in T}
        Count(d) == Cardinality(ClassIds(T, d, preference))
        Class(d) == Max({0} \cup {cpu.efficiency : cpu \in DomainCpus(T, d)})
        Better(d, e) ==
            \/ Count(d) > Count(e)
            \/ Count(d) = Count(e) /\ Class(d) > Class(e)
    IN CHOOSE d \in Domains : \A e \in Domains :
            Better(d, e) \/ (~ Better(e, d) /\ d <= e)

\* plan_assignment; no ids is the error NoAssignableCpuSets.
Assignment(T, preference) ==
    LET d == BestDomain(T, preference)
    IN [domain |-> d, ids |-> ClassIds(T, d, preference)]
=============================================================================
