--------------------------- MODULE Responsiveness ---------------------------
(***************************************************************************)
(* How many cores the system keeps and how many a memory-bound workload    *)
(* gets: the reserve planned from the configuration, the latency probe     *)
(* whose thread fills a window of samples, and the width controller that   *)
(* shrinks and expands the workload's partition.                           *)
(*                                                                         *)
(* Lateness is a class: 0 is within latency_recovery_p99_us, 1 within      *)
(* latency_target_p99_us, 2 above. So is the greater of the DPC and the    *)
(* interrupt share of the busiest domain. Time is counted in intervals of  *)
(* evaluation.                                                             *)
(***************************************************************************)
EXTENDS Topology, Sequences

CONSTANTS
    Topologies,     (* the snapshots system_topology may return             *)
    Configs,        (* the configurations a reload may load                 *)
    DefaultConfig,  (* ControllerConfig::default, of a rejected file        *)
    None,
    MinSamples,     (* MIN_LATENCY_SAMPLES                                  *)
    Capacity,       (* LATENCY_PROBE_WINDOW_SAMPLES                         *)
    Percentile,     (* of the window, 99 in the code                        *)
    ShrinkBy,       (* the width shrinks by one part of so many             *)
    MaxGap,         (* bound: intervals from one evaluation to the next     *)
    MaxReloads      (* bound: reloads                                       *)

Classes == 0 .. 2

\* validate: what a loaded configuration satisfies.
Valid(c) ==
    /\ c.minReserved >= 1 /\ c.minReserved <= c.maxReserved
    /\ c.minCores >= 1 /\ c.minCores <= c.maxCores
    /\ c.percent >= 1 /\ c.stability >= 1 /\ c.cooldown >= 1

ConfigType ==
    [enabled : BOOLEAN, guard : BOOLEAN, percent : Nat, minReserved : Nat,
     maxReserved : Nat, minCores : Nat, maxCores : Nat, stability : Nat,
     cooldown : Nat, smt : BOOLEAN]

ASSUME ResponsivenessAssumption ==
    /\ \A T \in Topologies : IsTopology(T) /\ IsFiniteSet(T)
    /\ Configs \cup {DefaultConfig} \subseteq {c \in ConfigType : Valid(c)}
    /\ IsFiniteSet(Configs) /\ ~ DefaultConfig.enabled
    /\ None \notin Nat
    /\ MinSamples \in Nat \ {0} /\ Capacity \in Nat /\ Capacity >= MinSamples
    /\ Percentile \in 1 .. 100 /\ ShrinkBy \in Nat \ {0}
    /\ MaxGap \in Nat \ {0} /\ MaxReloads \in Nat

VARIABLES
    topology,     (* fixed at the start of the service                      *)
    config,
    width,        (* AdaptiveWidthController                                *)
    enabled,      (* the flag the probe's thread reads                      *)
    window,       (* the samples, oldest first                              *)
    pc,           (* of the controller: "ready", or a reload's next step    *)
    probe,        (* of the probe's thread: "asleep", or about to record    *)
    reloads,
    readings,     (* auxiliary: the last readings under this configuration  *)
    fresh         (* auxiliary: how many of them followed the last change   *)

plan == <<topology, config>>
vars == <<plan, width, enabled, window, pc, probe, reloads, readings, fresh>>

-----------------------------------------------------------------------------
\* Plans

Guarded(c) == c.enabled /\ c.guard

\* system_reserve_plan
ReserveOf(T, c) ==
    IF c.enabled THEN Reserve(T, c.percent, c.minReserved, c.maxReserved)
    ELSE {}

\* adaptive_width_config
MaximumOf(V, c) == Min({c.maxCores, Cardinality(AssignableCores(V))})

AllConfigurations == Configs \cup {DefaultConfig}

\* Mutant: the bounds are those of the whole topology.
PlanOfWhole(T, c) ==
    LET R == ReserveOf(T, c)
        most == MaximumOf(T, c)
    IN [reserve |-> R, view |-> Excluding(T, R),
        maximum |-> most, minimum |-> Min({c.minCores, most})]

\* What the loop plans when it starts and after every reload.
PlanOf(T, c) ==
    LET R == ReserveOf(T, c)
        V == Excluding(T, R)
        most == MaximumOf(V, c)
    IN [reserve |-> R, view |-> V,
        maximum |-> most, minimum |-> Min({c.minCores, most})]

Plans == [T \in Topologies |-> [c \in AllConfigurations |-> PlanOf(T, c)]]
Plan == Plans[topology][config]

-----------------------------------------------------------------------------
\* The width controller

NewWidth(P) ==
    [cores |-> P.maximum, elevated |-> 0, recovered |-> 0,
     since |-> None, pressure |-> "unknown"]

\* reconfigure
Reconfigured(w, P, c) ==
    IF ~ Guarded(c) THEN NewWidth(P)
    ELSE [w EXCEPT !.cores = Max({P.minimum, Min({@, P.maximum})}),
                   !.elevated = 0, !.recovered = 0]

\* nearest_rank
Rank(count) == (count * Percentile + 99) \div 100

\* The p99 of a window: the least class that covers so many samples.
P99(samples) ==
    LET Covered(l) ==
            Cardinality({i \in DOMAIN samples : samples[i].late <= l})
    IN Min({l \in Classes : Covered(l) >= Rank(Len(samples))})

\* What an evaluation reads from the window and the interrupt shares.
Reading(samples, interrupts) ==
    IF Len(samples) < MinSamples THEN "unknown"
    ELSE CASE P99(samples) = 2 \/ interrupts = 2 -> "elevated"
           [] P99(samples) = 0 /\ interrupts = 0 -> "recovered"
           [] OTHER -> "between"

UpTo(limit, n) == IF n < limit THEN n ELSE limit

\* Mutant: the readings before one between the thresholds still count.
ObservedLoosely(w, c, reading) ==
    [w EXCEPT
        !.elevated = IF reading = "elevated" THEN UpTo(c.stability, @ + 1)
                     ELSE IF reading = "between" THEN @ ELSE 0,
        !.recovered = IF reading = "recovered" THEN UpTo(c.stability, @ + 1)
                      ELSE IF reading = "between" THEN @ ELSE 0]

\* The streaks after a reading. Above stability_samples they make no
\* difference and stop.
Observed(w, c, reading) ==
    [w EXCEPT
        !.pressure = CASE reading = "unknown" -> "unknown"
                       [] reading = "elevated" -> "elevated"
                       [] OTHER -> "normal",
        !.elevated =
            IF reading = "elevated" THEN UpTo(c.stability, @ + 1) ELSE 0,
        !.recovered =
            IF reading = "recovered" THEN UpTo(c.stability, @ + 1) ELSE 0]

Cooling(w, c) == w.since # None /\ w.since < c.cooldown

ShrinkStep(cores) == Max({1, (cores + ShrinkBy - 1) \div ShrinkBy})

\* Mutant: a share rounded down, which is none for a small width.
ShrunkByShare(w, least) ==
    [w EXCEPT !.cores = Max({least, @ - @ \div ShrinkBy}),
              !.elevated = 0, !.since = 0]

Shrunk(w, least) ==
    [w EXCEPT !.cores = Max({least, @ - ShrinkStep(@)}),
              !.elevated = 0, !.since = 0]

Expanded(w) ==
    [w EXCEPT !.cores = @ + 1, !.recovered = 0, !.since = 0]

\* evaluate
Evaluated(w, P, c, reading) ==
    LET o == Observed(w, c, reading)
    IN IF ~ Guarded(c) THEN Observed(w, c, "unknown")
       ELSE IF reading = "unknown" \/ Cooling(o, c) THEN o
       ELSE IF o.elevated >= c.stability /\ o.cores > P.minimum
            THEN Shrunk(o, P.minimum)
       ELSE IF o.recovered >= c.stability /\ o.cores < P.maximum
            THEN Expanded(o)
       ELSE o

\* The clock, up to the longest cooldown there is.
LongestCooldown == Max({c.cooldown : c \in AllConfigurations})
Aged(w, gap) ==
    IF w.since = None THEN w
    ELSE [w EXCEPT !.since = UpTo(LongestCooldown, @ + gap)]

-----------------------------------------------------------------------------
\* The controller thread

Init ==
    /\ topology \in Topologies
    /\ config \in AllConfigurations
    /\ width = NewWidth(Plan)
    /\ enabled = Guarded(config)
    /\ window = <<>>
    /\ pc = "ready" /\ probe = "asleep"
    /\ reloads = 0
    /\ readings = <<>> /\ fresh = 0

\* A reload that is not Unchanged: a new configuration, the default in place
\* of a rejected one, or the old one again. The flag is swapped; the window
\* is cleared, under its own lock, when the flag has changed.
Reload ==
    /\ pc = "ready" /\ reloads < MaxReloads
    /\ reloads' = reloads + 1
    /\ config' \in AllConfigurations
    /\ enabled' = Guarded(config')
    /\ window' = [i \in DOMAIN window |->
                    [window[i] EXCEPT !.stale = @ \/ enabled' # enabled]]
    /\ probe' = IF enabled' # enabled /\ probe = "record" THEN "record stale"
                ELSE probe
    /\ pc' = IF enabled' # enabled THEN "clear" ELSE "resize"
    /\ UNCHANGED <<topology, width, readings, fresh>>

Clear ==
    /\ pc = "clear"
    /\ window' = <<>>
    /\ pc' = "resize"
    /\ UNCHANGED <<plan, width, enabled, probe, reloads, readings, fresh>>

Resize ==
    /\ pc = "resize"
    /\ width' = Reconfigured(width, Plan, config)
    /\ readings' = <<>> /\ fresh' = 0
    /\ pc' = "ready"
    /\ UNCHANGED <<plan, enabled, window, probe, reloads>>

Longest == Max({c.stability : c \in AllConfigurations})

\* One evaluation of the policy.
Evaluate ==
    /\ pc = "ready"
    /\ \E gap \in 1 .. MaxGap, interrupts \in Classes :
        LET reading == Reading(window, interrupts)
            all == Append(readings, reading)
        IN /\ width' = Evaluated(Aged(width, gap), Plan, config, reading)
           /\ readings' = IF Len(all) > Longest THEN Tail(all) ELSE all
           /\ fresh' = IF width'.cores # width.cores THEN 0
                       ELSE UpTo(Longest, fresh + 1)
    /\ UNCHANGED <<plan, enabled, window, pc, probe, reloads>>

-----------------------------------------------------------------------------
\* The probe's thread

\* It wakes and reads the flag.
Wake ==
    /\ probe = "asleep" /\ enabled
    /\ probe' = "record"
    /\ UNCHANGED <<plan, width, enabled, window, pc, reloads, readings, fresh>>

Recorded(samples, sample) ==
    Append(IF Len(samples) = Capacity THEN Tail(samples) ELSE samples, sample)

\* It records how late it was, even if the flag has changed since.
Record ==
    /\ probe # "asleep"
    /\ \E late \in Classes :
        window' = Recorded(window,
                    [late |-> late, stale |-> probe = "record stale"])
    /\ probe' = "asleep"
    /\ UNCHANGED <<plan, width, enabled, pc, reloads, readings, fresh>>

Next == Reload \/ Clear \/ Resize \/ Evaluate \/ Wake \/ Record

Spec == Init /\ [][Next]_vars
\* Each thread goes on: the controller's waits end with the interval, the
\* probe's with its deadline.
FairSpec ==
    Spec /\ WF_vars(Clear \/ Resize \/ Evaluate) /\ WF_vars(Wake \/ Record)

-----------------------------------------------------------------------------
\* Properties

\* Types and bounds: the width is within what the configuration and the
\* topology for policies allow, and the window within its capacity.
TypeOK ==
    /\ topology \in Topologies /\ config \in AllConfigurations
    /\ width.pressure \in {"unknown", "normal", "elevated"}
    /\ pc = "ready" =>
        /\ width.cores \in Plan.minimum .. Plan.maximum
        /\ width.elevated \in 0 .. config.stability
        /\ width.recovered \in 0 .. config.stability
    /\ Len(window) <= Capacity
    /\ pc \in {"ready", "clear", "resize"}
    /\ probe \in {"asleep", "record", "record stale"}

\* The reserve is as large as asked for, leaves a physical core outside, is
\* spread evenly over the last-level caches until one of them is exhausted,
\* and takes the best cores of each (plan_system_reserve).
SpreadOf(T, c) ==
    LET R == Plans[T][c].reserve
        Held(d) == {k \in R : Llc(T, k) = d}
        Left(d) == {k \in Placeable(T) \ R : Llc(T, k) = d}
        asked == ReserveTarget(Cardinality(PhysicalCores(T)),
                    c.percent, c.minReserved, c.maxReserved)
    IN IF ~ c.enabled THEN R = {}
       ELSE /\ Cardinality(R) = Min({asked, Cardinality(Placeable(T))})
            /\ PhysicalCores(T) # {} => PhysicalCores(T) \ R # {}
            /\ \A d, e \in PlaceableDomains(T) :
                \/ Cardinality(Held(d)) <= Cardinality(Held(e)) + 1
                \/ Left(e) = {}
            /\ \A d \in PlaceableDomains(T) :
                \A k \in Held(d), j \in Left(d) :
                    SchedulingClass(T, k) >= SchedulingClass(T, j)
Spread == [T \in Topologies |-> [c \in AllConfigurations |-> SpreadOf(T, c)]]
ReserveSpread == Spread[topology][config]

\* Between two ticks the width in force can be had: the partition planned for
\* the memory profile has that many cores, one thread of each unless SMT is
\* used, and neither it nor any other plan, for a domain or for all cores,
\* touches the reserve or a CPU Set that Windows withholds.
FitOf(T, c, cores) ==
    LET V == Plans[T][c].view
        P == Partition(V, cores, c.smt)
        free == Ids({cpu \in T :
                        Assignable(cpu) /\ cpu.core \notin Plans[T][c].reserve})
    IN /\ Cardinality(P.cores) = cores
       /\ ~ c.smt => Cardinality(P.ids) = cores
       /\ c.smt => P.ids = Ids({u \in V : u.core \in P.cores /\ Assignable(u)})
       /\ P.ids \cup Partition(V, Unlimited(V), TRUE).ids \subseteq free
       /\ \A preference \in {"Any", "Fastest", "MostEfficient"} :
            LET A == Assignment(V, preference)
            IN /\ \A d \in {u.llc : u \in V} :
                    ClassIds(V, d, preference) \subseteq free
               /\ A.ids = {} => free = {}
               /\ A.ids # {} => IsWithinOneDomain(T, A.ids)
Fits ==
    [T \in Topologies |-> [c \in AllConfigurations |->
        {n \in 0 .. Unlimited(T) : FitOf(T, c, n)}]]
WidthFits == pc = "ready" => width.cores \in Fits[topology][config]

\* An evaluation changes the width only after stability_samples readings of
\* the same kind, all of them since the last change and under the
\* configuration in force, a cooldown after the last change, and from a
\* window in which at most one sample is older than the probe's enabling.
WidthEarned ==
    [][LET Since(kind) ==
               /\ fresh + 1 >= config.stability
               /\ Len(readings') >= config.stability
               /\ \A i \in 0 .. config.stability - 1 :
                    readings'[Len(readings') - i] = kind
       IN (pc = "ready" /\ pc' = "ready" /\ width'.cores # width.cores) =>
            /\ IF width'.cores < width.cores THEN Since("elevated")
               ELSE width'.cores = width.cores + 1 /\ Since("recovered")
            /\ width.since # None => width.since + MaxGap >= config.cooldown
            /\ Len(window) >= MinSamples
            /\ Cardinality({i \in DOMAIN window : window[i].stale}) <= 1]_vars

\* Once the readings stay the same, the width reaches its bound.
Steadily(kind) ==
    <>[](Guarded(config) /\ \A i \in DOMAIN readings : readings[i] = kind)
WidthSettles ==
    /\ Steadily("elevated") => <>[](width.cores = Plan.minimum)
    /\ Steadily("recovered") => <>[](width.cores = Plan.maximum)
=============================================================================
