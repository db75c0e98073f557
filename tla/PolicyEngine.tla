---------------------------- MODULE PolicyEngine ----------------------------
(***************************************************************************)
(* The placement policy: which process goes to which last-level-cache      *)
(* domain, and when it may move. An evaluation looks at the processes one  *)
(* by one, busiest first, and gives orders within a budget; every order is *)
(* provisional (pending) until its system call is acknowledged. Streak,    *)
(* residency and cooldown keep a process from moving back and forth.       *)
(*                                                                         *)
(* The journal of assignments is the subject of PlacementJournal; here     *)
(* held[k] stands for it and for what Windows reports of the process.      *)
(* Processes that are only to be observed, whose orders are simulated, are *)
(* left out. Times are in evaluation intervals, loads in steps.            *)
(***************************************************************************)
EXTENDS Integers, FiniteSets

CONSTANTS
    Processes,
    Domains,         (* LlcDomainKey, ordered as the code breaks ties      *)
    None,
    Loads,           (* utilization of a domain                            *)
    Threshold,       (* overload_threshold_bps                             *)
    MinImprovement,  (* minimum_improvement_bps                            *)
    Stability,       (* stability_samples                                  *)
    Residency,       (* minimum_residency_ms                               *)
    Cooldown,        (* cooldown_ms                                        *)
    MaxMutations,    (* max_mutations_per_evaluation                       *)
    StrictTarget,    (* the domain of strict rules                         *)
    Ordered,         (* domains whose CPU Set ids increase with the index  *)
                     (* of the logical processor                           *)
    Rules,           (* the configurations: functions from processes to    *)
                     (* placement modes                                    *)
    Opens,           (* the reserve plans: sets of domains that keep an    *)
                     (* assignable CPU Set                                 *)
    MaxGap,          (* bound: intervals from one evaluation to the next   *)
    MaxTroubles      (* bound: changes of the environment, failing calls   *)

Modes == {"Off", "Sticky", "Auto", "Partition", "Strict"}

ASSUME PolicyAssumption ==
    /\ IsFiniteSet(Processes)
    /\ Domains \subseteq Nat /\ IsFiniteSet(Domains) /\ None \notin Domains
    /\ Loads \subseteq Nat /\ Loads # {}
    /\ Threshold \in Nat /\ MinImprovement \in Nat
    /\ Stability \in Nat \ {0} /\ MaxMutations \in Nat \ {0}
    /\ Residency \in Nat /\ Cooldown \in Nat
    /\ StrictTarget \in Domains /\ Ordered \subseteq Domains
    /\ Rules \subseteq [Processes -> Modes] /\ Opens \subseteq SUBSET Domains
    /\ MaxGap \in Nat \ {0} /\ MaxTroubles \in Nat

VARIABLES
    \* the world and the configuration
    mode,     (* placement mode of each process; "Partition" is Auto with  *)
              (* the profile Memory or Compute                             *)
    open,     (* domains with an assignable CPU Set                        *)
    anchor,   (* first domain of the partition of such profiles            *)
    loads,
    status,   (* "busy"; "idle", below the activity threshold; "barred",   *)
              (* excluded; "gone"                                          *)
    held,     (* who assigned CPU Sets to the process, where, and whether  *)
              (* its list is not the one the plan has now                  *)
    \* the controller
    engine,   (* ProcessState, None without an entry                       *)
    pc, todo, budget, orders,
    \* auxiliary: what really happened to the process
    past,     (* hot samples in a row, time in its domain, time since the  *)
              (* service moved it                                          *)
    spent     (* the bound used up                                         *)

config == <<mode, open, anchor>>
world == <<loads, status>>
thread == <<pc, todo, budget, orders>>
vars == <<config, world, held, engine, thread, past, spent>>

-----------------------------------------------------------------------------
\* Ages stop at the limit they are compared with.
UpTo(limit, n) == IF n < limit THEN n ELSE limit

Nowhere == [by |-> "nobody", at |-> None, stale |-> FALSE]
Mine(k) == held[k].by = "service"

\* A rule that places the process with its profile's partition; there is
\* none when nothing is assignable.
Spread(k) == mode[k] = "Partition" /\ open # {}

\* The domain the observation names: that of an outsider's list, or the
\* anchor of the service's own while it can still be assigned.
Seen(k) ==
    IF Mine(k) /\ ~ Spread(k) /\ held[k].at \notin open THEN None
    ELSE held[k].at

\* The list in force is compared with the planned one, as sequences. Windows'
\* is sorted by id, that of a domain by logical processor.
RefreshRequired(k) ==
    Mine(k) /\ (held[k].stale \/ (~ Spread(k) /\ held[k].at \notin Ordered))

\* Only what is managed is observed when it is idle or excluded.
Observed(k) == status[k] = "busy" \/ (status[k] # "gone" /\ Mine(k))

\* least_loaded_domain
LeastLoaded(S) ==
    CHOOSE d \in S : \A e \in S :
        loads[d] < loads[e] \/ (loads[d] = loads[e] /\ d <= e)

-----------------------------------------------------------------------------
\* The state of a process in the engine

\* ProcessState::new; a process never moved counts as moved long ago.
NewState(d) ==
    [current |-> d, since |-> 0, moved |-> Cooldown, streak |-> 0,
     pending |-> "none", target |-> None]

\* The entry of the process, reconciled with the observation.
Entry(k) ==
    IF engine[k] = None THEN NewState(Seen(k))
    ELSE IF engine[k].current = Seen(k) THEN engine[k]
    ELSE [NewState(Seen(k)) EXCEPT !.moved = engine[k].moved]

\* Mutant: any answer, or none, ends a pending set only.
AcknowledgedSets(s, order, succeeded) ==
    IF order.kind = "clear" THEN s
    ELSE [s EXCEPT !.pending = "none", !.target = None]

\* acknowledge: an answer that matches what is pending ends it. A refresh in
\* place restarts the residency, not the cooldown.
Acknowledged(s, order, succeeded) ==
    IF s.pending # order.kind \/ s.target # order.target THEN s
    ELSE IF ~ succeeded THEN [s EXCEPT !.pending = "none", !.target = None]
    ELSE [NewState(order.target) EXCEPT
             !.moved = IF s.current = order.target THEN s.moved ELSE 0]

-----------------------------------------------------------------------------
\* evaluate_process: the order a process gets, if any

Set(k, d, why) == {[key |-> k, kind |-> "set", target |-> d, why |-> why]}
Clear(k) == {[key |-> k, kind |-> "clear", target |-> None, why |-> "off"]}
Nothing == {}

\* The process is placed by load, so its domain's load is a sample.
Adaptive(k) ==
    /\ status[k] # "barred" /\ held[k].by # "outsider"
    /\ mode[k] = "Auto" \/ (mode[k] = "Partition" /\ ~ Spread(k))
    /\ Seen(k) # None /\ ~ RefreshRequired(k) /\ Entry(k).pending = "none"

Hot(k) == loads[held[k].at] >= Threshold

\* Mutant: a cool sample does not end the streak.
StreakKept(k) ==
    IF ~ Adaptive(k) \/ ~ Hot(k) THEN Entry(k).streak
    ELSE UpTo(Stability, Entry(k).streak + 1)

Streak(k) ==
    IF ~ Adaptive(k) THEN Entry(k).streak
    ELSE IF Hot(k) THEN UpTo(Stability, Entry(k).streak + 1)
    ELSE 0

\* Mutant: any alternative will do.
ImprovesAlways(from, to) == TRUE

\* saturating_sub
Improves(from, to) ==
    (IF loads[from] > loads[to] THEN loads[from] - loads[to] ELSE 0)
        >= MinImprovement

\* adaptive_existing_decision
Better(k) ==
    LET others == open \ {Seen(k)} IN
    IF /\ Hot(k) /\ Streak(k) >= Stability
       /\ Entry(k).since >= Residency /\ Entry(k).moved >= Cooldown
       /\ others # {} /\ Improves(Seen(k), LeastLoaded(others))
    THEN Set(k, LeastLoaded(others), "better") ELSE Nothing

\* ProfilePartitionStable
Stable(k) == Mine(k) /\ ~ RefreshRequired(k)

Placement(k) ==
    IF Spread(k) THEN
        IF Stable(k) THEN Nothing ELSE Set(k, anchor, "partition")
    ELSE IF RefreshRequired(k) /\ Seen(k) # None THEN
        Set(k, Seen(k), "refresh")
    ELSE IF mode[k] = "Strict" THEN
        IF StrictTarget \in open /\ Seen(k) # StrictTarget
        THEN Set(k, StrictTarget, "strict") ELSE Nothing
    ELSE IF Seen(k) = None THEN
        IF open # {} THEN Set(k, LeastLoaded(open), "initial") ELSE Nothing
    ELSE IF mode[k] = "Sticky" THEN Nothing
    ELSE Better(k)

Decision(k) ==
    IF status[k] = "barred" THEN Nothing
    ELSE IF mode[k] = "Off" THEN
        IF Mine(k) /\ Seen(k) # None THEN Clear(k) ELSE Nothing
    ELSE IF held[k].by = "outsider" /\ mode[k] # "Strict" THEN Nothing
    ELSE IF Entry(k).pending # "none" THEN Nothing
    ELSE Placement(k)

-----------------------------------------------------------------------------
\* The controller thread

Init ==
    /\ mode \in Rules /\ open \in Opens
    /\ anchor \in IF open = {} THEN {None} ELSE open
    /\ loads \in [Domains -> Loads]
    /\ status = [k \in Processes |-> "busy"]
    /\ held = [k \in Processes |-> Nowhere]
    /\ engine = [k \in Processes |-> None]
    /\ pc = "idle" /\ todo = {} /\ budget = MaxMutations /\ orders = {}
    /\ past = [k \in Processes |->
                  [hot |-> 0, resident |-> 0, rested |-> Cooldown]]
    /\ spent = 0

\* The snapshot of an evaluation, gap intervals after the last one.
\* reconcile_managed has cleared the excluded processes before, save those
\* whose call fails.
Observe(gap) ==
    /\ pc = "idle"
    /\ UNCHANGED <<config, world, orders>>
    /\ \E kept \in SUBSET {k \in Processes : Mine(k) /\ status[k] = "barred"} :
          /\ spent' = spent + Cardinality(kept) /\ spent' <= MaxTroubles
          /\ held' = [k \in Processes |->
                         IF Mine(k) /\ status[k] = "barred" /\ k \notin kept
                         THEN Nowhere ELSE held[k]]
          /\ past' = [k \in Processes |->
                [past[k] EXCEPT
                    !.hot = IF held'[k].at = held[k].at THEN @ ELSE 0,
                    !.resident = IF held'[k].at = held[k].at
                                 THEN UpTo(Residency, @ + gap) ELSE 0,
                    !.rested = UpTo(Cooldown, @ + gap)]]
    /\ todo' = {k \in Processes : Observed(k)'}
    /\ engine' = [k \in Processes |->
          IF k \notin todo' \/ engine[k] = None THEN None
          ELSE [engine[k] EXCEPT !.since = UpTo(Residency, @ + gap),
                                 !.moved = UpTo(Cooldown, @ + gap)]]
    /\ pc' = "evaluate" /\ budget' = MaxMutations

\* Mutant: off by one.
WithinBudgetAndOne(n) == n + 1 > 0

WithinBudget(n) == n > 0

Decide(k) ==
    /\ pc = "evaluate" /\ k \in todo
    /\ todo' = todo \ {k}
    /\ past' = [past EXCEPT ![k].hot =
                   IF ~ Adaptive(k) THEN @
                   ELSE IF Hot(k) THEN UpTo(Stability, @ + 1) ELSE 0]
    /\ LET entry == [Entry(k) EXCEPT !.streak = Streak(k)]
           given == IF WithinBudget(budget) THEN Decision(k) ELSE Nothing
       IN  /\ orders' = orders \cup given
           /\ budget' = budget - Cardinality(given)
           /\ engine' = [engine EXCEPT ![k] =
                 IF given = Nothing THEN entry
                 ELSE LET o == CHOOSE o \in given : TRUE IN
                      [entry EXCEPT !.pending = o.kind, !.target = o.target]]
    /\ UNCHANGED <<config, world, held, pc, spent>>

EndEvaluation ==
    /\ pc = "evaluate" /\ todo = {}
    /\ pc' = IF orders = {} THEN "idle" ELSE "enforce"
    /\ UNCHANGED <<config, world, held, engine, todo, budget, orders, past,
                   spent>>

\* enforce_decision and finish_enforcement
Finish(o, succeeded) ==
    /\ orders' = orders \ {o}
    /\ pc' = IF orders' = {} THEN "idle" ELSE "enforce"
    /\ engine' = [engine EXCEPT ![o.key] = Acknowledged(@, o, succeeded)]

Enforce(o) ==
    /\ pc = "enforce" /\ o \in orders
    /\ held' = [held EXCEPT ![o.key] =
          IF o.kind = "clear" THEN Nowhere
          ELSE [by |-> "service", at |-> o.target, stale |-> FALSE]]
    /\ past' = [past EXCEPT ![o.key] =
          IF held[o.key].at = o.target THEN @
          ELSE [hot |-> 0, resident |-> 0, rested |-> 0]]
    /\ Finish(o, TRUE)
    /\ UNCHANGED <<config, world, todo, budget, spent>>

EnforceFails(o) ==
    /\ pc = "enforce" /\ o \in orders
    /\ spent < MaxTroubles /\ spent' = spent + 1
    /\ Finish(o, FALSE)
    /\ UNCHANGED <<config, world, held, todo, budget, past>>

Controller ==
    \/ \E gap \in 1 .. MaxGap : Observe(gap)
    \/ \E k \in Processes : Decide(k)
    \/ EndEvaluation
    \/ \E o \in orders : Enforce(o) \/ EnforceFails(o)

-----------------------------------------------------------------------------
\* The environment, between two evaluations

Change ==
    /\ pc = "idle" /\ spent < MaxTroubles /\ spent' = spent + 1
    /\ UNCHANGED thread

LoadsChange ==
    /\ Change
    /\ loads' \in [Domains -> Loads] /\ loads' # loads
    /\ UNCHANGED <<config, status, held, engine, past>>

ActivityChanges(k) ==
    /\ Change
    /\ status[k] # "gone"
    /\ \E s \in {"busy", "idle", "barred"} \ {status[k]} :
          status' = [status EXCEPT ![k] = s]
    /\ UNCHANGED <<config, loads, held, engine, past>>

Exit(k) ==
    /\ Change
    /\ status[k] # "gone" /\ status' = [status EXCEPT ![k] = "gone"]
    /\ held' = [held EXCEPT ![k] = Nowhere]
    /\ UNCHANGED <<config, loads, engine, past>>

\* Another program assigns CPU Sets, those of a domain or of several, or takes
\* its own assignment back. reconcile_managed drops the service's record of
\* the process before the next evaluation.
OutsiderAssigns(k) ==
    /\ Change
    /\ status[k] # "gone"
    /\ \/ \E d \in Domains \cup {None} :
             held' = [held EXCEPT ![k] =
                         [by |-> "outsider", at |-> d, stale |-> FALSE]]
       \/ held[k].by # "nobody" /\ held' = [held EXCEPT ![k] = Nowhere]
    /\ past' = [past EXCEPT ![k].hot = 0, ![k].resident = 0]
    /\ UNCHANGED <<config, world, engine>>

\* The width controller changes the partition of the profile Memory.
WidthChanges ==
    /\ Change
    /\ open # {} /\ anchor' \in open
    /\ held' = [k \in Processes |->
          IF Mine(k) /\ Spread(k) THEN [held[k] EXCEPT !.stale = TRUE]
          ELSE held[k]]
    /\ UNCHANGED <<mode, open, world, engine, past>>

\* A reload, a disable and enable, or a restart builds a new engine, which
\* knows of no move. Some assignments have been cleared before, the lists of
\* others may no longer be the planned ones, and are not where nothing is
\* assignable any more.
Rebuild ==
    /\ Change
    /\ mode' \in Rules /\ open' \in Opens
    /\ anchor' \in IF open' = {} THEN {None} ELSE open'
    /\ engine' = [k \in Processes |-> None]
    /\ \E cleared, changed \in SUBSET {k \in Processes : Mine(k)} :
          /\ {k \in Processes : Mine(k) /\ held[k].at \notin open'} \subseteq
                cleared \cup changed
          /\ held' = [k \in Processes |->
                IF k \in cleared THEN Nowhere
                ELSE [held[k] EXCEPT !.stale = @ \/ k \in changed]]
          /\ past' = [k \in Processes |->
                [hot |-> IF k \in cleared THEN 0 ELSE past[k].hot,
                 resident |-> IF k \in cleared THEN 0 ELSE past[k].resident,
                 rested |-> Cooldown]]
    /\ UNCHANGED world

Environment ==
    \/ LoadsChange \/ WidthChanges \/ Rebuild
    \/ \E k \in Processes :
          ActivityChanges(k) \/ Exit(k) \/ OutsiderAssigns(k)

Next == Controller \/ Environment

Spec == Init /\ [][Next]_vars

\* The loop waits for its interval only, and an evaluation runs to its end.
FairSpec == Spec /\ WF_vars(Controller)

-----------------------------------------------------------------------------
States ==
    [current : Domains \cup {None}, since : 0 .. Residency,
     moved : 0 .. Cooldown, streak : 0 .. Stability,
     pending : {"none", "set", "clear"}, target : Domains \cup {None}]

ASSUME NoneAssumption == None \notin States

Orders ==
    [key : Processes, kind : {"set", "clear"}, target : Domains \cup {None},
     why : {"off", "partition", "refresh", "strict", "initial", "better"}]

\* Types; with them the rate limit: never more orders than the budget.
TypeOK ==
    /\ mode \in Rules /\ open \in Opens /\ anchor \in open \cup {None}
    /\ loads \in [Domains -> Loads]
    /\ status \in [Processes -> {"busy", "idle", "barred", "gone"}]
    /\ held \in [Processes -> [by : {"nobody", "service", "outsider"},
                               at : Domains \cup {None}, stale : BOOLEAN]]
    /\ engine \in [Processes -> States \cup {None}]
    /\ pc \in {"idle", "evaluate", "enforce"}
    /\ todo \subseteq Processes
    /\ orders \subseteq Orders
    /\ budget \in 0 .. MaxMutations
    /\ past \in [Processes -> [hot : 0 .. Stability, resident : 0 .. Residency,
                               rested : 0 .. Cooldown]]
    /\ spent \in 0 .. MaxTroubles

\* What is pending in the engine is what the thread still has to try: an
\* answer that does not match its order, or none, would leave the process
\* without decisions for good.
Answered ==
    \A k \in Processes : engine[k] # None =>
        (engine[k].pending # "none") = (\E o \in orders : o.key = k)

\* "Consecutive overloaded samples required before a move", "Minimum time a
\* process remains in its assigned domain", "Minimum delay between moves of
\* the same process" (the settings application): a process is moved to a
\* better domain only after so many hot samples in a row in the domain it
\* really is in, so long after it came there and, since the engine was built,
\* after its last move.
MovesEarned ==
    \A o \in orders : o.why = "better" =>
        /\ past[o.key].hot >= Stability
        /\ past[o.key].resident >= Residency
        /\ past[o.key].rested >= Cooldown

\* Where the rule wants a process, if that can be.
AsRuled(k) ==
    /\ mode[k] = "Off" => ~ (Mine(k) /\ held[k].at \in open)
    /\ mode[k] = "Strict" /\ StrictTarget \in open =>
          held[k].at = StrictTarget
    /\ mode[k] \in {"Auto", "Sticky", "Partition"} /\ open # {} =>
          held[k].by = "outsider" \/ (held[k].at \in open /\ ~ held[k].stale)

\* "A reserve or profile change refreshes a managed process without
\* oscillation" (docs/threadripper-responsiveness-design.md): once loads,
\* activity and configuration stay as they are and calls succeed, every
\* active process comes to where its rule wants it, however they compete for
\* the budget, and no more orders are given.
Settles ==
    <>[](orders = {} /\ \A k \in Processes : status[k] = "busy" => AsRuled(k))
=============================================================================
