-------------------------- MODULE PlacementJournal --------------------------
(***************************************************************************)
(* CPU Set placement and its ownership journal: how the controller thread  *)
(* of winsched-service assigns processes to CPU Set lists, remembers in    *)
(* managed-state.json which assignments are its own, and clears them.      *)
(*                                                                         *)
(* Unlike BackgroundJournal, which writes its journal first, placement     *)
(* changes the process first and journals the change afterwards, and it    *)
(* recognises its assignments by comparing CPU Set lists.                  *)
(*                                                                         *)
(* The policy engine is abstract here: it may decide whatever evaluate_    *)
(* process can answer for such an observation. A process is identified by  *)
(* PID and creation time, which every platform call verifies.              *)
(*                                                                         *)
(* Two variables are auxiliary: no guard reads them. `mine` has the        *)
(* processes whose list WinSched was the last to write, `stray` those of   *)
(* which the code may lose track, by one of four events:                   *)
(*   - a crash after the assignment and before it is in the file,          *)
(*   - a managed process that a tick does not observe as it is,            *)
(*   - an assignment that cannot be read back,                             *)
(*   - an assignment that could be neither journaled nor taken back.       *)
(* A process is no stray any more once a new assignment is in memory.      *)
(***************************************************************************)
EXTENDS Naturals

CONSTANTS
    Keys,          (* processes, identified by PID and creation time       *)
    StrictKeys,    (* those a rule with strict placement names             *)
    Domains,       (* last-level-cache domains                             *)
    Reserved,      (* those whose CPU Sets all belong to the reserve the   *)
                   (* configuration sets aside for the system              *)
    Lists,         (* the non-empty CPU Set lists                          *)
    DomainOf,      (* the domain all CPU Sets of a list belong to, if any  *)
    Free,          (* the empty list: no default CPU Sets                  *)
    None,
    MaxMutations,  (* policy.max_mutations_per_evaluation                  *)
    MaxFaults,     (* bound: failing system calls                          *)
    MaxCrashes,    (* bound: crashes of the service                        *)
    MaxWrites,     (* bound: assignments by outsiders                      *)
    Modes          (* the controller modes of the configuration files      *)

\* ManagedPlacement. A schema-1 journal has no list: it is learnt later.
Placement == [anchor : Domains, list : Lists \cup {Free}]

\* The part of ObservedProcess that matters here; `mine` is auxiliary.
Observation == [list : Lists \cup {Free}, excluded : BOOLEAN, mine : BOOLEAN]

ASSUME PlacementAssumption ==
    /\ StrictKeys \subseteq Keys /\ Reserved \subseteq Domains
    /\ DomainOf \in [Lists -> Domains \cup {None}]
    /\ Free \notin Lists
    /\ None \notin Domains \cup Placement \cup Observation
    /\ MaxMutations \in Nat \ {0} /\ MaxFaults \in Nat
    /\ MaxCrashes \in Nat /\ MaxWrites \in Nat
    /\ Modes \subseteq {"auto", "observe", "off"}

VARIABLES
    \* the processes
    born, alive,
    cur,        (* the default CPU Sets of each                            *)
    mine, stray,
    \* the files of the service
    disk,       (* managed-state.json                                      *)
    enabled,    (* runtime-state.json: scheduling_enabled                  *)
    \* the controller thread
    pc,
    mode,       (* config.controller_mode, or "default": the configuration *)
                (* after a file that could not be loaded, Observe without  *)
                (* any rule                                                *)
    after,      (* where the thread goes once the journal is written       *)
    managed,    (* the placements in memory                                *)
    seen,       (* what the current tick observed of each process          *)
    todo,       (* the processes the current loop has still to visit       *)
    changed,    (* reconcile_managed has changed a placement               *)
    budget,     (* the mutations left to the current evaluation            *)
    call,       (* the local variables of one platform call                *)
    \* the bounds used up
    spent

world == <<born, alive, cur, mine, stray>>
files == <<disk, enabled>>
thread == <<pc, mode, after, managed, seen, todo, changed, budget, call>>
vars == <<world, files, thread, spent>>

Managed(m) == {k \in Keys : m[k] # None}

NoCall == [key |-> None, list |-> Free, anchor |-> None, previous |-> Free,
           wasMine |-> FALSE, then |-> "none"]

Fault == /\ spent.faults < MaxFaults
         /\ spent' = [spent EXCEPT !.faults = @ + 1]

\* domain_for_cpu_set_ids
Domain(list) == IF list = Free THEN None ELSE DomainOf[list]

\* A placement stands for this observed list.
Recognises(r, list) ==
    IF r.list = Free THEN Domain(list) = r.anchor ELSE list = r.list

Store(k, r) == managed' = [managed EXCEPT ![k] = r]

Goto(label) == pc' = label

PersistThen(label) == pc' = "persist" /\ after' = label

\* After a rejected configuration the tick goes on.
Resumed(label) == IF label = "reloaded" THEN "idle" ELSE label

\* Call cleanup_managed, which returns early when there is nothing to clear.
EnterCleanup(placements, label) ==
    /\ todo' = Managed(placements)
    /\ IF Managed(placements) = {} THEN Goto(Resumed(label)) /\ after' = "idle"
       ELSE Goto("cleanup") /\ after' = label

\* Ask the platform to give process k the list; `then` names the caller.
Ask(k, list, anchor, then) ==
    /\ call' = [NoCall EXCEPT !.key = k, !.list = list, !.anchor = anchor,
                              !.then = then]
    /\ Goto("replace")

-----------------------------------------------------------------------------
\* An older version, which wrote schema-1 journals, may have left processes
\* assigned.
Init ==
    /\ \E legacy \in SUBSET Keys :
       \E list \in {l \in Lists : DomainOf[l] # None} :
          /\ born = legacy /\ alive = legacy /\ mine = legacy
          /\ stray = {}
          /\ cur = [k \in Keys |-> IF k \in legacy THEN list ELSE Free]
          /\ disk = [k \in Keys |->
                        IF k \in legacy
                        THEN [anchor |-> DomainOf[list], list |-> Free]
                        ELSE None]
    /\ enabled \in BOOLEAN
    /\ pc = "stopped" /\ mode = "default" /\ after = "idle"
    /\ managed = [k \in Keys |-> None]
    /\ seen = [k \in Keys |-> None]
    /\ todo = {} /\ changed = FALSE /\ budget = 0 /\ call = NoCall
    /\ spent = [faults |-> 0, crashes |-> 0, writes |-> 0]

-----------------------------------------------------------------------------
\* Processes and outsiders

Birth(k) ==
    /\ k \notin born
    /\ born' = born \cup {k} /\ alive' = alive \cup {k}
    /\ UNCHANGED <<cur, mine, stray, files, thread, spent>>

Exit(k) ==
    /\ k \in alive
    /\ alive' = alive \ {k}
    /\ UNCHANGED <<born, cur, mine, stray, files, thread, spent>>

\* The service would take this list of process k for its own.
Claimed(k, list) ==
    \/ managed[k] # None /\ Recognises(managed[k], list)
    \/ disk[k] # None /\ Recognises(disk[k], list)
    \/ call.key = k /\ list = call.list

\* Lists carry no author: the guarantees are about the lists an outsider
\* chooses that the service cannot take for its own.
OutsiderAssigns(k, list) ==
    /\ spent.writes < MaxWrites
    /\ k \in alive /\ list # cur[k] /\ ~ Claimed(k, list)
    /\ cur' = [cur EXCEPT ![k] = list]
    /\ mine' = mine \ {k}
    /\ spent' = [spent EXCEPT !.writes = @ + 1]
    /\ UNCHANGED <<born, alive, stray, files, thread>>

-----------------------------------------------------------------------------
\* Start, crash and commands

\* controller_mutations_active and controller_evaluation_active
MutationsActive == mode = "auto" /\ enabled
EvaluationActive == mode \in {"observe", "default"} \/ MutationsActive

\* The service starts with a configuration file that can be loaded. Without a
\* mutation to make it clears what the last run left, and so it does when the
\* loop ends before its first tick.
Start ==
    /\ pc = "stopped"
    /\ mode' \in Modes /\ managed' = disk
    /\ UNCHANGED <<world, files, seen, changed, budget, call>>
    /\ \/ MutationsActive' /\ Goto("idle") /\ UNCHANGED <<after, todo, spent>>
       \/ ~ MutationsActive' /\ EnterCleanup(disk, "idle") /\ UNCHANGED spent
       \/ Fault /\ EnterCleanup(disk, "stopped")

\* An assignment was made and is not in the journal yet.
Unjournaled ==
    \/ pc \in {"readback", "persist"} /\ call.list # Free
    \/ pc \in {"replace", "set", "readback"} /\ call.then = "rollback"

Crash ==
    /\ pc # "stopped"
    /\ spent.crashes < MaxCrashes
    /\ spent' = [spent EXCEPT !.crashes = @ + 1]
    /\ Goto("stopped")
    /\ stray' = IF Unjournaled THEN stray \cup {call.key} ELSE stray
    /\ managed' = [k \in Keys |-> None] /\ seen' = [k \in Keys |-> None]
    /\ mode' = "default" /\ after' = "idle" /\ todo' = {}
    /\ changed' = FALSE /\ budget' = 0 /\ call' = NoCall
    /\ UNCHANGED <<born, alive, cur, mine, files>>

\* The command Stop, or an error that ends the loop.
Stop ==
    /\ pc = "idle"
    /\ EnterCleanup(managed, "stopped")
    /\ UNCHANGED <<world, files, mode, managed, seen, changed, budget, call,
                   spent>>

\* Writing runtime-state.json, or the status after it, fails.
CommandFails(choice) ==
    /\ Fault /\ EnterCleanup(managed, "stopped")
    /\ enabled' \in {enabled, choice}

Enable ==
    /\ pc = "idle"
    /\ \/ enabled' = TRUE /\ UNCHANGED <<pc, after, todo, spent>>
       \/ CommandFails(TRUE)
    /\ UNCHANGED <<world, disk, mode, managed, seen, changed, budget, call>>

Disable ==
    /\ pc = "idle"
    /\ \/ enabled' = FALSE /\ EnterCleanup(managed, "idle") /\ UNCHANGED spent
       \/ CommandFails(FALSE)
    /\ UNCHANGED <<world, disk, mode, managed, seen, changed, budget, call>>

\* A tick finds another configuration file,
Reload ==
    /\ pc = "idle"
    /\ mode' \in Modes \ {mode}
    /\ UNCHANGED <<world, files, pc, after, managed, seen, todo, changed,
                   budget, call, spent>>

\* or one that cannot be loaded: everything is cleared, and the tick goes on
\* whether or not the journal could be written.
FailClosed ==
    /\ pc = "idle"
    /\ mode' = "default"
    /\ EnterCleanup(managed, "reloaded")
    /\ UNCHANGED <<world, files, managed, seen, changed, budget, call, spent>>

\* A tick while the evaluation is not active retries the cleanup.
TickInactive ==
    /\ pc = "idle" /\ ~ EvaluationActive
    /\ EnterCleanup(managed, "idle")
    /\ UNCHANGED <<world, files, mode, managed, seen, changed, budget, call,
                   spent>>

-----------------------------------------------------------------------------
\* One evaluation: observe, reconcile_managed, then decide and enforce

\* observe_processes. A process that cannot be opened is observed under
\* another key; one whose CPU Sets cannot be read is observed without any.
Tick ==
    /\ pc = "idle" /\ EvaluationActive
    /\ \E hidden, unread, excluded \in SUBSET alive :
          /\ hidden \cap unread = {}
          /\ unread \subseteq excluded
          /\ \/ hidden \cup unread = {} /\ UNCHANGED spent
             \/ hidden \cup unread # {} /\ Fault
          /\ seen' = [k \in Keys |->
                        IF k \in alive \ hidden
                        THEN [list     |-> IF k \in unread THEN Free
                                           ELSE cur[k],
                              excluded |-> k \in excluded,
                              mine     |-> k \in mine]
                        ELSE None]
          /\ stray' = stray \cup ((hidden \cup unread) \cap Managed(managed))
    /\ todo' = Managed(managed) /\ changed' = FALSE
    /\ budget' = MaxMutations
    /\ Goto("reconcile")
    /\ UNCHANGED <<born, alive, cur, mine, files, mode, after, managed, call>>

\* Mutant: only a cleared list counts as overridden.
OverriddenIfCleared(k) ==
    seen[k] # None /\ seen[k].list = Free

\* reconcile_managed finds another list than the placement's.
Overridden(k) ==
    seen[k] # None /\ ~ Recognises(managed[k], seen[k].list)

ReconcileDrop(k) ==
    /\ pc = "reconcile" /\ k \in todo
    /\ seen[k] = None \/ Overridden(k)
    /\ Store(k, None)
    /\ todo' = todo \ {k} /\ changed' = TRUE
    /\ UNCHANGED <<world, files, pc, mode, after, seen, budget, call, spent>>

\* A recognised placement learns its list; an excluded process is cleared.
ReconcileKeep(k) ==
    /\ pc = "reconcile" /\ k \in todo
    /\ seen[k] # None /\ ~ Overridden(k)
    /\ Store(k, [managed[k] EXCEPT !.list = seen[k].list])
    /\ changed' = (changed \/ managed[k].list = Free)
    /\ todo' = todo \ {k}
    /\ IF seen[k].excluded THEN Ask(k, Free, None, "reconcile")
       ELSE UNCHANGED <<pc, call>>
    /\ UNCHANGED <<world, files, mode, after, seen, budget, spent>>

\* The policy is due: its interval has passed, and the loads were sampled.
EndReconcile ==
    /\ pc = "reconcile" /\ todo = {}
    /\ todo' = {k \in Keys : seen[k] # None /\ ~ seen[k].excluded}
    /\ changed' = FALSE
    /\ IF changed THEN PersistThen("decide")
       ELSE Goto("decide") /\ UNCHANGED after
    /\ UNCHANGED <<world, files, mode, managed, seen, budget, call, spent>>

\* run_background_safety_tick on its own: it reconciles and decides nothing.
EndSafetyTick ==
    /\ pc = "reconcile" /\ todo = {}
    /\ seen' = [k \in Keys |-> None] /\ budget' = 0
    /\ changed' = FALSE
    /\ IF changed THEN PersistThen("idle")
       ELSE Goto("idle") /\ UNCHANGED after
    /\ UNCHANGED <<world, files, mode, managed, todo, call, spent>>

\* build_ranked_observations: the placement of a managed process is Off
\* unless the mode is Auto.
TurnedOff(k) == managed[k] # None /\ mode # "auto"

\* The configuration in force has a strict rule for k.
StrictRule(k) == k \in StrictKeys /\ mode # "default"

\* evaluate_process may place k: it is managed, unassigned or strict.
Assignable(k) ==
    managed[k] # None \/ seen[k].list = Free \/ StrictRule(k)

\* Mutant: the limit admits one mutation too many.
WithinLimitAndOne == budget >= 0

WithinLimit == budget > 0

\* Mutant: it is set whatever the mode.
EnforcedAlways(k) == TRUE

\* The flag of an assignment: resolve gives Apply in the mode Auto only, and
\* strict_decision sets it whatever the mode. Whether scheduling is enabled
\* does not enter: the mode Observe evaluates either way.
Enforced(k) == mode = "auto" \/ StrictRule(k)

\* Assign or Move: the list of a domain, or a partition that is anchored at
\* one and spans several.
DecideAssign(k) ==
    /\ pc = "decide" /\ k \in todo
    /\ ~ TurnedOff(k) /\ Enforced(k) /\ WithinLimit /\ Assignable(k)
    /\ \E list \in Lists, anchor \in Domains :
          /\ DomainOf[list] \in {anchor, None} /\ anchor \notin Reserved
          /\ Ask(k, list, anchor, "decide")
    /\ todo' = todo \ {k} /\ budget' = budget - 1
    /\ UNCHANGED <<world, files, mode, after, managed, seen, changed, spent>>

\* The observation of a managed process has a current domain: its anchor, as
\* long as a CPU Set of the anchor may be assigned.
Anchored(k) == managed[k] # None /\ managed[k].anchor \notin Reserved

\* A managed process whose placement is Off is cleared; in the mode Auto its
\* rule may say so, or be gone.
DecideClear(k) ==
    /\ pc = "decide" /\ k \in todo
    /\ Anchored(k) /\ WithinLimit
    /\ Ask(k, Free, None, "decide")
    /\ todo' = todo \ {k} /\ budget' = budget - 1
    /\ UNCHANGED <<world, files, mode, after, managed, seen, changed, spent>>

\* Mutant: a placement that is Off may stay.
StaysOff(k) == TRUE

Stays(k) == ~ TurnedOff(k) \/ ~ Anchored(k) \/ ~ WithinLimit

\* Ignore, Keep and RateLimited.
DecideKeep(k) ==
    /\ pc = "decide" /\ k \in todo /\ Stays(k)
    /\ todo' = todo \ {k}
    /\ UNCHANGED <<world, files, pc, mode, after, managed, seen, changed,
                   budget, call, spent>>

EndTick ==
    /\ pc = "decide" /\ todo = {}
    /\ Goto("idle")
    /\ seen' = [k \in Keys |-> None] /\ budget' = 0
    /\ UNCHANGED <<world, files, mode, after, managed, todo, changed, call,
                   spent>>

-----------------------------------------------------------------------------
\* replace_default_cpu_sets and what its callers do with the result

\* Mutant: a placement is let go of whatever becomes of it.
ReleasedAnyway(ok, gone) == TRUE

\* reconcile_managed and cleanup_managed let go of the placement.
Released(ok, gone) == ok \/ gone

\* The call returns: it succeeded, or it failed, with the process gone or not.
Outcome(ok, gone) ==
    \/ /\ call.then = "decide" /\ ok
       /\ Store(call.key, IF call.list = Free THEN None
                          ELSE [anchor |-> call.anchor, list |-> call.list])
       /\ PersistThen("decide")
       /\ UNCHANGED <<call, todo, changed>>
    \/ /\ call.then = "decide" /\ ~ ok
       /\ Goto("decide") /\ call' = NoCall
       /\ UNCHANGED <<managed, after, todo, changed>>
    \/ /\ call.then = "reconcile"
       /\ IF Released(ok, gone) THEN Store(call.key, None) /\ changed' = TRUE
          ELSE UNCHANGED <<managed, changed>>
       /\ Goto("reconcile") /\ call' = NoCall
       /\ UNCHANGED <<after, todo>>
    \/ /\ call.then = "cleanup"
       /\ IF Released(ok, gone) THEN Store(call.key, None)
          ELSE UNCHANGED managed
       /\ Goto("cleanup") /\ call' = NoCall
       /\ UNCHANGED <<after, todo, changed>>
    \/ /\ call.then = "rollback"
       /\ Store(call.key, None)
       /\ EnterCleanup(managed', "stopped") /\ call' = NoCall
       /\ UNCHANGED changed

Lost(lost) == stray' = IF lost THEN stray \cup {call.key} ELSE stray

\* The process cannot be opened, or its list not be read.
Refuse ==
    /\ pc = "replace"
    /\ \/ call.key \notin alive /\ Outcome(FALSE, TRUE) /\ UNCHANGED spent
       \/ call.key \in alive /\ Fault /\ Outcome(FALSE, FALSE)
    /\ Lost(call.then = "rollback")
    /\ UNCHANGED <<born, alive, cur, mine, files, mode, seen, budget>>

\* The list to go back to is read first.
Query ==
    /\ pc = "replace" /\ call.key \in alive
    /\ call' = [call EXCEPT !.previous = cur[call.key],
                            !.wasMine = call.key \in mine]
    /\ Goto("set")
    /\ UNCHANGED <<world, files, mode, after, managed, seen, todo, changed,
                   budget, spent>>

SetFails ==
    /\ pc = "set"
    /\ \/ call.key \notin alive /\ UNCHANGED spent
       \/ call.key \in alive /\ Fault
    /\ Outcome(FALSE, FALSE)
    /\ Lost(call.then = "rollback")
    /\ UNCHANGED <<born, alive, cur, mine, files, mode, seen, budget>>

Replace ==
    /\ pc = "set" /\ call.key \in alive
    /\ cur' = [cur EXCEPT ![call.key] = call.list]
    /\ mine' = IF call.list = Free THEN mine \ {call.key}
               ELSE mine \cup {call.key}
    /\ Goto("readback")
    /\ UNCHANGED <<born, alive, stray, files, mode, after, managed, seen, todo,
                   changed, budget, call, spent>>

ReadBack ==
    /\ pc = "readback"
    /\ call.key \in alive /\ cur[call.key] = call.list
    /\ Outcome(TRUE, FALSE)
    /\ stray' = stray \ {call.key}
    /\ UNCHANGED <<born, alive, cur, mine, files, mode, seen, budget, spent>>

\* The read-back fails: an error, and no attempt to undo the change.
ReadBackFails ==
    /\ pc = "readback"
    /\ \/ call.key \notin alive /\ UNCHANGED spent
       \/ call.key \in alive /\ Fault
    /\ Outcome(FALSE, FALSE)
    /\ Lost(call.list # Free)
    /\ UNCHANGED <<born, alive, cur, mine, files, mode, seen, budget>>

\* An outsider was faster: the previous list is put back, if Windows lets it.
RollBack ==
    /\ pc = "readback"
    /\ call.key \in alive /\ cur[call.key] # call.list
    /\ \/ /\ cur' = [cur EXCEPT ![call.key] = call.previous]
          /\ mine' = IF call.wasMine THEN mine \cup {call.key}
                     ELSE mine \ {call.key}
          /\ UNCHANGED spent
       \/ Fault /\ UNCHANGED <<cur, mine>>
    /\ Outcome(FALSE, FALSE)
    /\ Lost(call.then = "rollback")
    /\ UNCHANGED <<born, alive, files, mode, seen, budget>>

-----------------------------------------------------------------------------
\* cleanup_managed and the journal file

CleanupNext(k) ==
    /\ pc = "cleanup" /\ k \in todo
    /\ todo' = todo \ {k}
    /\ Ask(k, Free, None, "cleanup")
    /\ UNCHANGED <<world, files, mode, after, managed, seen, changed, budget,
                   spent>>

EndCleanup ==
    /\ pc = "cleanup" /\ todo = {}
    /\ Goto("persist")
    /\ UNCHANGED <<world, files, mode, after, managed, seen, todo, changed,
                   budget, call, spent>>

Persist ==
    /\ pc = "persist"
    /\ disk' = managed
    /\ Goto(Resumed(after)) /\ after' = "idle" /\ call' = NoCall
    /\ UNCHANGED <<world, enabled, mode, managed, seen, todo, changed, budget,
                   spent>>

\* The journal cannot be written.
Undone == call.list # Free

\* An assignment that could not be journaled is cleared,
PersistUndoes ==
    /\ pc = "persist" /\ Undone /\ Fault
    /\ Ask(call.key, Free, None, "rollback")
    /\ UNCHANGED <<world, files, mode, after, managed, seen, todo, changed,
                   budget>>

\* a rejected configuration goes on, the final cleanup ends all the same, and
\* any other failure ends the loop: the final cleanup tries once more.
PersistFails ==
    /\ pc = "persist" /\ ~ Undone /\ Fault
    /\ call' = NoCall
    /\ IF after \in {"reloaded", "stopped"}
       THEN Goto(Resumed(after)) /\ after' = "idle" /\ UNCHANGED todo
       ELSE EnterCleanup(managed, "stopped")
    /\ UNCHANGED <<world, files, mode, managed, seen, changed, budget>>

-----------------------------------------------------------------------------
Environment ==
    \/ \E k \in Keys : Birth(k) \/ Exit(k)
    \/ \E k \in Keys, list \in Lists \cup {Free} : OutsiderAssigns(k, list)
    \/ Crash \/ Stop \/ Enable \/ Disable \/ Reload \/ FailClosed

Evaluation ==
    \/ \E k \in Keys : \/ ReconcileDrop(k) \/ ReconcileKeep(k)
                       \/ DecideAssign(k) \/ DecideClear(k) \/ DecideKeep(k)
    \/ EndReconcile \/ EndSafetyTick \/ EndTick

PlatformCall ==
    \/ Refuse \/ Query \/ SetFails \/ Replace
    \/ ReadBack \/ ReadBackFails \/ RollBack

Controller ==
    \/ Start \/ TickInactive \/ Tick \/ Evaluation \/ PlatformCall
    \/ \E k \in Keys : CleanupNext(k)
    \/ EndCleanup \/ Persist \/ PersistUndoes \/ PersistFails

Next == Environment \/ Controller

Spec == Init /\ [][Next]_vars

\* As for BackgroundJournal: the thread keeps running, and the service
\* manager starts the service again, as does who repairs the configuration
\* file. However many safety ticks come before it, the policy is due once its
\* interval has passed.
FairSpec == Spec /\ WF_vars(Controller) /\ SF_vars(EndReconcile)

-----------------------------------------------------------------------------
(***************************************************************************)
(* Properties                                                              *)
(***************************************************************************)

Labels == {"stopped", "idle", "reconcile", "decide", "replace", "set",
           "readback", "cleanup", "persist"}

Afters == {"idle", "stopped", "decide", "reloaded"}

Call == [key : Keys \cup {None}, list : Lists \cup {Free},
         anchor : Domains \cup {None}, previous : Lists \cup {Free},
         wasMine : BOOLEAN,
         then : {"none", "decide", "reconcile", "cleanup", "rollback"}]

\* The types of the variables.
TypeOK ==
    /\ born \subseteq Keys /\ alive \subseteq born /\ mine \subseteq born
    /\ stray \subseteq Keys
    /\ cur \in [Keys -> Lists \cup {Free}]
    /\ disk \in [Keys -> Placement \cup {None}]
    /\ enabled \in BOOLEAN
    /\ pc \in Labels /\ mode \in Modes \cup {"default"}
    /\ after \in Afters
    /\ managed \in [Keys -> Placement \cup {None}]
    /\ seen \in [Keys -> Observation \cup {None}]
    /\ todo \subseteq Keys /\ changed \in BOOLEAN
    /\ budget \in 0 .. MaxMutations
    /\ call \in Call
    /\ spent \in [faults : 0 .. MaxFaults, crashes : 0 .. MaxCrashes,
                  writes : 0 .. MaxWrites]

\* The placements that survive if the service crashes now, or that the
\* running service knows of.
Known(k) == IF pc = "stopped" THEN disk[k] ELSE managed[k]

\* The current call has written the list of k and not yet read it back.
InHand(k) == call.key = k /\ pc = "readback"

\* Nothing is forgotten but what one of the four events at the head of this
\* module has struck since it was assigned. Every other assignment that the
\* service made and nobody replaced is known to the service, as one that the
\* next reconciliation recognises and the next cleanup clears: README.md says
\* it "persists owned assignments, clears them on shutdown or disable" and
\* "recovers safely after an interrupted run".
NothingForgotten ==
    \A k \in (alive \cap mine) \ stray :
        InHand(k) \/ (Known(k) # None /\ Recognises(Known(k), cur[k]))

\* "External CPU Set assignments are not overridden unless a rule explicitly
\* uses strict mode" (README.md): an evaluation changes only processes that
\* it observed unassigned or with the assignment of the service.
ExternalObserved ==
    [][\A k \in alive \ StrictKeys :
          /\ call.key = k /\ pc = "set" /\ pc' = "readback"
          /\ call.then \in {"decide", "reconcile"} /\ cur'[k] # cur[k]
          => seen[k].list = Free \/ seen[k].mine]_vars

\* "observe evaluates and logs decisions without changing CPU Sets", "auto
\* allows enforcement; the tray can then enable or disable scheduling"
\* (README.md): once the configuration and the tray together never allow
\* enforcement again, the assignments of the service are gone for good, those
\* excepted that it has lost track of.
ClearedAfterDisable ==
    <>[](~ MutationsActive) => <>[]((alive \cap mine) \ stray = {})

-----------------------------------------------------------------------------
(***************************************************************************)
(* The inductive invariant behind the safety properties                    *)
(***************************************************************************)

\* The placement r, if there is one, stands for the list.
Holds(r, list) == r # None /\ Recognises(r, list)

Calling == pc \in {"replace", "set", "readback"}
Reconciling == pc = "reconcile" \/ (Calling /\ call.then = "reconcile")
Deciding == \/ pc = "decide" \/ (Calling /\ call.then = "decide")
            \/ pc = "persist" /\ after = "decide"
Cleaning == pc = "cleanup" \/ (Calling /\ call.then = "cleanup")

\* The local variables of a call are in use while it lasts, and an assignment's
\* until it is in the journal; only decisions assign.
CallOK ==
    /\ ~ Calling /\ pc # "persist" => call = NoCall
    /\ Calling => call.key \in Keys \ todo /\ call.then # "none"
    /\ call.list # Free =>
        /\ call.key \in Keys \ todo /\ call.anchor \in Domains
        /\ call.then = "decide" /\ (pc = "persist" => after = "decide")
    /\ Reconciling => \A k \in todo : managed[k] # None
    /\ Cleaning => after # "decide"

\* What the service would take for its own assignment is its own, in the
\* process and in what a rollback would put back.
OwnOK ==
    /\ \A k \in Keys :
        Holds(managed[k], cur[k]) \/ Holds(disk[k], cur[k]) => k \in mine
    /\ /\ pc \in {"set", "readback"}
       /\ \/ Holds(managed[call.key], call.previous)
          \/ Holds(disk[call.key], call.previous)
       => call.wasMine
    /\ pc = "readback" /\ call.list # Free /\ cur[call.key] = call.list
        => call.key \in mine

\* A placement that survives reconciliation stands for what was observed, which
\* was the service's own.
ObservedOK ==
    /\ Reconciling =>
        \A k \in Keys : seen[k] # None =>
            /\ Holds(managed[k], seen[k].list) => seen[k].mine
            /\ k \notin todo /\ managed[k] # None
                => Holds(managed[k], seen[k].list)
    /\ Deciding =>
        \A k \in todo : seen[k] # None /\ (managed[k] # None => seen[k].mine)
    /\ pc \in {"replace", "set"} /\ call.then \in {"decide", "reconcile"}
        /\ call.key \notin StrictKeys
        => seen[call.key].list = Free \/ seen[call.key].mine

\* A process of the service that is no stray has been observed as it is when
\* its reconciliation comes,
SeenOK ==
    Reconciling =>
        \A k \in (todo \cap alive \cap mine) \ stray :
            seen[k] # None /\ seen[k].list = cur[k]

\* its list is recognised by the file, unless it is the assignment being made
\* or taken back, and by the memory,
JournalOK ==
    \A k \in (alive \cap mine) \ stray :
        /\ (Unjournaled /\ call.key = k) \/ Holds(disk[k], cur[k])
        /\ pc = "stopped" \/ InHand(k) \/ Holds(managed[k], cur[k])

\* and so is what a rollback would put back.
HandOK ==
    /\ pc \in {"set", "readback"} =>
        /\ call.key \in born
        /\ call.key \in alive \ stray /\ call.wasMine =>
            /\ Holds(managed[call.key], call.previous)
            /\ call.then # "rollback" => Holds(disk[call.key], call.previous)
    /\ pc = "readback" /\ call.key \in mine =>
        cur[call.key] = call.list /\ call.list # Free

OwnershipInv == TypeOK /\ CallOK /\ OwnOK /\ ObservedOK
JournalInv == SeenOK /\ JournalOK /\ HandOK
=============================================================================
