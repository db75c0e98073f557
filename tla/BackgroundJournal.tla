------------------------- MODULE BackgroundJournal -------------------------
(***************************************************************************)
(* The write-ahead ownership journal of background efficiency: how the     *)
(* controller thread of winsched-service changes EcoQoS and memory         *)
(* priority of processes it does not own, and gets them back.              *)
(*                                                                         *)
(* The controller is one thread. Its program counter `pc` stops between    *)
(* any two effects somebody else can see: a query of a process, a write of *)
(* one property, a replacement of background-state.json. Between two steps *)
(* the service may crash, a process may exit and its PID may be reused,    *)
(* and an outsider (Task Manager, another controller, the process itself)  *)
(* may write a property. Any system call may fail.                         *)
(*                                                                         *)
(* `base` is an auxiliary variable: the value an outsider last left in a   *)
(* property, which is what has to come back when WinSched lets go.         *)
(***************************************************************************)
EXTENDS EfficiencyRecord

CONSTANTS
    Keys,          (* processes, identified by PID and creation time       *)
    PidOf,         (* the PID of each                                      *)
    Choices,       (* per property, the values an outsider may write       *)
    Policies,      (* the configurations of the policy a tick may find     *)
    MaxMutations,  (* policy.max_mutations_per_evaluation                  *)
    MaxFaults,     (* bound: failing system calls                          *)
    MaxCrashes,    (* bound: crashes of the service                        *)
    MaxWrites,     (* bound: writes by outsiders                           *)
    Perils         (* what a run admits inside a platform call: an outsider *)
                   (* writes between the comparison and the write of a     *)
                   (* property ("check") or between its write and its      *)
                   (* verification ("readback"); the second query of a     *)
                   (* restore fails on an outsider's value ("requery")     *)

ASSUME JournalAssumption ==
    /\ Choices \in [Props -> SUBSET Value]
    /\ \A policy \in Policies :
          policy.configured \subseteq Props /\ policy.low \in BOOLEAN
    /\ MaxMutations \in Nat /\ MaxFaults \in Nat
    /\ MaxCrashes \in Nat /\ MaxWrites \in Nat
    /\ Perils \subseteq {"check", "readback", "requery"}
    /\ None \notin Record

VARIABLES
    \* the processes
    born, alive, cur, base,
    \* the files of the service
    disk,       (* background-state.json                                   *)
    enabled,    (* runtime-state.json: scheduling_enabled                  *)
    \* the controller thread
    pc,
    after,      (* where the thread goes once the journal is written       *)
    leaving,    (* the loop has ended and the final cleanup is running     *)
    managed,    (* the records in memory                                   *)
    streak,     (* consecutive clear samples of each process               *)
    todo,       (* the processes the current pass has still to visit       *)
    budget,     (* the mutations left to the current pass                  *)
    job,        (* the local variables of one visit                        *)
    call,       (* the local variables of one platform call                *)
    \* the bounds used up
    spent

world == <<born, alive, cur, base>>
files == <<disk, enabled>>
thread == <<pc, after, leaving, managed, streak, todo, budget, job, call>>
vars == <<world, files, thread, spent>>

\* BACKGROUND_CLEAR_STABILITY_SAMPLES
ClearSamples == 2

Verdicts == {"clear", "veto", "off"}

Managed(m) == {k \in Keys : m[k] # None}

-----------------------------------------------------------------------------
\* Idle values of the local variables of the thread

NoPolicy == [configured |-> {}, low |-> FALSE]
NoJob == [key |-> None, verdict |-> "off", policy |-> NoPolicy, seen |-> None,
          prior |-> {}, fresh |-> FALSE]
NoCall == [target |-> None, then |-> "none", original |-> None,
           applied |-> None, pending |-> None, own |-> {}, left |-> {},
           observed |-> None, unrestored |-> {}, external |-> {}]

Fault == /\ spent.faults < MaxFaults
         /\ spent' = [spent EXCEPT !.faults = @ + 1]

\* Mutant: the creation time is not compared.
VerifiedByPid(holder, k) == TRUE

\* The process that holds the PID of k is the one the key was made for.
Verified(holder, k) == holder = k

\* OpenProcess by PID, then verify_process_identity.
Opens(k, holder) == /\ holder \in alive
                    /\ PidOf[holder] = PidOf[k]
                    /\ Verified(holder, k)

Gone(k) == \A holder \in Keys : ~ Opens(k, holder)

NextProp(left) == IF "eco_qos" \in left THEN "eco_qos" ELSE "memory_priority"

\* Write value v to property p of the process behind the open handle.
Put(p, v) == cur' = [cur EXCEPT ![call.target][p] = v]

-----------------------------------------------------------------------------
\* Control flow of the thread

Goto(label) == pc' = label

\* Replace the journal by the records in memory, then go on at `label`.
PersistThen(label) == pc' = "persist" /\ after' = label

Store(k, r) == managed' = [managed EXCEPT ![k] = r]

\* The end of a cleanup pass.
Rest(leave) == IF leave THEN "stopped" ELSE "idle"

\* Call cleanup_background; an empty journal needs none.
EnterCleanup(records, leave) ==
    /\ leaving' = leave
    /\ todo' = Managed(records)
    /\ pc' = IF Managed(records) = {} THEN Rest(leave) ELSE "cleanup"

-----------------------------------------------------------------------------
Init ==
    /\ born = {} /\ alive = {}
    /\ cur = [k \in Keys |-> None]
    /\ base = [k \in Keys |-> None]
    /\ disk = [k \in Keys |-> None]
    /\ enabled \in BOOLEAN
    /\ pc = "stopped" /\ after = "idle" /\ leaving = FALSE
    /\ managed = [k \in Keys |-> None]
    /\ streak = [k \in Keys |-> 0]
    /\ todo = {} /\ budget = 0
    /\ job = NoJob /\ call = NoCall
    /\ spent = [faults |-> 0, crashes |-> 0, writes |-> 0]

-----------------------------------------------------------------------------
\* Processes and outsiders

\* A process is created; its PID may have belonged to one that exited.
Birth(k) ==
    /\ k \notin born
    /\ \A j \in alive : PidOf[j] # PidOf[k]
    /\ \E s \in {s \in State : \A p \in Props : s[p] \in Choices[p]} :
          /\ cur' = [cur EXCEPT ![k] = s]
          /\ base' = [base EXCEPT ![k] = s]
    /\ born' = born \cup {k} /\ alive' = alive \cup {k}
    /\ UNCHANGED <<files, thread, spent>>

Exit(k) ==
    /\ k \in alive
    /\ alive' = alive \ {k}
    /\ UNCHANGED <<born, cur, base, files, thread, spent>>

\* The values of property p of k the service would take for its own.
OwnValues(r, p) ==
    IF r = None \/ p \notin r.own THEN {}
    ELSE {r.applied[p]} \cup (IF r.pending = None THEN {} ELSE {r.pending[p]})

Deciding(k) == /\ job.key = k
               /\ pc = "decide" \/ (pc = "persist" /\ after = "decide")

Claimed(k, p) ==
    OwnValues(disk[k], p)
        \cup (IF pc = "stopped" THEN {} ELSE OwnValues(managed[k], p))
        \cup (IF Deciding(k)
              THEN {Desired(Rebase(managed[k], job.seen).original,
                            job.policy)[p]}
              ELSE {})

\* Property p of k was compared and is about to be written.
InCheck(k, p) ==
    /\ call.target = k
    /\ \/ pc = "set" /\ p \in call.left
       \/ pc = "restore" /\ p = NextProp(call.left)

\* An outsider writes a property. Values carry no author, so a value the
\* service would take for its own cannot be told from one it wrote: the
\* guarantees are about the other values.
OutsiderWrites(k, p, v) ==
    /\ spent.writes < MaxWrites
    /\ k \in alive /\ v # cur[k][p] /\ v \notin Claimed(k, p)
    /\ InCheck(k, p) => "check" \in Perils
    /\ cur' = [cur EXCEPT ![k][p] = v]
    /\ base' = [base EXCEPT ![k][p] = v]
    /\ spent' = [spent EXCEPT !.writes = @ + 1]
    /\ UNCHANGED <<born, alive, files, thread>>

-----------------------------------------------------------------------------
\* Start, crash and commands

Forgotten == /\ managed' = [k \in Keys |-> None]
             /\ streak' = [k \in Keys |-> 0]
             /\ todo' = {} /\ budget' = 0 /\ leaving' = FALSE
             /\ after' = "idle" /\ job' = NoJob /\ call' = NoCall

\* run_controller up to its loop. Unless mutations are active, the mode Auto
\* and scheduling enabled, it cleans up first; an initialisation that fails
\* after the journals were read cleans up and ends the service.
Start ==
    /\ pc = "stopped"
    /\ \A k \in Managed(disk) : Loadable(disk[k])
    /\ managed' = disk
    /\ streak' = [k \in Keys |-> 0]
    /\ \/ /\ enabled
          /\ Goto("idle") /\ leaving' = FALSE /\ UNCHANGED <<todo, spent>>
       \/ EnterCleanup(disk, FALSE) /\ UNCHANGED spent
       \/ Fault /\ EnterCleanup(disk, TRUE)
    /\ UNCHANGED <<world, files, after, budget, job, call>>

Crash ==
    /\ pc # "stopped"
    /\ spent.crashes < MaxCrashes
    /\ spent' = [spent EXCEPT !.crashes = @ + 1]
    /\ Goto("stopped") /\ Forgotten
    /\ UNCHANGED <<world, files>>

\* The command Stop, or an error that ends the loop before the journal is
\* touched.
Stop ==
    /\ pc = "idle"
    /\ EnterCleanup(managed, TRUE)
    /\ UNCHANGED <<world, files, after, managed, streak, budget, job, call,
                   spent>>

\* Writing runtime-state.json, or the status after it, fails: the loop ends.
CommandFails(choice) ==
    /\ Fault /\ EnterCleanup(managed, TRUE)
    /\ enabled' \in {enabled, choice}

Enable ==
    /\ pc = "idle"
    /\ \/ /\ enabled' = TRUE
          /\ UNCHANGED <<pc, leaving, todo, spent>>
       \/ CommandFails(TRUE)
    /\ UNCHANGED <<world, disk, after, managed, streak, budget, job, call>>

Disable ==
    /\ pc = "idle"
    /\ \/ /\ enabled' = FALSE
          /\ EnterCleanup(managed, FALSE)
          /\ UNCHANGED spent
       \/ CommandFails(FALSE)
    /\ streak' = [k \in Keys |-> 0]
    /\ UNCHANGED <<world, disk, after, managed, budget, job, call>>

\* A tick while the evaluation is not active, with the controller mode Off or
\* with scheduling disabled, retries the cleanup.
TickInactive ==
    /\ pc = "idle"
    /\ EnterCleanup(managed, FALSE)
    /\ streak' = [k \in Keys |-> 0]
    /\ UNCHANGED <<world, files, after, managed, budget, job, call, spent>>

-----------------------------------------------------------------------------
\* reconcile_background_efficiency

\* observe_processes. A process that cannot be opened is observed without
\* its creation time: its key is not live, but its PID protects the record.
\* The controller mode Observe evaluates while scheduling is disabled too.
Tick ==
    /\ pc = "idle"
    /\ \E opaque \in SUBSET alive :
          /\ \/ opaque = {} /\ UNCHANGED spent
             \/ opaque # {} /\ Fault
          /\ LET live == alive \ opaque
                 dead == {k \in Managed(managed) \ live :
                             \A j \in opaque : PidOf[j] # PidOf[k]}
             IN  /\ managed' = [k \in Keys |-> IF k \in dead THEN None
                                               ELSE managed[k]]
                 /\ streak' = [k \in Keys |-> IF k \in live THEN streak[k]
                                              ELSE 0]
                 /\ todo' = live
                 /\ IF dead = {} THEN Goto("scan") /\ UNCHANGED after
                    ELSE PersistThen("scan")
    /\ budget' = MaxMutations
    /\ UNCHANGED <<world, files, leaving, job, call>>

\* The loop over the observed processes takes the next one. The verdict is
\* "clear" when an exact Background rule applies and nothing protects the
\* process, "veto" when a foreground, visible or audio protection holds it
\* back, "off" when no rule applies or mutations are not active.
Visit(k, verdict, policy) ==
    /\ pc = "scan" /\ k \in todo
    /\ verdict # "off" => enabled
    /\ todo' = todo \ {k}
    /\ streak' = [streak EXCEPT ![k] =
                     IF verdict # "clear" THEN 0
                     ELSE IF @ < ClearSamples THEN @ + 1 ELSE @]
    /\ job' = [NoJob EXCEPT !.key = k, !.verdict = verdict, !.policy = policy]
    /\ Goto(IF managed[k] = None THEN "adopt"
            ELSE IF managed[k].pending # None THEN "resolve" ELSE "examine")
    /\ UNCHANGED <<world, files, after, leaving, managed, budget, call, spent>>

EndTick ==
    /\ pc = "scan" /\ todo = {}
    /\ Goto("idle") /\ job' = NoJob
    /\ UNCHANGED <<world, files, after, leaving, managed, streak, todo, budget,
                   call, spent>>

\* The first query of a recorded process finds it gone or fails.
QueryFails ==
    /\ pc \in {"resolve", "examine"}
    /\ \/ /\ Gone(job.key)
          /\ Store(job.key, None) /\ PersistThen("scan")
          /\ UNCHANGED spent
       \/ /\ Fault /\ Goto("scan")
          /\ UNCHANGED <<managed, after>>
    /\ UNCHANGED <<world, files, leaving, streak, todo, budget, job, call>>

\* The query after a resolved transaction gives up on any error.
RequeryFails ==
    /\ pc = "reexamine"
    /\ (Gone(job.key) /\ UNCHANGED spent) \/ Fault
    /\ Goto("scan")
    /\ UNCHANGED <<world, files, after, leaving, managed, streak, todo, budget,
                   job, call>>

\* Ask the platform to restore what record r owns; `then` says what the
\* thread does with the report.
AskRestore(r, pending, then) ==
    /\ call' = [NoCall EXCEPT !.then = then, !.original = r.original,
                              !.applied = r.applied, !.pending = pending,
                              !.own = r.own]
    /\ Goto("open")

\* A record with a pending transaction: find out what became of it.
Resolve ==
    /\ pc = "resolve"
    /\ \E holder \in Keys :
          /\ Opens(job.key, holder)
          /\ LET r == managed[job.key]
                 current == cur[holder]
             IN  \/ /\ InDoubt(r, current)
                    /\ AskRestore(r, r.pending, "recover")
                    /\ UNCHANGED <<managed, after>>
                 \/ /\ ~ InDoubt(r, current)
                    /\ Store(job.key, Resolved(r, current))
                    /\ PersistThen(IF r.own = {} THEN "scan" ELSE "reexamine")
                    /\ UNCHANGED call
    /\ UNCHANGED <<world, files, leaving, streak, todo, budget, job, spent>>

\* Give up the properties an outsider changed since the last tick.
Examine ==
    /\ pc \in {"examine", "reexamine"}
    /\ \E holder \in Keys :
          /\ Opens(job.key, holder)
          /\ LET r == managed[job.key]
                 changed == OverrideMask(r.applied, cur[holder], r.own)
             IN  /\ job' = [job EXCEPT !.seen = cur[holder]]
                 /\ IF changed = {}
                    THEN /\ Goto("decide")
                         /\ UNCHANGED <<managed, streak, after>>
                    ELSE /\ Store(job.key, Relinquish(r, cur[holder], changed))
                         /\ streak' = [streak EXCEPT ![job.key] = 0]
                         /\ PersistThen("decide")
    /\ UNCHANGED <<world, files, leaving, todo, budget, call, spent>>

\* Mutant: a record goes with its last owned property.
RetainedOwned(r) == r.own # {}

\* An external block outlives a veto, and nothing else that ends a policy.
Retained(r) ==
    \/ r.own # {}
    \/ job.verdict = "veto" /\ r.blocked # {}

Kept(r) == IF Retained(r) THEN r ELSE None

\* The process may not be managed now: let go of the record or restore.
LetGo ==
    /\ pc = "decide" /\ job.verdict # "clear"
    /\ LET r == managed[job.key] IN
       \/ /\ r.own = {}
          /\ Store(job.key, Kept(r))
          /\ PersistThen("scan")
          /\ UNCHANGED call
       \/ /\ r.own # {}
          /\ AskRestore(r, None, "veto")
          /\ UNCHANGED <<managed, after>>
    /\ UNCHANGED <<world, files, leaving, streak, todo, budget, job, spent>>

\* Write the intended transaction to the journal, then perform it.
Intend(r, desired, desiredOwn, fresh) ==
    /\ Store(job.key, Pending(r, desired, desiredOwn))
    /\ job' = [job EXCEPT !.prior = r.own, !.fresh = fresh]
    /\ budget' = budget - 1
    /\ PersistThen("apply")

\* The process may be managed: bring its record up to the policy.
Update ==
    /\ pc = "decide" /\ job.verdict = "clear"
    /\ LET r == Rebase(managed[job.key], job.seen)
           desired == Desired(r.original, job.policy)
           desiredOwn == DesiredOwn(r.original, job.policy, r.blocked)
           transaction == r.own \cup desiredOwn
           settled == /\ Matches(transaction, desired, r.applied)
                      /\ r.own = desiredOwn
           unstable == r.own = {} /\ streak[job.key] < ClearSamples
       IN  IF transaction = {}
           THEN /\ Store(job.key, r) /\ Goto("scan")
                /\ UNCHANGED <<after, budget, job>>
           ELSE IF settled \/ unstable \/ budget = 0
           THEN /\ Goto("scan")
                /\ UNCHANGED <<managed, after, budget, job>>
           ELSE Intend(r, desired, desiredOwn, FALSE)
    /\ UNCHANGED <<world, files, leaving, streak, todo, call, spent>>

\* A process without a record: take it up, or leave it alone.
Adopt ==
    /\ pc = "adopt"
    /\ job.verdict = "clear" /\ streak[job.key] >= ClearSamples /\ budget > 0
    /\ \E holder \in Keys :
          /\ Opens(job.key, holder)
          /\ LET r == NewRecord(cur[holder])
                 desired == Desired(r.original, job.policy)
                 desiredOwn == DesiredOwn(r.original, job.policy, {})
             IN  IF desiredOwn = {}
                 THEN Goto("scan") /\ UNCHANGED <<managed, after, budget, job>>
                 ELSE Intend(r, desired, desiredOwn, TRUE)
    /\ UNCHANGED <<world, files, leaving, streak, todo, call, spent>>

Decline ==
    /\ pc = "adopt"
    /\ \/ /\ \/ job.verdict # "clear"
             \/ streak[job.key] < ClearSamples
             \/ budget = 0
             \/ Gone(job.key)
          /\ UNCHANGED spent
       \/ Fault
    /\ Goto("scan")
    /\ UNCHANGED <<world, files, after, leaving, managed, streak, todo, budget,
                   job, call>>

-----------------------------------------------------------------------------
\* replace_process_efficiency: verify, set property by property, read back

\* Open, check the target and compare what is expected with what is there.
OpenApply ==
    /\ pc = "apply"
    /\ \E holder \in Keys :
          /\ Opens(job.key, holder)
          /\ LET r == managed[job.key] IN
             IF Matches(r.own, r.applied, cur[holder])
             THEN /\ call' = [NoCall EXCEPT !.target = holder,
                                            !.original = cur[holder],
                                            !.applied = r.pending,
                                            !.own = r.own, !.left = r.own]
                  /\ Goto("set")
             ELSE Goto("lost") /\ UNCHANGED call
    /\ UNCHANGED <<world, files, after, leaving, managed, streak, todo, budget,
                   job, spent>>

ApplyRefused ==
    /\ pc = "apply"
    /\ (Gone(job.key) /\ UNCHANGED spent) \/ Fault
    /\ Goto("refused")
    /\ UNCHANGED <<world, files, after, leaving, managed, streak, todo, budget,
                   job, call>>

\* set_process_efficiency, one property at a time; a failure rolls back.
SetProperty ==
    /\ pc = "set"
    /\ LET p == NextProp(call.left) IN
       \/ /\ call.target \in alive
          /\ Put(p, call.applied[p])
          /\ call' = [call EXCEPT !.left = @ \ {p}]
          /\ Goto(IF call.left = {p} THEN "verify" ELSE "set")
          /\ UNCHANGED spent
       \/ /\ (call.target \notin alive /\ UNCHANGED spent) \/ Fault
          /\ Goto("rollback")
          /\ UNCHANGED <<cur, call>>
    /\ UNCHANGED <<born, alive, base, files, after, leaving, managed, streak,
                   todo, budget, job>>

\* The read-back agrees: record the transaction as applied.
Verify ==
    /\ pc = "verify"
    /\ call.target \in alive
    /\ Matches(call.own, call.applied, cur[call.target])
    /\ Store(job.key, Applied(managed[job.key], cur[call.target]))
    /\ PersistThen("scan") /\ call' = NoCall
    /\ UNCHANGED <<world, files, leaving, streak, todo, budget, job, spent>>

Mismatch ==
    /\ pc = "verify"
    /\ \/ /\ \/ call.target \notin alive
             \/ ~ Matches(call.own, call.applied, cur[call.target])
          /\ UNCHANGED spent
       \/ Fault
    /\ Goto("rollback")
    /\ UNCHANGED <<world, files, after, leaving, managed, streak, todo, budget,
                   job, call>>

-----------------------------------------------------------------------------
\* restore_process_efficiency: EcoQoS from the first query of the call, then
\* memory priority from a query of its own

\* The query that opens the call; `left` tells what is still to be treated.
Observing(holder, then) ==
    /\ call' = [call EXCEPT !.target = holder, !.then = then, !.left = Props,
                            !.observed = cur[holder]]
    /\ Goto(IF "eco_qos" \in Props THEN "restore" ELSE "requery")

\* The rollback restores through the handle that is already open; if its
\* query fails nothing is restored.
BeginRollback ==
    /\ pc = "rollback"
    /\ \/ call.target \in alive /\ Observing(call.target, "rollback")
          /\ UNCHANGED spent
       \/ /\ (call.target \notin alive /\ UNCHANGED spent) \/ Fault
          /\ Goto("refused") /\ call' = NoCall
    /\ UNCHANGED <<world, files, after, leaving, managed, streak, todo, budget,
                   job>>

OpenRestore ==
    /\ pc = "open"
    /\ \E holder \in Keys :
          Opens(job.key, holder) /\ Observing(holder, call.then)
    /\ UNCHANGED <<world, files, after, leaving, managed, streak, todo, budget,
                   job, spent>>

\* The call fails as a whole. Only cleanup_background looks at the reason.
RestoreRefused ==
    /\ pc = "open"
    /\ \/ /\ Gone(job.key) /\ UNCHANGED spent
          /\ managed' = IF call.then = "cleanup"
                        THEN [managed EXCEPT ![job.key] = None] ELSE managed
       \/ Fault /\ UNCHANGED managed
    /\ Goto(IF call.then = "cleanup" THEN "cleanup" ELSE "scan")
    /\ call' = NoCall
    /\ UNCHANGED <<world, files, after, leaving, streak, todo, budget, job>>

\* Mutant: what the service owns is its own, whatever the value.
MineUnchecked(p) == p \in call.own

\* A property is still the service's when its value is one it wrote.
Mine(p) ==
    /\ p \in call.own
    /\ \/ call.observed[p] = call.applied[p]
       \/ call.pending # None /\ call.observed[p] = call.pending[p]

\* The report on property p: what was seen, and whether p is left unrestored
\* or was found to be an outsider's.
Note(p, seen, unrestored, external) ==
    /\ call' = [call EXCEPT
                    !.left = @ \ {p},
                    !.observed = Overlay(@, {p}, [q \in Props |-> seen]),
                    !.unrestored = IF unrestored THEN @ \cup {p} ELSE @,
                    !.external = IF external THEN @ \cup {p} ELSE @]
    /\ Goto(IF call.left = {p} THEN "report" ELSE "requery")

QueryMemory ==
    /\ pc = "requery" /\ call.target \in alive
    /\ call' = [call EXCEPT !.observed =
                    Overlay(@, call.left, cur[call.target])]
    /\ Goto("restore")
    /\ UNCHANGED <<world, files, after, leaving, managed, streak, todo, budget,
                   job, spent>>

\* The second query fails: what is owned stays owned, with the value the
\* first query saw. Whether that value is the service's is not looked at.
QueryMemoryFails ==
    /\ pc = "requery"
    /\ LET p == NextProp(call.left) IN
       /\ \/ call.target \notin alive /\ UNCHANGED spent
          \/ /\ p \in call.own /\ ~ Mine(p) => "requery" \in Perils
             /\ Fault
       /\ Note(p, call.observed[p], p \in call.own, FALSE)
    /\ UNCHANGED <<world, files, after, leaving, managed, streak, todo, budget,
                   job>>

\* Nothing to write: p is not owned, an outsider changed it, or it already
\* has its original value.
SkipProperty ==
    /\ pc = "restore"
    /\ LET p == NextProp(call.left) IN
       /\ Mine(p) => call.observed[p] = call.original[p]
       /\ Note(p, call.observed[p], FALSE, p \in call.own /\ ~ Mine(p))
    /\ UNCHANGED <<world, files, after, leaving, managed, streak, todo, budget,
                   job, spent>>

\* Property p is the service's and has to be given back.
Due(p) == /\ pc = "restore" /\ p = NextProp(call.left)
          /\ Mine(p) /\ call.observed[p] # call.original[p]

RestoreProperty ==
    /\ call.target \in alive
    /\ \E p \in Props :
          /\ Due(p) /\ Put(p, call.original[p])
          /\ Note(p, call.original[p], FALSE, FALSE)
    /\ UNCHANGED <<born, alive, base, files, after, leaving, managed, streak,
                   todo, budget, job, spent>>

\* The write fails, or it succeeds and its read-back fails; then another
\* query tells the value unless it fails too.
RestorePropertyFails ==
    /\ Fault
    /\ \E p \in Props :
          /\ Due(p)
          /\ \/ /\ UNCHANGED cur
                /\ \E seen \in {call.observed[p], cur[call.target][p]} :
                      Note(p, seen, TRUE, FALSE)
             \/ /\ call.target \in alive
                /\ Put(p, call.original[p])
                /\ \E seen \in {call.observed[p], call.original[p]} :
                      Note(p, seen, TRUE, FALSE)
    /\ UNCHANGED <<born, alive, base, files, after, leaving, managed, streak,
                   todo, budget, job>>

\* The process exited under the open handle.
RestorePropertyGone ==
    /\ call.target \notin alive
    /\ \E p \in Props : Due(p) /\ Note(p, call.observed[p], TRUE, FALSE)
    /\ UNCHANGED <<world, files, after, leaving, managed, streak, todo, budget,
                   job, spent>>

\* An outsider writes between the write and its read-back.
RestoreRace ==
    /\ "readback" \in Perils /\ spent.writes < MaxWrites
    /\ call.target \in alive
    /\ \E p \in Props :
          /\ Due(p)
          /\ \E v \in Choices[p] \ (Claimed(job.key, p)
                                       \cup {call.original[p]}) :
                /\ Put(p, v)
                /\ base' = [base EXCEPT ![call.target][p] = v]
                /\ Note(p, v, TRUE, FALSE)
    /\ spent' = [spent EXCEPT !.writes = @ + 1]
    /\ UNCHANGED <<born, alive, files, after, leaving, managed, streak, todo,
                   budget, job>>

\* What the thread does with the report.
EndRestore ==
    /\ pc = "report"
    /\ LET r == Reported(managed[job.key], call) IN
       \/ /\ call.then = "rollback"
          /\ Goto("refused") /\ UNCHANGED <<managed, after>>
       \/ /\ call.then = "recover"
          /\ Store(job.key, r) /\ PersistThen("scan")
       \/ /\ call.then = "veto"
          /\ Store(job.key, Kept(r)) /\ PersistThen("scan")
       \/ /\ call.then = "cleanup"
          /\ Store(job.key, IF r.own = {} THEN None ELSE r)
          /\ Goto("cleanup") /\ UNCHANGED after
    /\ call' = NoCall
    /\ UNCHANGED <<world, files, leaving, streak, todo, budget, job, spent>>

-----------------------------------------------------------------------------
\* What the controller does when an application failed

\* Another error than a lost ownership. A record that was there before keeps
\* its pending transaction; a new one is dropped if nothing happened.
Refused ==
    /\ pc = "refused"
    /\ LET r == managed[job.key] IN
       \/ /\ job.fresh
          /\ \E holder \in Keys :
                /\ Opens(job.key, holder)
                /\ Matches(r.own, r.original, cur[holder])
          /\ Store(job.key, None) /\ PersistThen("scan")
          /\ UNCHANGED spent
       \/ /\ \/ /\ \/ ~ job.fresh
                   \/ \A holder \in Keys :
                         Opens(job.key, holder) =>
                             ~ Matches(r.own, r.original, cur[holder])
                /\ UNCHANGED spent
             \/ job.fresh /\ Fault
          /\ Goto("scan") /\ UNCHANGED <<managed, after>>
    /\ UNCHANGED <<world, files, leaving, streak, todo, budget, job, call>>

\* The record after an outsider changed what the transaction expected.
AfterLoss(r, current) ==
    LET changed == OverrideMask(r.applied, current, r.own) IN
    IF job.fresh
    THEN [NewRecord(current) EXCEPT !.blocked = changed]
    ELSE Rebase(Relinquish(Quiet([r EXCEPT !.own = job.prior]),
                           current, changed),
                current)

Lost ==
    /\ pc = "lost"
    /\ \E holder \in Keys :
          /\ Opens(job.key, holder)
          /\ Store(job.key, AfterLoss(managed[job.key], cur[holder]))
    /\ streak' = [streak EXCEPT ![job.key] = 0]
    /\ PersistThen("scan")
    /\ UNCHANGED <<world, files, leaving, todo, budget, job, call, spent>>

LostQueryFails ==
    /\ pc = "lost"
    /\ (Gone(job.key) /\ UNCHANGED spent) \/ Fault
    /\ Goto("scan")
    /\ UNCHANGED <<world, files, after, leaving, managed, streak, todo, budget,
                   job, call>>

-----------------------------------------------------------------------------
\* cleanup_background and the journal file

CleanupNext(k) ==
    /\ pc = "cleanup" /\ k \in todo
    /\ todo' = todo \ {k}
    /\ job' = [NoJob EXCEPT !.key = k]
    /\ LET r == managed[k] IN
       IF r.own = {} THEN Store(k, None) /\ UNCHANGED <<pc, call>>
       ELSE AskRestore(r, r.pending, "cleanup") /\ UNCHANGED managed
    /\ UNCHANGED <<world, files, after, leaving, streak, budget, spent>>

EndCleanup ==
    /\ pc = "cleanup" /\ todo = {}
    /\ PersistThen(Rest(leaving)) /\ job' = NoJob
    /\ UNCHANGED <<world, files, leaving, managed, streak, todo, budget, call,
                   spent>>

\* atomic_write replaces the file as a whole.
Persist ==
    /\ pc = "persist"
    /\ disk' = managed
    /\ Goto(after)
    /\ UNCHANGED <<world, enabled, after, leaving, managed, streak, todo,
                   budget, job, call, spent>>

\* A failed write ends the loop; the final cleanup tries once more.
PersistFails ==
    /\ pc = "persist" /\ Fault
    /\ IF leaving THEN Goto("stopped") /\ UNCHANGED <<todo, leaving>>
       ELSE EnterCleanup(managed, TRUE)
    /\ job' = NoJob
    /\ UNCHANGED <<world, files, after, managed, streak, budget, call>>

-----------------------------------------------------------------------------
Environment ==
    \/ \E k \in Keys : Birth(k) \/ Exit(k)
    \/ \E k \in Keys, p \in Props : \E v \in Choices[p] :
          OutsiderWrites(k, p, v)
    \/ Crash \/ Stop \/ Enable \/ Disable

Reconcile ==
    \/ \E k \in Keys, verdict \in Verdicts, policy \in Policies :
          Visit(k, verdict, policy)
    \/ EndTick \/ QueryFails \/ RequeryFails \/ Resolve \/ Examine \/ LetGo
    \/ Update \/ Adopt \/ Decline \/ Refused \/ Lost \/ LostQueryFails

PlatformCall ==
    \/ OpenApply \/ ApplyRefused \/ SetProperty \/ Verify \/ Mismatch
    \/ BeginRollback \/ OpenRestore \/ RestoreRefused \/ QueryMemory
    \/ QueryMemoryFails \/ SkipProperty \/ RestoreProperty
    \/ RestorePropertyFails \/ RestorePropertyGone
    \/ RestoreRace \/ EndRestore

Cleanup == \/ \E k \in Keys : CleanupNext(k)
           \/ EndCleanup

Controller ==
    \/ Start \/ TickInactive \/ Tick
    \/ Reconcile \/ PlatformCall \/ Cleanup \/ Persist \/ PersistFails

Next == Environment \/ Controller

Spec == Init /\ [][Next]_vars

(***************************************************************************)
(* The thread keeps running and the service manager restarts the service   *)
(* after a failure (apply_service_settings asks for it), so the thread     *)
(* always takes its next step. Nobody has to enable, disable, stop, crash  *)
(* or write anything.                                                      *)
(***************************************************************************)
FairSpec == Spec /\ WF_vars(Controller)

-----------------------------------------------------------------------------
(***************************************************************************)
(* Properties                                                              *)
(***************************************************************************)

Labels == {"stopped", "idle", "scan", "resolve", "examine", "reexamine",
           "decide", "adopt", "apply", "set", "verify", "rollback", "open",
           "restore", "requery", "report", "refused", "lost", "cleanup",
           "persist"}

Job == [key : Keys \cup {None}, verdict : Verdicts,
        policy : Policies \cup {NoPolicy}, seen : State \cup {None},
        prior : Mask, fresh : BOOLEAN]

Call == [target : Keys \cup {None},
         then : {"none", "rollback", "recover", "veto", "cleanup"},
         original : State \cup {None}, applied : State \cup {None},
         pending : State \cup {None}, own : Mask, left : Mask,
         observed : State \cup {None}, unrestored : Mask, external : Mask]

\* The types of the variables.
TypeOK ==
    /\ alive \subseteq born /\ born \subseteq Keys
    /\ cur \in [Keys -> State \cup {None}]
    /\ base \in [Keys -> State \cup {None}]
    /\ disk \in [Keys -> Record \cup {None}]
    /\ enabled \in BOOLEAN
    /\ pc \in Labels /\ after \in Labels /\ leaving \in BOOLEAN
    /\ managed \in [Keys -> Record \cup {None}]
    /\ streak \in [Keys -> 0 .. ClearSamples]
    /\ todo \subseteq Keys /\ budget \in 0 .. MaxMutations
    /\ job \in Job /\ call \in Call
    /\ spent \in [faults : 0 .. MaxFaults, crashes : 0 .. MaxCrashes,
                  writes : 0 .. MaxWrites]

\* Write-ahead. Whenever a property of a running process differs from what
\* an outsider last left in it, the journal on disk owns that property,
\* remembers the outsider's value as the original and can recognise the
\* value in force as the service's own: after a crash at this very moment
\* the change can be undone, and nothing else would be.
WriteAhead ==
    \A k \in alive, p \in Props :
        cur[k][p] # base[k][p] =>
            /\ disk[k] # None
            /\ p \in disk[k].own
            /\ disk[k].original[p] = base[k][p]
            /\ cur[k][p] \in OwnValues(disk[k], p)

\* Every journal the service writes is one load_background_state accepts:
\* no crash leaves a file that keeps the service from starting.
JournalLoadable == \A k \in Managed(disk) : Loadable(disk[k])

Blocks(records, k, p) == records[k] # None /\ p \in records[k].blocked

\* A property given up to an outsider is not written while it is blocked,
\* whatever the tick, the policy or the cleanup does to the other property.
BlockedUntouched ==
    [][\A k \in alive, p \in Props :
          /\ pc # "stopped" /\ Blocks(managed, k, p)
          /\ spent'.writes = spent.writes
          => cur'[k][p] = cur[k][p]]_vars

\* A restore writes only over values of the service: what an outsider left in
\* a property after the service wrote it stays. (A rollback undoes writes of
\* the same call, one that gave a property back among them.)
RestoreSparesOutsiders ==
    [][\A k \in alive, p \in Props :
          /\ pc = "restore" /\ call.then # "rollback"
          /\ base'[k][p] = base[k][p] /\ cur'[k][p] # cur[k][p]
          => cur[k][p] # base[k][p]]_vars

\* An external block of a running process is lifted by a cleanup, by the end
\* of the service or because no rule applies any more; never by a veto or a
\* clear sample.
BlockSurvivesVeto ==
    [][\A k \in alive, p \in Props :
          /\ Blocks(managed, k, p) /\ ~ Blocks(managed', k, p)
          => \/ pc \in {"stopped", "cleanup"} \/ pc' = "stopped"
             \/ pc \in {"open", "report"} /\ call.then = "cleanup"
             \/ job.key = k /\ job.verdict = "off"]_vars

\* Once scheduling stays disabled, every running process eventually has, and
\* keeps, the values outsiders left in it.
RestoredAfterDisable ==
    <>[](~ enabled) => <>[](\A k \in alive : cur[k] = base[k])
-----------------------------------------------------------------------------
(***************************************************************************)
(* Why JournalLoadable holds: an inductive invariant. It says at each      *)
(* point of the thread what the local variables stand for.                 *)
(***************************************************************************)

\* What the thread does next, once the journal is written.
Phase == IF pc = "persist" THEN after ELSE pc

Restoring == {"open", "restore", "requery", "report"}
Transacting == {"apply", "set", "verify", "rollback", "refused", "lost"}
Visiting == {"resolve", "examine", "reexamine", "decide"} \cup Transacting
                \cup Restoring

\* Processes have values once they were born.
ValuesOK == \A k \in born : cur[k] \in State /\ base[k] \in State

\* All records are acceptable, in memory and on disk.
RecordsOK ==
    \A k \in Keys :
        /\ managed[k] # None => Loadable(managed[k])
        /\ disk[k] # None => Loadable(disk[k])

\* The thread visits a process with a record, pending or not as the code has
\* established.
VisitOK ==
    /\ after \in {"idle", "scan", "reexamine", "decide", "apply", "stopped"}
    /\ Phase \in Visiting => job.key \in Keys /\ managed[job.key] # None
    /\ pc = "adopt" => job.key \in Keys
    /\ Phase \in {"examine", "reexamine", "decide"} =>
          managed[job.key].pending = None
    /\ Phase = "decide" => job.seen \in State
    /\ pc = "resolve" => managed[job.key].pending # None
    /\ Phase \in Transacting \/ (pc \in Restoring /\ call.then = "rollback") =>
          /\ managed[job.key].pending # None
          /\ job.prior \cap managed[job.key].blocked = {}

\* A platform call works on an existing process and on the properties the
\* record owns.
CallOK ==
    /\ pc \in {"set", "verify", "rollback", "restore", "requery", "report"} =>
          call.target \in born
    /\ pc \in {"set", "verify", "rollback"} \cup Restoring =>
          /\ call.own = managed[job.key].own
          /\ call.original \in State /\ call.applied \in State
          /\ call.unrestored \cap call.external = {}
          /\ call.unrestored \cup call.external \subseteq call.own \ call.left
    /\ pc \in {"set", "verify", "rollback", "open"} =>
          call.unrestored = {} /\ call.external = {}
    /\ pc \in {"set", "restore", "requery"} => call.left # {}
    /\ pc \in {"restore", "requery", "report"} => call.observed \in State

\* A cleanup pass visits processes with records, each once.
CleanupOK ==
    pc = "cleanup" \/ (pc \in Restoring /\ call.then = "cleanup") =>
        /\ todo \subseteq Managed(managed)
        /\ pc # "cleanup" => job.key \notin todo

IInv ==
    /\ TypeOK /\ ValuesOK /\ RecordsOK /\ VisitOK /\ CallOK /\ CleanupOK
-----------------------------------------------------------------------------
(***************************************************************************)
(* Why BlockedUntouched and BlockSurvivesVeto hold: whose record and which *)
(* properties the thread works on, whatever outsiders do.                  *)
(***************************************************************************)

\* The process that is visited, which may have exited.
Visited == managed[job.key]
Current(p) == cur[job.key][p]
Changed(p) == cur[job.key][p] # base[job.key][p]

Asked == {"restore", "requery", "report"}
Undoing == pc \in Asked /\ call.then = "rollback"
GivingBack == pc \in Restoring /\ call.then # "rollback"

FocusOK ==
    /\ pc = "adopt" => Visited = None
    /\ pc \in {"set", "verify", "rollback"} \cup Asked => call.target = job.key
    /\ pc = "set" => call.left \subseteq Visited.own
    /\ pc = "open" => call.then # "rollback"
    /\ GivingBack /\ call.then = "veto" => job.verdict # "clear"
    /\ (Phase \in Transacting \/ Undoing) /\ job.fresh => Visited.blocked = {}
-----------------------------------------------------------------------------
(***************************************************************************)
(* Why WriteAhead holds when no peril is admitted: what the records say of *)
(* the processes, and how far the local variables of the thread are from   *)
(* them.                                                                   *)
(***************************************************************************)

\* Where a process with the values c, in which outsiders left the values b,
\* is changed, record r owns the value in force; and where the value in force
\* is one r takes for the service's own, r has the one to give back.
Honest(r, c, b) ==
    \A p \in Props :
        /\ c[p] # b[p] => c[p] \in OwnValues(r, p)
        /\ c[p] \in OwnValues(r, p) => r.original[p] = b[p]

\* What is not owned was not changed, and a transaction lets go of a property
\* only by writing its original value.
Sound(r) ==
    /\ \A p \in Props \ r.own : r.original[p] = r.applied[p]
    /\ r.pending # None =>
        /\ r.pendingOwn \subseteq r.own
        /\ \A p \in r.own \ r.pendingOwn : r.pending[p] = r.original[p]

SoundOK ==
    \A k \in Keys :
        /\ managed[k] # None => k \in born /\ Sound(managed[k])
        /\ disk[k] # None => k \in born /\ Sound(disk[k])

HonestOK ==
    \A k \in alive :
        /\ Honest(disk[k], cur[k], base[k])
        /\ pc # "stopped" => Honest(managed[k], cur[k], base[k])

\* What the policy wants of a process is not there already, other than as the
\* value it was seen with or as a value to be given back.
ForeseenOK ==
    Phase = "decide" /\ job.key \in alive =>
        \A p \in Props :
            Current(p) = Desired(Rebase(Visited, job.seen).original,
                               job.policy)[p]
            => IF p \in Visited.own
               THEN Visited.original[p] = base[job.key][p]
               ELSE Current(p) = job.seen[p]

\* Nothing has been written yet for a transaction in the journal.
IntentOK ==
    Phase = "apply" \/ pc = "lost" =>
        /\ job.prior \subseteq Visited.own
        /\ job.fresh => job.prior = {}
        /\ job.key \in alive =>
            \A p \in Props :
                Changed(p) => p \in job.prior /\ Current(p) = Visited.applied[p]

\* A transaction is performed with the journal on disk, from the applied to
\* the pending values, and undone in the other direction.
TransactOK ==
    /\ pc \in {"apply", "set", "verify", "rollback"} \/ Undoing =>
          disk[job.key] = Visited
    /\ pc \in {"set", "verify", "rollback"} \/ Undoing =>
          /\ call.applied = Visited.pending /\ call.pending = None
          /\ \A p \in Visited.own : call.original[p] = Visited.applied[p]
    /\ pc = "set" /\ job.key \in alive =>
          \A p \in call.left : Current(p) = Visited.applied[p]

\* A restore goes by the record, and by values it has seen.
GivingOK ==
    /\ GivingBack =>
          /\ call.original = Visited.original
          /\ call.applied = Visited.applied /\ call.pending = Visited.pending
    /\ pc = "report" => call.left = {}
    /\ pc = "restore" /\ job.key \in alive =>
          LET p == NextProp(call.left) IN call.observed[p] = Current(p)
    /\ GivingBack /\ pc # "open" /\ job.key \in alive =>
          \A p \in Props :
              /\ Changed(p) => /\ Current(p) = call.observed[p]
                               /\ p \in call.left \cup call.unrestored
              /\ p \in call.unrestored =>
                    call.observed[p] \in OwnValues(Visited, p)
                                            \cup {Visited.original[p]}

AheadInv ==
    /\ SoundOK /\ HonestOK /\ ForeseenOK /\ IntentOK /\ TransactOK /\ GivingOK
=============================================================================
