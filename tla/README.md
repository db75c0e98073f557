# TLA+ models of WinSched

WinSched is a Windows service that watches processes, places them on CPU Sets
and gives background processes EcoQoS and a lower memory priority. It changes
processes that are not its own, so what makes it correct is less what it does
than what it can undo: after a disable, a stop, a failed call or a crash every
process must be able to get back what it had, and what somebody else changed in
the meantime must be left alone.

This directory holds TLA+ modules of the parts of the service where that is
decided, TLC configurations that check them on small instances, and TLAPS proofs
for every instance of the safety properties.

    tlc -config JournalCrash.cfg MCBackgroundJournal      # one run
    tlapm BackgroundJournalProofs.tla                     # one proof module

`PROJECT.json` lists the runs, the source lines behind every definition, the
hazards and the mutants: for every property of a passing run, a plausible bug in
the code (`XForgetful`, `XAnyway`, ... beside the definition `X`) under which
TLC finds that property violated.

## 1. Inventory

| Component | State | Operations | What is hard | What makes it correct |
|---|---|---|---|---|
| Controller loop, `winsched-service/src/main.rs` 596-1277 | engine, journals, configuration, runtime state | Tick, Enable, Disable, Stop; hot reload; start and recovery | commands between ticks, failing persists, fail-closed reload | what is disabled ends up undone; an invalid configuration owns nothing |
| Background efficiency, main.rs 2025-2991, `platform/windows.rs` 1265-1651 | `background-state.json`, records in memory, clear-sample streaks | reconcile per process, cleanup, apply and restore two properties | crash between any two effects, partial failures, outsiders, PID reuse | write-ahead journal; outsiders' values are spared; blocks last; everything comes back |
| CPU Set placement, main.rs 1405-1591, 1855-2011, windows.rs 1163-1260, 1990-2060 | `managed-state.json`, placements in memory | reconcile, enforce a decision, cleanup | assignment and journal are two steps; ownership is recognised by comparing lists | no assignment is forgotten; others' assignments are left alone |
| Interactive wake, windows.rs 209-606, main.rs 688-704, 786-895, 1716-1749 | command channel, two atomic flags, map of states | receive, claim, send; wait, drain, dispatch | three threads | no receipt is lost; the channel is bounded |
| Policy engine, `winsched-core/src/adaptive.rs` | per process: domain, streak, times; pending decisions | evaluate, acknowledge | decisions are provisional until enforced; a shared mutation budget | limits, cooldowns, no starvation |
| Adaptive width, `responsiveness.rs` 48-200; latency probe, `latency.rs` | width, two streaks, last change; flag and sample window shared with the probe's thread | observe, reconfigure; record, clear | noisy samples; enabling races a recording; the plan changes under the width | every width in force can be planned; changes are earned; no oscillation, the bound is reached |
| Topology planners, `winsched-core/src/lib.rs` 100-620 | none | reserve, partitions, assignment | SMT and efficiency classes, withheld siblings, rounding | the reserve is spread and never assigned; a physical core remains |
| Interactive pipe, `winsched-tray/src/main.rs` 117-223, windows.rs 203-606, main.rs 2046-2149 | per publisher: content and receipt time; the tray's last publication | capture, publish; connect, authenticate, insert, expire; protect | wall clock, limits, worker exit, trays that end without a word | what is in use is protected whatever fails; what is not is left to the policy |
| Configuration, `winsched-config`; reload, main.rs 1647-1714 | document, modification time | load, migrate, validate, resolve; reload | four old schemas; a write between reading the time and the file; invalid files | an old document means what it meant; a rejected file is ignored as a whole or fails closed; every save gets a receipt |
| Event log, `event_logger.rs`, `decision_log.rs`, `responsiveness_log.rs` | active file, archives, writer; decision window | write, rotate, prune, reconfigure, summarise | a rotation is a series of renames; recovery of a failed recovery | lost from the old end only, bounded, every decision counted, logging resumes |
| Status, `status_publisher.rs`, `winsched-control` | last published status | publish, read | publish before optional log | a reader sees whole documents |
| Provisioning, main.rs 3139-3990 | registration, service process, two journals | provision, register, start, stop, uninstall | any call fails, the rollback too; the service, users and the manager's restarts act in between | as asked, or as it was, or an error that says neither; success of stop and uninstall means clean |
| Memory pressure, windows.rs 615-652 | last state | query | failing query | hysteresis, last state retained |
| Settings, `windows_app.rs` 363-769 | document shown and persisted, pending Apply | Apply, save, poll for the receipt, reread | the status may be of another process, attempt or file | confirms its own configuration only |
| Tray (menus), monitor, runner, diagnostics, packaging | user interface, child process | - | - | - |

The controller thread calls the engine, the planners and the platform; it owns
the journals and the loggers. The pipe worker and the service control handler
talk to it through one channel. The settings application and the tray write
files that the loop polls. The service keeps its truth in three files: the two
journals and `runtime-state.json`.

## 2. Modules

### EfficiencyRecord, BackgroundJournal (MCBackgroundJournal)

`EfficiencyRecord` holds the pure part: the record of one process
(`original`, `applied`, `pending`, `own`, `blocked`) and every function the
code has on it: what the policy wants (`Desired`, `DesiredOwn`), the effect of
an override (`Relinquish`, `Rebase`), of a transaction (`Pending`, `Applied`,
`Quiet`) and of a restore report (`Reported`), and what
`load_background_state` accepts (`Loadable`).

`BackgroundJournal` is the controller thread with a program counter, one step
between any two effects somebody else can see:

| Program counter | Code |
|---|---|
| `stopped`, `idle` | before `run_controller`; at `wait_for_command` |
| `scan` | the loop of `reconcile_background_efficiency` over the processes |
| `resolve` | a record with a pending transaction (2437-2505) |
| `examine`, `reexamine`, `decide`, `adopt` | overrides, vetoes, the decision to apply, a new record (2515-2732) |
| `apply`, `set`, `verify`, `rollback` | `replace_process_efficiency` |
| `open`, `restore`, `requery`, `report` | `restore_process_efficiency` |
| `refused`, `lost` | the two kinds of failed application (2653-2687, 2753-2778) |
| `cleanup` | `cleanup_background` |
| `persist` | `persist_background_state`, then on to `after` |

`managed` is the map of records in memory, `disk` the file, `enabled` the
persisted runtime state, `job` and `call` the local variables of one visit and
one platform call. The world is `alive` and `cur` (the two properties of each
process); `base` is auxiliary and holds the value an outsider last left. The
verdict about a process (clear, veto, no rule) and the configuration are chosen
anew at every visit: rules, sessions and memory pressure can change at any time.
Any process may exit, and its PID be reused, between any two steps.

Abstracted: the contents of sessions and rules (only the verdict remains), times
(a clear sample is counted, not timed), the reasons of errors, logging.
EcoQoS and memory-priority values are the ones of the code.

Assumption about outsiders: values carry no author. An outsider who writes just
the value the service wrote, or is about to write, cannot be told from the
service, so `OutsiderWrites` does not choose such a value. `Perils` names what a
run admits inside a platform call: a write by an outsider between comparison and
write (`check`) or between write and read-back (`readback`), and a failing
second query when an outsider's value is in force (`requery`).

### PlacementJournal (MCPlacementJournal)

The same thread, seen from CPU Set placement. `managed`, `disk` and `enabled`
are as above; `seen` is the observation of the current tick, `call` the platform
call, `mode` the controller mode in force (`default` is the configuration that
replaces a rejected file). Decisions are free: `DecideAssign`, `DecideClear` and
`DecideKeep` admit whatever `evaluate_process` may answer for such an observation
in the mode in force, within `max_mutations_per_evaluation`. `Enforced` is the flag
of an assignment, `TurnedOff` the placement a managed process has while the mode
is not Auto. A tick that comes before the policy is due reconciles and decides
nothing (`EndSafetyTick`). `Query`, `Replace` and `ReadBack` are the three steps of
`replace_default_cpu_sets`; an outsider may assign between any two. Where the
journal cannot be written, `PersistUndoes` takes an assignment back, `PersistFails`
ends the loop, and a rejected configuration (`FailClosed`) goes on regardless.
`Reserved` are domains without an assignable CPU Set. Schema-1 journals, which know
the domain only, are initial states.

Two variables are auxiliary: `mine` has the processes whose list the service wrote
last, `stray` those of them it may have lost track of, struck by one of four
events that the code has no answer to (section 5). All four are part of every
run and of every proof: `stray` is what they cost. As for `BackgroundJournal`,
lists carry no author: `OutsiderAssigns` chooses lists the service cannot take for
its own.

### InteractiveWake

Pipe worker, service control handler and controller thread share `queue`
(the `mpsc` channel), `pending` and `wakeEnabled` (the two atomics). Receipts are
numbered; `answered` is the newest one an evaluation has read. Every load, store,
compare-exchange, send and receive is a step.

A command received behind a Tick makes `wait_for_command` drop that Tick while
the pending flag stays set, so the next receipts wake nobody until the fallback
cadence (main.rs 800, 1736-1742): `NoLostWake` holds without commands only, which
is what `NoLostWakeUnlessCommand` says.

### PolicyEngine (MCPolicyEngine)

`engine[k]` is `ProcessState`, `Decision` is `evaluate_process` with its early
returns in their order, `Decide` one turn of the loop in `evaluate`, `Enforce`
one decision carried out and acknowledged. What `PlacementJournal` refines is
collapsed here: `held[k]` says who assigned CPU Sets to the process, at which
domain, and whether the list is the planned one. `Partition` is the mode Auto
with the profile Memory or Compute. The classes Performance and Efficiency
select within a domain and change no decision between domains.
Ages count evaluation intervals and stop at the limit they are compared with.
`past` is auxiliary: samples, residency and the time since the last move as the
world has seen them, to compare the engine's own counters with. A new engine
(reload, disable and enable, restart) forgets the last move, so the cooldown
holds between two moves of one engine only. `Ordered` are the domains whose CPU
Set ids increase with the logical processor (all in `Policy`); `Settles` also
needs `MinImprovement > 0`: with 0, which the settings allow, two hot domains
exchange a process after every cooldown.

### Topology, Responsiveness (MCResponsiveness)

`Topology` holds the planners as operators on a snapshot, a set of CPU Sets.
Where the code sorts and walks lists, an operator says at which place an element
comes: `Selected` takes the cores before which fewer than the requested number
come, first by `Pass`, then by domain, and `FirstPass` are the indices of
`spread_indices`. `Reserve`, `Excluding`, `Partition` and `Assignment` are
`plan_system_reserve`, `excluding_reserved_cpu_sets`, `plan_spread_partition`
and `plan_assignment`.

`Responsiveness` is the controller thread between a reload and its evaluations
(`Reload`, `Clear`, `Resize`, `Evaluate`) and the probe's thread (`Wake`,
`Record`). `Plan` is what the loop plans for the configuration in force,
`width` is `AdaptiveWidthController`, `window` the probe's samples. A reload swaps
the flag and clears the window in two steps; the probe reads the flag and records
in two. Latencies and interrupt shares are classes (within the recovery
threshold, within the target, above). `stale` marks a sample taken before the
last change of the flag, `readings` and `fresh` are the auxiliary history
`WidthEarned` compares the streaks with.

### InteractivePipe (MCInteractivePipe)

`tray[t]` is the publisher thread of one tray process, `pipe` the message in the
pipe's only instance, `states` the service's map with the age of each state.
`Capture` and `Send` are one turn of `InteractivePublisher`, `Receive` is
`read_interactive_pipe_message` with `insert_interactive_state`, `Protected` is
`background_protection` with the expansion to children and to processes of one
image. A process is in the foreground, visible or audible (`Uses`); two probes tell
(`Probe`), and each use has a switch in the policy (`Protects`): a probe that no
switch asks for may fail without consequence. A tray that ends withdraws nothing,
a worker that ends is not started again, a service that starts has no states. Time
passes in heartbeats, `Jump` is a wall clock that is set. How the receipt wakes the
controller is `InteractiveWake`.

### Configuration, Controller (MCController)

`Configuration` says which documents are accepted (`Accepted`), what a document
of an older schema means (`Schema`, `Level`, `Normalized`), which rule an
executable comes under (`Placement`, `BackgroundApplies`), and what Settings
writes (`ToToml`). The ranges of numbers are one field, the syntax is left out.

`Controller` composes it with the loop of `run_controller` over an abstract
journal (`owned`: the kinds of processes changed) and with the files it shares:
`file` is winsched.toml, `disk` status.json, `choice` runtime-state.json.

| Actions | Code |
|---|---|
| `Start`, `FailStart`, `End`, `Crash` | `run_service`, `run_controller` outside its loop, `recover_controller_initialization` |
| `Stop`, `Enable`, `Disable` | the commands (806-894) |
| `Tick`, `Load`, `Adopt` | `reload_config_if_changed`: time, file and outcome are three steps; the time and the file may each be unreadable |
| `Act` | the rest of a tick (935-1227) |
| `Publish` | `publish_controller_status`; when it fails the loop ends |
| `Apply`, `Save`, `Poll`, `Reread` | Settings |
| `Notify`, `Edit` | tray and command line; an editor |

`MayTake` is what a tick may change for a configuration: the two journals'
modules show that a tick takes no more. `ran` and `refusal` are auxiliary: a
controller ran what Apply wants since Apply; scheduling was turned off and not
turned on since.

### EventLog (MCEventLog)

A file is the sequence of the ages of its records. An operation (`RotateFiles`,
`PruneArchives`, `OpenActive`, and what is composed of them: `Rotate`,
`OpenWithLimits`, `ReconfigureLimits`, `ReconfigureWriter`, `WriteLine`) is the
set of its outcomes, each with what it leaves behind, whether it reports success
and how many calls failed: a rotation may stop before any of its renames, a
write may leave a part of a record. `Start`, `Event`, `Decision`, `Flush`,
`Reconfigure` and `Stop` choose one. So does `Crash`: an operation that fails at
some step leaves what one that is cut off there does, so `Interrupted` are the
outcomes of up to two records and of a reconfiguration with its recovery, each
whole or in part; a crash while the log is opened is a `Start` that fails. A record
has size 1, and a limit of 0 stands for one that every record exceeds: such a
record stays whole, alone in its file (`Most`). `window` is `DecisionSummaryGate`,
`unreported` (auxiliary) counts the decisions in no summary yet; `scars`
(auxiliary) names what rejected reconfigurations leave (section 5).

### Registration, Provisioning

`Registration` is the promise: a command that changes the registration leaves
what was asked for, or fails and leaves what there was, or says that it could not
put it back. `Provisioning` is the commands call by call: `task` is the command
under way with the list of what it still has to do, `Recovery` the list that
replaces it when a call fails, `reg` the registration, `proc` the service as the
service control manager sees it, `pending` the journals with entries. Between two
calls the service starts, stops, fails and journals, and others may start it.
`AllOrNothing` is the refinement: `registration` is `reg` while no command runs
and the prior one while one does (`INSTANCE Registration WITH ...`).

## 3. Runs

Deadlock is not checked: with the bounds used up and the service stopped nothing
is left to happen. Bounds count failing calls, crashes and outsiders' writes over
a behaviour; one of each is enough for every pair of a failure with each step
of the thread, and a state is reached for every program counter.

| Run | Instance | Shows |
|---|---|---|
| `JournalCrash` | 1 process, both properties, 1 fault, 1 crash, 1 outsider's write, no perils | `WriteAhead`: at every moment a property that differs from what an outsider left is owned by the file, with that value as original and the value in force recognised. `RestoreSparesOutsiders`: a restore writes over the service's values only |
| `JournalPerils` | the same, all perils | `JournalLoadable`: no file keeps the service from starting. `BlockedUntouched`, `BlockSurvivesVeto`: what was given up to an outsider is not taken again before a cleanup or the end of the rule |
| `JournalLive` | 2 processes with one PID, EcoQoS | `WriteAhead` across PID reuse; `RestoredAfterDisable`: once disabled for good, everything is as outsiders left it |
| `PlacementSafe` | 2 processes, one strict, a list inside a domain and one across two, modes Auto and Observe, 1 fault, 1 crash, 1 outsider's assignment | `NothingForgotten`: every assignment of the service that is no `stray` is recognised by it, or by the file when it is down. `ExternalObserved`: an evaluation changes unassigned or own processes only, unless the rule is strict |
| `PlacementLive` | 2 processes, no strict rule, a list in each of 2 domains, modes Auto and Observe, 1 fault, 1 crash | `ClearedAfterDisable`: once mode and tray never allow enforcement again, what the service assigned and has not lost track of is cleared for good. In the mode Observe the evaluations go on, so a decision enforced regardless of the mode, or a placement not turned off, keeps it from coming true |
| `Policy` | 2 processes, 2 domains, one order per evaluation, 2 troubles (a change of the environment or a failing call) | `Answered`: pending in the engine is what the thread still has to try. `MovesEarned`: a move follows enough hot samples, residency and cooldown in the domain the process really is in. `Settles`: when the troubles end everything comes to where its rule wants it and no more orders are given |
| `WakeLive` | 2 commands, 4 receipts | `TicksBounded`, `NoLostWakeUnlessCommand`, `EventuallyAnswered` |
| `Width` | 3 topologies, 3 configurations and the default, a window of 2 samples, 2 reloads | `ReserveSpread`: as many cores as asked for, evenly over the caches, the best of each. `WidthFits`: each width in force can be planned, outside the reserve. `WidthEarned`: stability, cooldown and at most one sample from before the probe was enabled. `WidthSettles`: steady readings lead to the bound |
| `Log` | 2 archives, 5 configurations (one with a limit below a record), 2 faults, crashes included (no prune that fails or is cut off), 2 reconfigurations | `OldestFirst`, `WithinLimits`, `EveryDecisionCounted`, `ResumesUnlessStranded` |
| `Provision` | 2 commands, 2 failing calls, 1 start by others, prior start types auto and disabled | `AllOrNothing`: the refinement. `PriorStateRestored`: state and image as before. `RemovedClean`, `StopMeansClean`: success means no process and no entries |
| `Reload` | 1 executable; documents of the present schema, of schema 3 and an invalid one; 2 starts, 2 saves, 1 command, 1 fault (also of the metadata read) | `OwnsOnlyByConsent`: nothing is taken between a disable and the next enable (strict rules apart), under the default that replaces a rejected file, or for background efficiency where only an old document names the profile. `AppliedIsOwn`: Settings confirms what a controller ran. `EverySaveAnswered`, `Drains`: every save gets a receipt, what is inactive is given back |
| `Pipe` | 3 trays in one session, 2 publishers' places, a child and a twin process, the switch for visible windows off, 1 fault (of one probe, a message, the worker or the service), a clock set forward by 2 | `InUseIsProtected`: in a protected use for longer than a state lasts means protected, with children and processes of the same image. `EventuallyLeft`: with everything running, what is in no protected use is left to the policy |

The larger runs have 5,607,113 (`PlacementSafe`, 2 min), 1,886,320 (`Provision`,
42 s), 1,714,618 (`Reload`, 3 min), 978,443 (`PlacementLive`) and 300,120 (`Pipe`)
distinct states; `Width` has 55,718 and `Log` 53,014.

Why the bounds suffice. `Width`: the three topologies are an even one that the
spread has to walk twice, an uneven one with parked, foreign, realtime and
split siblings in which a configuration can reserve every assignable core, and
one core; two samples are a whole window, and two reloads enable the probe again
after it was off. `Log`: two archives are the least for which a rotation moves an
archive onto another; two faults are a failed step and its failed recovery.
`PlacementSafe`: one fault, one crash and one outsider's assignment meet at every
step of a platform call, a second process is what a loop goes on with.
`Provision`: a second command finds what the first, failed one left; two faults
are an operation and its recovery. `Reload`: two starts are the least for a
status of another process, two saves the least for one between the time and the
file. `Pipe`: three trays are one more than there are places.

**Fairness.** `FairSpec` is weak fairness of the controller thread's next step
(and of the pipe worker's in `InteractiveWake`). The thread never waits for
anything but `recv_timeout`, which returns after the interval, and
`apply_service_settings` has the service manager restart a failed service.
`PlacementJournal` adds strong fairness of `EndReconcile`: between safety ticks the
policy becomes due, as its interval is measured on a clock. The environment is
never fair: nobody has to enable, stop, crash or write. Faults
are bounded, so a call that keeps failing is not considered: no retry helps then.
`Responsiveness` has weak fairness of each of its two threads, whose waits end
with the interval and with the probe's deadline. `InteractivePipe` has it for the
passing of time, for the trays' threads and for the worker's read, which is
bounded by its own timeout. `Controller` has it for the service, starts included
while their bound lasts; Settings, editors and tray owe nothing. `EventLog` has it
for `Start` and for `Event`: the service is started again and events go on.
`Provisioning` claims no liveness: a wait that ends and one that times out are
both admitted.

## 4. Proofs

What the runs check of a safety property on one instance is proved here for every
set of processes, domains, documents and snapshots, and for every bound. Each
proof module has the same order: facts about the component's records and
operators, then `Init`, one lemma per action and conjunct it can disturb, the
step, and the theorems. The inductive invariants stand in the components'
modules, or at the head of the proof where it needs operators of its own, and TLC
has checked each of them on the component's run before it was proved.

`BackgroundJournalProofs`. The functions on records first: what each preserves
of types and of `Loadable`. Then three layers, each resting on the one before.

- `IInv` gives `TypeCorrect` and `AlwaysLoadable` (`JournalLoadable`). Whether
  the next record written is acceptable depends on what the local variables stand
  for, so `IInv` says it for each program counter: records (`RecordsOK`), the
  visit (`VisitOK`: a record pending exactly where the code has established it,
  what it owned before is not blocked), the call (`CallOK`: on properties the
  record owns; what could not be restored and what an outsider changed are
  disjoint), the cleanup (`CleanupOK`).
- `FocusOK` adds that a call works on the process of the visit and that a fresh
  record blocks nothing: `BlockedStaysUntouched` (`BlockedUntouched`) and
  `BlocksOutliveVetoes` (`BlockSurvivesVeto`).
- `AheadInv`, for `Perils = {}` (no write by an outsider inside a platform call, and
  no failing second query, windows.rs 1329): `WrittenAhead` (`WriteAhead`) and
  `RestoresGiveBack` (`RestoreSparesOutsiders`). `WriteAhead` speaks of the file;
  to be inductive it
  has to hold of the memory too (`HonestOK`), to say that nothing is written yet
  when a transaction is journaled (`IntentOK`), that a call goes from the applied
  to the pending values of the record on disk or back (`TransactOK`), that a
  restore goes by values it has read (`GivingOK`), and that what the policy wants
  is not already there unless it was seen there (`ForeseenOK`).

`PlacementJournalProofs`. `OwnershipInv` (`Ownership`) relates what the service
would take for its own assignment to who made it, in memory, in the file, in the
list a rollback would put back (`OwnOK`) and in the observation of the tick
(`ObservedOK`). It gives `TypeCorrect` and `OnlyOwnAssignments`
(`ExternalObserved`). `JournalInv` is the converse of `OwnOK`: what the service
assigned and is no stray is recognised, by the file unless it is the assignment
being made or taken back (`JournalOK`), by the coming reconciliation (`SeenOK`)
and after a rollback (`HandOK`). It gives
`NothingIsForgotten` (`NothingForgotten`). Neither has a condition: failures, crashes,
reloads and outsiders' assignments come at every step the module has.

`PolicyEngineProofs`. `PolicyInv` (`PolicyInvariant`) gives `PolicyTypes`,
`NoneLeftPending` (`Answered`) and `MovesAreEarned` (`MovesEarned`). `MovesEarned` is
about the orders given; that they were earned follows from the engine counting
no more than really happened (`CountsOK`), which a rebuilt engine, a process that
ends and an order that fails have each to keep, and from an order speaking of
the process where it is (`SightOK`). That a step gives no more orders than the
budget and that every pending state has its order (`OrdersOK`) is what an
acknowledgement relies on.

`ResponsivenessProofs`. Most of it is about `Topology`: the place of an element in
a finite order, which cores `Selected` takes, that `FirstPass` visits different
domains (`Distances`), how many cores of each domain are taken, and what a plan
may use. From these, `ReserveIsSpread` (`ReserveSpread`) and `WidthIsFit`
(`WidthFits`) hold for every snapshot of CPU Sets that is a topology. `WidthInv`
(`WidthInvariant`) says that the width is within the plan's bounds (`BoundsOK`),
that a streak counts readings there were, all since the last change
(`StreaksOK`), and that at most one sample is from before the probe was enabled,
none while the probe is about to record one (`StaleOK`): the last gives
`WidthIsEarned` (`WidthEarned`) its clause about the race with the probe's thread.

`InteractiveProofs`. Of `InteractiveWake`, whose names are its own so that both
modules can be extended at once: `TypeCorrect` (`WakeTypeOK`); `ChannelBounded`
(`TicksBounded`) by `TicksInv`, which adds to the Ticks in the channel the claim
about to send one, the Tick about to reset the flag, and the flag while unset:
never more than three; `NoWakeLost`
(`NoLostWakeUnlessCommand`) by `SignalInv`: without commands a flag that is set
has a Tick on its way (`FlagKept`), and so has a receipt that is not answered from
before the controller may adopt what it could veto (`Answering`).

Of `InteractivePipe`: `PipeTypes`, and `WhatIsInUseIsProtected`
(`InUseIsProtected`) for `Jumps \subseteq Nat`, a clock that is never set back, and
whatever switches. `ToldOK` says of what a tray holds, the pipe carries and the
service keeps that it is as old as its age: had nothing changed since, each
probe that worked would say what is in use.

`ControllerProofs`. `SaveKeepsMeaning`: a document that was accepted is written
back by Settings as one that is accepted and means the same, whatever its schema.
`AppliedMeansRun` (`AppliedIsOwn`) by `AppliedOK`: a status Settings may take for
its receipt is of a controller that ran the configuration, with `LoadedOK`: no two
saves share a modification time. `NothingWithoutConsent` (`OwnsOnlyByConsent`) by
`RefusalOK`: a refusal is on disk and in force.

`ProvisioningProofs`. `AllOrNothingProved`: every step of the commands is a step of
`Registration` under the mapping of section 2, or leaves it as it is.
`PriorStateIsRestored`, `RemovedIsClean` and `StopLeavesNothing` say what a reported
success or failure is worth. `ProvisionInv` describes a command by the steps it
has still to do: what it has done of the registration (`StandingOK`) and in which
state the service can be (`ServiceOK`), for each rest of a plan, a recovery's
included.

`EventLogProofs`. What the file operations keep: `MovedInOrder` says when moving
files keeps the order of their records and loses none but the oldest, and
`RotatedFiles` and `PrunedFiles` that every prefix of a rotation and of a prune
moves them so. From there the outcomes of each operation, as it is composed:
order and ring (`Tidy`), and a writer that counts no less than the whole records
of its file and holds no more than its limit or one record (`Fits`). What a crash
leaves keeps both (`InterruptedKept`). `LogInv` (`LogSafe`) is
both, with the types and the window's count. It gives `WithinLimitsProved`
(`WithinLimits`), `DecisionsCounted` (`EveryDecisionCounted`), `NeverReordered`
(the first half of `OldestFirst`) and, for `~ PruneMayStop`, `OldestLost`
(`OldestFirst`): a record's age is one more than that of the next one, because
some record of that age exists (`Followed`) and the order leaves no other.

**Assumptions.** The `ASSUME` of each module, which TLC evaluates in the runs:
types of the constants, finite sets where the code has collections, `None` outside
of what it stands beside. `ResponsivenessAssumption` says that snapshots are
topologies as `query_cpu_topology` returns them (`IsTopology`) and
configurations are ones `validate` accepts (`Valid`). The theorems with a condition
name it (`Perils = {}` of `BackgroundJournal` twice, `Jumps \subseteq Nat`,
`~ PruneMayStop`); section 5 says what the code does without it.

**What the proofs corrected.** `Reading` and `Evaluated` were written with CASE and
overlapping guards. TLA+ leaves open which of two true guards is taken, TLC takes
the first, the code's `if`s do too: they now say so. `SpreadOf` asked for a
physical core outside the reserve on a machine without any. `Stop` of `EventLog`
gave the writer two values at once and so took place only without a log: it now
closes the writer it has written with. `OldestFirst` was stated over a flattened
sequence with recursive operators; over places in files it says the same.

**Only model-checked.** The liveness properties (`RestoredAfterDisable`,
`ClearedAfterDisable`, `EventuallyAnswered`, `Settles`, `WidthSettles`,
`ResumesUnlessStranded`, `EverySaveAnswered`, `Drains`, `EventuallyLeft`): temporal
proofs under fairness are out of the prover's reach. Every safety and action
property of the runs is a theorem.

## 5. Where code and documentation disagree

Properties of the passing runs exclude these behaviours of the code, each by a
constant or a condition; `findings` in `PROJECT.json` quotes both sides. What to
change to see them:

| Behaviour | How to reach it |
|---|---|
| A failing second query makes an outsider's memory priority the service's own (windows.rs 1329) | `JournalCrash` with `Perils = {"requery"}`: `WriteAhead` first, `RestoreSparesOutsiders` on its own |
| A crash between `apply_process_key` and `persist_managed_state` leaves an unowned assignment (main.rs 1873); so do an observation that misses a process (1525), a failing read-back (windows.rs 2022) and a failing rollback (main.rs 1936) | part of every run: `PlacementSafe` with `NothingForgotten` without `\ stray` |
| An assignment anchored in a wholly reserved domain is not retried after a failed cleanup (main.rs 1488) | `PlacementLive` with the domain in `Reserved`: `ClearedAfterDisable` |
| In the mode Observe a strict rule assigns CPU Sets, and the next tick clears them (adaptive.rs 693) | `PlacementLive` with a process in `StrictKeys`: `ClearedAfterDisable` |
| A list in processor order is compared with one in id order: where they differ the process is assigned again at every evaluation (main.rs 1491) | `Policy` with `Ordered = {}`: `Settles` |
| A writer without a file whose recovery failed never opens one again (event_logger.rs 160) | `Log`: `Resumes` instead of `ResumesUnlessStranded` |
| A rejected reconfiguration leaves an archive beyond the ring (event_logger.rs 207) | `Log`: `WithinLimits` without `"archive" \in scars` |
| A rollback leaves the replacement running when others start it in between (main.rs 3456); an uninstall succeeds with entries likewise (3935) | `Provision`: `RestartLoadsPrior`; `RemovedClean` without `~ disturbed` |
| The clock set back makes the state of a tray that is gone fresh again (control lib.rs 52) | `Pipe` with `Jumps <- Back`: `InUseIsProtected` |
| A disable while scheduling is off anyway is not written (main.rs 1761) | `Reload` with a `refusal` that every disable sets: `OwnsOnlyByConsent` |

A smaller ring prunes its lowest surplus archive first: when the removal of a
higher one fails, older records stay behind a gap (event_logger.rs 276). `Log`
with `PruneMayStop = TRUE` shows it as a violation of `OldestFirst`, and so does a
prune that a crash cuts off. An archive that a rejected reconfiguration left counts
as left for good (`scars`): what a later start or reload prunes of it is not told
from what stays.

Two more were met while modelling and concern what no property says: Settings
takes a rejection of another file for its own (windows_app.rs 401), and the width
controller acts on 100 samples of a window of 6,000 (responsiveness.rs 7).
A crash in a restore, after the write and before the journal's update, leaves a
restored value that the next tick takes for an external override; the policy
stays blocked for that property until a cleanup (main.rs 2518). `cleanup_managed`
clears without comparing the list with the recorded one (main.rs 1961). The models
show both, no property speaks about them. With `minimum_improvement_bps` at 0 two hot
domains exchange a process after every cooldown (`Policy` with `MinImprovement = 0`:
`Settles`). `hazards` in `PROJECT.json` lists these places without a property, each
with the reason.

## 6. Plan

1. *Done*: `EfficiencyRecord`, `BackgroundJournal`, their theorems;
   `PlacementJournal`; `InteractiveWake` with its theorems; `PolicyEngine`.
2. *Done*: `Topology`, `Responsiveness`; `InteractivePipe`; `Configuration` and
   `Controller`; `EventLog`; `Provisioning` and its refinement of `Registration`.
3. *Done*: every safety and action property of the runs and the refinement of
   `Registration`, proved (section 4).
4. Left to model: the simulated orders of the enforcement Observe, the
   responsiveness log's gate and the memory-pressure hysteresis, which are step
   functions of little risk; a refinement of `Controller`'s abstract journal by
   the two journals' modules.

## 7. Not modelled

User interfaces, presentation, diagnostics, packaging and the texts of logs
carry no state that others rely on. The syntax of the configuration is an input
format; the ranges of its numbers are one field of a document. CPU accounting,
window and audio enumeration and memory pressure are system queries whose results
enter the modules as free choices. The one-process runner is a straight line of
system calls. The command `status`
only reads, `console` runs the same loop a few times.
