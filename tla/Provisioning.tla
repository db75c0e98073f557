---------------------------- MODULE Provisioning ----------------------------
(***************************************************************************)
(* The commands of winsched-service that change its registration with the  *)
(* service control manager or the state of the service: provision (and     *)
(* install), register, start, stop and uninstall. A command is a series of *)
(* calls any of which may fail; the service, the manager's own restarts    *)
(* and users with the tray act between them.                               *)
(*                                                                         *)
(* One command runs at a time. What it still has to do is task.todo; the   *)
(* steps "running" and "stopped", which are ensure_service_running and     *)
(* ensure_service_stopped, and "capture" are several calls, of which       *)
(* task.call is the next one: "query", "act" (start or stop), or to wait   *)
(* for the state "running" or "stopped".                                   *)
(***************************************************************************)
EXTENDS Integers, Sequences, Functions

CONSTANTS
    None,         (* no registration; no command; nothing captured          *)
    Priors,       (* start types a prior registration may have              *)
    MaxFaults,    (* bound: calls of commands that fail                     *)
    MaxMeddling,  (* bound: starts by users and by the service manager      *)
    MaxCommands   (* bound: commands                                        *)

Journals == {"placement", "background"}
Fields == {"image", "description", "actions", "flag", "acl"}
StartTypes == {"auto", "demand", "disabled"}
Versions == {"prior", "new", "unset"}
Registry == [image : Versions, description : Versions, actions : Versions,
             flag : Versions, acl : Versions, start : StartTypes,
             doomed : BOOLEAN]

Steps == {"open", "capture", "change", "description", "actions", "flag", "acl",
          "running", "stopped", "config", "demand", "disabled", "delete",
          "absent", "exit", "load"} \cup Journals
Tasks == [op : {"provision", "register", "uninstall", "start", "stop"},
          todo : Seq(Steps), call : {"query", "act", "running", "stopped"},
          start : BOOLEAN, before : {None} \cup Registry,
          captured : {None} \cup Registry, state : {"running", "stopped"},
          origin : {"none", "existing", "created"}, recovering : BOOLEAN,
          failed : BOOLEAN, held : SUBSET Journals, left : SUBSET Journals]

ASSUME ProvisioningAssumption ==
    /\ None \notin Registry \cup Tasks
    /\ Priors \subseteq StartTypes
    /\ MaxFaults \in Nat /\ MaxMeddling \in Nat /\ MaxCommands \in Nat

VARIABLES
    reg,        (* the registration                                         *)
    proc,       (* the service: its state, the image it runs, its exit code *)
    pending,    (* the journals with entries, in the data directory         *)
    corrupt,    (* those that cannot be loaded                              *)
    task,       (* the command under way                                    *)
    outcome,    (* the last command and how it ended                        *)
    disturbed,  (* auxiliary: others started it or it failed by itself      *)
                (* during the command                                       *)
    faults, meddling, commands

vars == <<reg, proc, pending, corrupt, task, outcome, disturbed,
          faults, meddling, commands>>

Registered(version, start) ==
    [image |-> version, description |-> version, actions |-> version,
     flag |-> version, acl |-> version, start |-> start, doomed |-> FALSE]
Wanted == Registered("new", "auto")
Registrations == {Registered("prior", s) : s \in Priors}
Doom(r) == [r EXCEPT !.doomed = TRUE]

Init ==
    /\ reg \in {None} \cup Registrations
    /\ corrupt \in SUBSET Journals
    /\ pending \in SUBSET Journals /\ corrupt \subseteq pending
    /\ proc \in [state : {"stopped", "running"}, image : {"prior"}, exit : {0, 1}]
    /\ proc.state = "running" => reg # None /\ proc.exit = 0 /\ corrupt = {}
    /\ proc.state = "stopped" /\ pending # {} => proc.exit = 1
    /\ task = None
    /\ outcome = [op |-> "none", result |-> "ok"]
    /\ disturbed = FALSE
    /\ faults = 0 /\ meddling = 0 /\ commands = 0

-----------------------------------------------------------------------------
\* The service and its manager

service == <<proc, pending>>
command == <<task, outcome, commands>>

Startable ==
    /\ reg # None /\ ~ reg.doomed /\ reg.start # "disabled"
    /\ proc.state = "stopped"
Starting == [state |-> "starting", image |-> reg.image, exit |-> 0]

\* run_service up to Running, or fail_start, which restores what the
\* journals that can be loaded record.
Started ==
    /\ proc.state = "starting"
    /\ \/ proc' = [proc EXCEPT !.state = "running"] /\ UNCHANGED pending
       \/ /\ proc' = [proc EXCEPT !.state = "stopped", !.exit = 1]
          /\ pending' \in SUBSET pending /\ corrupt \subseteq pending'
    /\ UNCHANGED <<reg, corrupt, command, disturbed, faults, meddling>>

\* A tick journals what it is about to change.
Manages ==
    /\ proc.state = "running" /\ corrupt = {}
    /\ \E j \in Journals \ pending : pending' = pending \cup {j}
    /\ UNCHANGED <<reg, proc, corrupt, command, disturbed, faults, meddling>>

\* The end of run_controller: its final cleanup keeps the entries it could
\* not restore and reports them as its exit code.
\* Mutant: what is left does not show in the exit code.
ExitAlwaysZero(left) == 0

Exit(left) == IF left = {} THEN 0 ELSE 1

Stopped ==
    /\ proc.state = "stopping"
    /\ pending' \in SUBSET pending /\ corrupt \subseteq pending'
    /\ proc' = [proc EXCEPT !.state = "stopped", !.exit = Exit(pending')]
    /\ UNCHANGED <<reg, corrupt, command, disturbed, faults, meddling>>

\* run_controller returns an error, as it does when a journal cannot be
\* loaded, or the process dies.
Fails ==
    /\ proc.state = "running"
    /\ proc' = [proc EXCEPT !.state = "stopped", !.exit = 1]
    /\ pending' \in SUBSET pending /\ corrupt \subseteq pending'
    /\ disturbed' = TRUE
    /\ UNCHANGED <<reg, corrupt, command, faults, meddling>>

\* The manager restarts a service that failed, also one that failed while it
\* was being stopped (failure actions on non-crash failures); the service's
\* ACL lets interactive users start it.
StartedByOthers ==
    /\ meddling < MaxMeddling /\ Startable
    /\ proc' = Starting
    /\ meddling' = meddling + 1
    /\ disturbed' = TRUE
    /\ UNCHANGED <<reg, pending, corrupt, command, faults>>

\* A registration marked for deletion goes when the service has stopped and
\* the last handle to it is closed: a command drops its own before it waits.
Vanishes ==
    /\ reg # None /\ reg.doomed /\ proc.state = "stopped"
    /\ task # None => task.todo = <<"absent">>
    /\ reg' = None
    /\ UNCHANGED <<service, corrupt, command, disturbed, faults, meddling>>

-----------------------------------------------------------------------------
\* Commands

NewTask(op, todo, start) ==
    [op |-> op, todo |-> todo, call |-> "query", start |-> start,
     before |-> reg, captured |-> None, state |-> "stopped",
     origin |-> "none", recovering |-> FALSE, failed |-> FALSE,
     held |-> {}, left |-> {}]

Step == Head(task.todo)

Finish(result) ==
    /\ task' = None
    /\ outcome' = [op |-> task.op, result |-> result]

\* What is left to do after the present step, which has succeeded.
GoOn(t) ==
    IF Len(t.todo) > 1
    THEN task' = [t EXCEPT !.todo = Tail(@), !.call = "query"]
         /\ UNCHANGED outcome
    ELSE Finish(IF ~ t.recovering THEN "ok"
                ELSE IF t.failed THEN "recovery" ELSE "error")

\* Mutant: a service whose registration is disabled is left stopped.
RecoveryOfDisabled(t) ==
    IF t.origin = "created" THEN <<"stopped", "delete", "absent">>
    ELSE <<"stopped", "config", "description", "actions", "flag", "acl",
           IF t.captured.start = "disabled" THEN "stopped" ELSE t.state>>

\* rollback_existing_service, cleanup_created_service
Recovery(t) ==
    IF t.origin = "created" THEN <<"stopped", "delete", "absent">>
    ELSE <<"stopped", "config", "description", "actions", "flag", "acl">> \o
         IF t.state = "running" /\ t.captured.start = "disabled"
         THEN <<"demand", "running", "disabled">> ELSE <<t.state>>

\* A call has failed: of an operation, which is then recovered from if it has
\* changed the registration, or of a recovery, which notes it and goes on.
GiveUp ==
    CASE task.recovering -> GoOn([task EXCEPT !.failed = TRUE])
      [] task.origin # "none" /\ ~ task.recovering ->
            /\ task' = [task EXCEPT !.recovering = TRUE, !.call = "query",
                                    !.todo = Recovery(task)]
            /\ UNCHANGED outcome
      [] OTHER -> Finish("error")

\* The manager refuses a call, or sc.exe or the file system fails.
CallFails ==
    /\ task # None /\ faults < MaxFaults
    /\ task.call \in {"query", "act"}
    /\ faults' = faults + 1
    /\ GiveUp
    /\ UNCHANGED <<reg, service, corrupt, disturbed, meddling, commands>>

Begin ==
    /\ task = None /\ commands < MaxCommands
    /\ commands' = commands + 1 /\ disturbed' = FALSE
    /\ \/ \E op \in {"provision", "register"}, start \in BOOLEAN :
            task' = NewTask(op, <<"open">>, start)
       \/ task' = NewTask("uninstall",
                    IF reg = None THEN <<"load", "placement", "background">>
                    ELSE <<"stopped", "load", "placement", "background",
                           "delete", "absent">>, FALSE)
       \/ reg # None /\ task' = NewTask("start", <<"running">>, FALSE)
       \/ reg # None /\ task' = NewTask("stop", <<"stopped", "exit">>, FALSE)
    /\ UNCHANGED <<reg, service, corrupt, outcome, faults, meddling>>

idle == <<service, corrupt, disturbed, faults, meddling, commands>>

Settings(t) ==
    IF t.start THEN <<"description", "actions", "flag", "acl", "running">>
    ELSE <<"description", "actions", "flag", "acl">>

\* configure_service: an existing registration is captured and changed if
\* the command allows one; otherwise one is created.
Open ==
    /\ task # None /\ Step = "open" /\ task.call = "query"
    /\ IF task.op = "provision" /\ reg # None
       THEN /\ task' = [task EXCEPT !.todo = <<"capture", "change">>
                                                \o Settings(task)]
            /\ UNCHANGED <<reg, outcome>>
       ELSE IF reg = None
       THEN /\ reg' = [Registered("unset", "auto") EXCEPT !.image = "new"]
            /\ task' = [task EXCEPT !.todo = Settings(task),
                                    !.origin = "created"]
            /\ UNCHANGED outcome
       ELSE Finish("error") /\ UNCHANGED reg
    /\ UNCHANGED idle

\* capture_existing_service with stable_prior_service_state
Capture ==
    /\ task # None /\ Step = "capture"
    /\ \/ /\ \/ task.call = "query" /\ proc.state \in {"running", "stopped"}
             \/ task.call = proc.state
          /\ GoOn([task EXCEPT !.captured = reg, !.state = proc.state,
                               !.origin = "existing"])
       \/ /\ task.call = "query" /\ proc.state \in {"starting", "stopping"}
          /\ task' = [task EXCEPT !.call = IF proc.state = "starting"
                                            THEN "running" ELSE "stopped"]
          /\ UNCHANGED outcome
    /\ UNCHANGED <<reg, idle>>

\* Mutant: the prior start type is not restored.
ConfigWithoutStart(t) == [reg EXCEPT !.image = t.captured.image]

\* sc.exe config, which spells the start type only if it was not automatic.
ConfigRestored(t) ==
    [reg EXCEPT !.image = t.captured.image,
                !.start = IF t.captured.start # "auto" THEN t.captured.start
                          ELSE @]

Calls == {"change", "config", "demand", "disabled", "delete"}
            \cup (Fields \ {"image"})

\* change_config, apply_service_settings, delete, and what undoes them. A
\* registration that is marked for deletion takes none of them but deletes.
Writes ==
    /\ task # None /\ Step \in Calls
    /\ IF reg.doomed /\ Step # "delete" THEN GiveUp /\ UNCHANGED reg
       ELSE /\ GoOn(task)
            /\ reg' =
                CASE Step = "change" ->
                        [reg EXCEPT !.image = "new", !.start = "auto"]
                  [] Step = "config" -> ConfigRestored(task)
                  [] Step \in {"demand", "disabled"} ->
                        [reg EXCEPT !.start = Step]
                  [] Step = "delete" -> Doom(reg)
                  [] OTHER ->
                        [reg EXCEPT ![Step] = IF task.recovering
                                              THEN task.captured[Step]
                                              ELSE "new"]
    /\ UNCHANGED idle

\* ensure_service_running, ensure_service_stopped
Ensures ==
    /\ task # None /\ Step \in {"running", "stopped"}
    /\ UNCHANGED <<reg, pending, corrupt, disturbed, faults, meddling, commands>>
    /\ LET Call(c) == task' = [task EXCEPT !.call = c] /\ UNCHANGED outcome
       IN \/ /\ task.call = "query"
             /\ CASE proc.state = Step -> GoOn(task)
                  [] proc.state = "starting" -> Call("running")
                  [] proc.state = "stopping" -> Call("stopped")
                  [] OTHER -> Call("act")
             /\ UNCHANGED proc
          \/ /\ task.call = proc.state
             /\ IF proc.state = Step THEN GoOn(task) ELSE Call("act")
             /\ UNCHANGED proc
          \/ /\ task.call = "act" /\ Step = "running"
             /\ IF Startable THEN proc' = Starting /\ Call("running")
                ELSE GiveUp /\ UNCHANGED proc
          \/ /\ task.call = "act" /\ Step = "stopped"
             /\ IF proc.state = "running"
                THEN /\ proc' = [proc EXCEPT !.state = "stopping"]
                     /\ Call("stopped")
                ELSE GiveUp /\ UNCHANGED proc

\* wait_until_running, wait_until_stopped, wait_until_absent after 20 s.
TimesOut ==
    /\ task # None
    /\ \/ task.call \in {"running", "stopped"} /\ proc.state # task.call
       \/ Step = "absent" /\ reg # None
    /\ GiveUp
    /\ UNCHANGED <<reg, idle>>

Absent ==
    /\ task # None /\ Step = "absent" /\ reg = None
    /\ GoOn(task)
    /\ UNCHANGED <<reg, idle>>

\* stop(): what the service has reported when it ended.
ExitCode ==
    /\ task # None /\ Step = "exit"
    /\ IF proc.exit = 0 THEN GoOn(task) ELSE Finish("error")
    /\ UNCHANGED <<reg, idle>>

\* cleanup_persisted_state: both journals are loaded first; of one alone, the
\* entries are restored and the command fails.
Load ==
    /\ task # None /\ Step = "load"
    /\ IF corrupt = {}
       THEN GoOn([task EXCEPT !.held = pending]) /\ UNCHANGED pending
       ELSE /\ pending' \in IF corrupt = Journals THEN {pending}
                            ELSE {pending, corrupt}
            /\ Finish("error")
    /\ UNCHANGED <<reg, proc, corrupt, disturbed, faults, meddling, commands>>

\* Mutant: what could not be restored is not counted.
RefusesNever(left) == FALSE

Refuses(left) == left # {}

\* What was loaded is restored and the journal rewritten, or some of it is
\* left; the report of the first journal is looked at with the second's.
Cleanup ==
    /\ task # None /\ Step \in Journals
    /\ \E left \in SUBSET (task.held \cap {Step}) :
        /\ pending' = pending \ ((task.held \cap {Step}) \ left)
        /\ IF Step = "background" /\ Refuses(task.left \cup left)
           THEN Finish("error")
           ELSE GoOn([task EXCEPT !.left = @ \cup left])
    /\ UNCHANGED <<reg, proc, corrupt, disturbed, faults, meddling, commands>>

Next ==
    \/ Started \/ Manages \/ Stopped \/ Fails \/ StartedByOthers \/ Vanishes
    \/ Begin \/ CallFails \/ Open \/ Capture \/ Writes \/ Ensures \/ TimesOut
    \/ Absent \/ ExitCode \/ Load \/ Cleanup

Spec == Init /\ [][Next]_vars

-----------------------------------------------------------------------------
\* Properties

\* Types; only what is registered runs, and a command under way has something
\* left to do.
TypeOK ==
    /\ reg \in {None} \cup Registry
    /\ proc \in [state : {"stopped", "starting", "running", "stopping"},
                 image : Versions, exit : {0, 1}]
    /\ proc.state # "stopped" => reg # None
    /\ corrupt \subseteq pending /\ pending \subseteq Journals
    /\ task = None \/ (task \in Tasks /\ task.todo # <<>>)
    /\ outcome \in [op : {"provision", "register", "uninstall", "start", "stop",
                          "none"},
                    result : {"ok", "error", "recovery"}]
    /\ disturbed \in BOOLEAN
    /\ faults \in 0..MaxFaults /\ meddling \in 0..MaxMeddling
    /\ commands \in 0..MaxCommands

\* A command that changes the registration leaves the one it was to make or,
\* if it reports an error without a failed recovery, exactly the one it
\* found: image path, start type, description, failure actions, flag and ACL.
Abstract == INSTANCE Registration WITH
    registration <- IF task = None THEN reg ELSE task.before,
    Doomed <- Doom

AllOrNothing == Abstract!Spec

\* A provisioning that has failed and recovered leaves the service as it was
\* found, running from the image it was registered with or stopped, whatever
\* its start type.
PriorStateRestored ==
    [][task # None /\ task' = None /\ task.origin = "existing" /\ ~ disturbed
            /\ outcome'.result = "error"
        => /\ proc'.state = task.state
           /\ task.state = "running" => proc'.image = task.captured.image]_vars

\* An uninstall that succeeds leaves no service, no process of it and no
\* journal with entries (background-efficiency-design.md: the service refuses
\* normal uninstall while a journal has pending entries).
RemovedClean ==
    [][task # None /\ task' = None /\ ~ disturbed
            /\ outcome' = [op |-> "uninstall", result |-> "ok"]
        => reg' = None /\ proc'.state = "stopped" /\ pending' = {}]_vars

\* A failed provisioning never leaves the replacement running under the prior
\* registration (main.rs:3453: stopping first guarantees that the final
\* restart loads the prior binary). The code does so unless somebody starts
\* the service between that stop and the restored configuration.
RestartLoadsPrior ==
    [][task # None /\ task' = None /\ task.origin = "existing"
            /\ outcome'.result = "error" /\ proc'.state = "running"
        => proc'.image = task.captured.image]_vars

\* A stop that succeeds says that everything the service had changed is
\* restored: Setup relies on it before it replaces the binaries.
StopMeansClean ==
    [][task # None /\ task' = None /\ ~ disturbed
            /\ outcome' = [op |-> "stop", result |-> "ok"]
        => proc'.state = "stopped" /\ pending' = {}]_vars

-----------------------------------------------------------------------------
(***************************************************************************)
(* The inductive invariant                                                 *)
(***************************************************************************)
ToDo(t) == Range(t.todo)
Final(t) == t.todo[Len(t.todo)]

\* The step a comes before every b, and such a step follows it.
Ahead(t, a, b) ==
    /\ \A i, j \in DOMAIN t.todo : t.todo[i] = a /\ t.todo[j] = b => i < j
    /\ a \in ToDo(t) => b \in ToDo(t)

Settable == Fields \ {"image"}
Provisions(t) == t.op \in {"provision", "register"}
Changing(t) == t.origin # "none" /\ ~ t.recovering
Removing(t) == t.origin = "created" /\ t.recovering
Restoring(t) == t.origin = "existing" /\ t.recovering

\* What a command may have left to do, and in which order.
PlanOK(t) ==
    /\ t.op = "start" => ToDo(t) \subseteq {"running"}
    /\ t.op = "stop" => /\ ToDo(t) \subseteq {"stopped", "exit"}
                        /\ Final(t) = "exit"
    /\ t.op = "uninstall" =>
        /\ ToDo(t) \subseteq {"stopped", "load", "placement", "background",
                              "delete", "absent"}
        /\ Ahead(t, "stopped", "load") /\ Ahead(t, "load", "placement")
        /\ Ahead(t, "placement", "background")
        /\ t.before = None => ToDo(t) \cap {"stopped", "delete", "absent"} = {}
        /\ t.before # None => Final(t) = "absent"
    /\ Provisions(t) /\ t.origin = "none" =>
        t.todo \in {<<"open">>, <<"capture", "change">> \o Settings(t)}
    /\ Changing(t) => ToDo(t) \subseteq {"change", "running"} \cup Settable
    /\ Removing(t) => /\ ToDo(t) \subseteq {"stopped", "delete", "absent"}
                      /\ Final(t) = "absent"
    /\ Restoring(t) =>
        /\ ToDo(t) \subseteq {"stopped", "config", "demand", "running",
                              "disabled"} \cup Settable
        /\ ToDo(t) \cap {"demand", "disabled"} # {}
                => t.captured.start = "disabled"
        /\ "demand" \in ToDo(t) => Final(t) = "disabled"
        /\ t.state = "running" => /\ Ahead(t, "stopped", "config")
                                  /\ Ahead(t, "config", "running")
        /\ t.state = "stopped" => "running" \notin ToDo(t)

\* What a command recovers from is what it found.
OriginOK(t) ==
    /\ t.origin # "none" => Provisions(t)
    /\ t.failed => t.recovering
    /\ t.recovering => t.origin # "none"
    /\ t.origin = "created" => t.before = None
    /\ t.origin = "existing" => t.captured = t.before /\ t.before # None

\* How far the registration r is from the one found and the one wanted, with
\* these steps ahead.
StandingOK(t, ahead, r) ==
    /\ r = None => ahead \cap Calls = {}
    /\ t.origin # "none" /\ ~ Removing(t) => r # None
    /\ t.origin = "none" /\ t.op # "uninstall" => r = t.before
    /\ t.op = "uninstall" =>
        IF t.before = None THEN r = None
        ELSE r \in {None, t.before, Doom(t.before)}
    /\ Changing(t) =>
        /\ \A f \in Settable \ ahead : r[f] = "new"
        /\ "change" \notin ahead =>
              r.image = "new" /\ r.start = "auto" /\ ~ r.doomed
        /\ t.origin = "existing" => /\ r.doomed = t.captured.doomed
                                    /\ r.start \in {t.captured.start, "auto"}
    /\ Restoring(t) /\ ~ t.failed =>
        /\ r.doomed = t.captured.doomed
        /\ \A f \in Settable \ ahead : r[f] = t.captured[f]
        /\ "config" \notin ahead => r.image = t.captured.image
        /\ t.captured.start = "auto" => r.start = "auto"
        /\ ahead \cap {"config", "disabled"} = {}
                => r.start = t.captured.start

\* What is known of the service p and the journals' entries j, with these
\* steps ahead, while nobody else starts it.
ServiceOK(t, ahead, p, j) ==
    /\ t.op = "stop" /\ "stopped" \notin ahead =>
        /\ p.state = "stopped"
        /\ "exit" \notin ahead => j = {}
    /\ t.op = "uninstall" /\ "stopped" \notin ahead =>
        /\ p.state = "stopped"
        /\ "load" \notin ahead =>
            /\ j \subseteq t.held
            /\ "placement" \notin ahead => j \cap {"placement"} \subseteq t.left
            /\ "background" \notin ahead => j = {}
    /\ Restoring(t) /\ ~ t.failed =>
        /\ "config" \in ahead => p.state = "stopped"
        /\ "config" \notin ahead =>
            \/ p.state = "stopped"
            \/ /\ p.state \in {"starting", "running"}
               /\ p.image = t.captured.image /\ t.state = "running"
        /\ t.state = "running" /\ "running" \notin ahead => p.state = "running"

\* A recovery has yet to stop the service.
Stops(t) ==
    Restoring(t) /\ Head(t.todo) = "stopped" /\ "config" \in ToDo(t)

ExitOK == proc.state = "stopped" /\ proc.exit = 0 => pending = {}
CommandOK ==
    task # None =>
        /\ PlanOK(task) /\ OriginOK(task)
        /\ StandingOK(task, ToDo(task), reg)
        /\ task.held # {} => corrupt = {}
        /\ disturbed \/ Stops(task)
              \/ ServiceOK(task, ToDo(task), proc, pending)
ProvisionInv == ExitOK /\ CommandOK
=============================================================================
