----------------------------- MODULE Controller -----------------------------
(***************************************************************************)
(* The controller's main loop and its life in the service, the files it    *)
(* shares with Settings (winsched.toml, status.json, runtime-state.json),  *)
(* the commands of the tray and the command line, and an Apply in Settings *)
(* with its wait for the receipt. Any of them may go wrong at any time: a  *)
(* file cannot be read or replaced, a cleanup fails, the service dies and  *)
(* is started again.                                                       *)
(*                                                                         *)
(* What the loop owns is of two kinds, "placement" (CPU Sets) and          *)
(* "background" (efficiency); the modules of the two journals say how. The *)
(* fingerprint that Settings compares tells configurations apart.          *)
(***************************************************************************)
EXTENDS Configuration, Sequences

CONSTANTS
    None,          (* no file; nothing read yet; nothing to compare with    *)
    Documents,     (* the documents an editor may write                     *)
    Bad,           (* what is found in a file that cannot be loaded         *)
    MaxStarts,     (* bound: starts of the service                          *)
    MaxSaves,      (* bound: writes of winsched.toml                        *)
    MaxCommands,   (* bound: commands of users                              *)
    MaxFaults      (* bound: failing calls and crashes                      *)

\* load_config
Loaded(d) == IF Accepted(d) THEN FromToml(d) ELSE Bad
Configurations == {Loaded(d) : d \in Documents} \ {Bad}

\* What is in the file, and what it is loaded as.
Files == Documents \cup {ToToml(c) : c \in Configurations}
Found == [d \in Files |-> Loaded(d)]

\* The configurations there may be: a rejected file leaves the log's level.
InForce ==
    Configurations \cup {[Default EXCEPT !.level = c.level] : c \in Configurations}

Kinds == {"placement", "background"}

ASSUME ControllerAssumption ==
    /\ Documents \subseteq Document /\ Configurations # {}
    /\ None \notin BOOLEAN
    /\ MaxStarts \in Nat /\ MaxSaves \in Nat
    /\ MaxCommands \in Nat /\ MaxFaults \in Nat

VARIABLES
    file,       (* winsched.toml: its content and its modification time     *)
    disk,       (* status.json, None before the first one                   *)
    choice,     (* scheduling_enabled in runtime-state.json, None: no file  *)
    owned,      (* the kinds of processes changed and journalled            *)
    loop,       (* the controller: where it is and what it knows            *)
    commands,   (* the control channel                                      *)
    settings,   (* Settings: its Apply under way and how the last one ended *)
    ran,        (* auxiliary: a controller ran what Apply wants since then  *)
    refusal,    (* auxiliary: scheduling was disabled and not enabled since *)
    count       (* starts, saves, commands and faults so far                *)

vars == <<file, disk, choice, owned, loop, commands, settings, ran, refusal,
          count>>

Down == [pc |-> "down", pid |-> 0]
Up == loop.pc # "down"

\* Settings waits for no receipt.
Quiet(s) == [s EXCEPT !.pc = "idle", !.wants = None, !.base = None, !.news = FALSE]

\* controller_mutations_active and controller_evaluation_active
MutationsActive(c, enabled) == c.scope.mode = "auto" /\ enabled
EvaluationActive(c, enabled) ==
    c.scope.mode = "observe" \/ MutationsActive(c, enabled)

\* What an evaluation may take: a strict rule places processes even where
\* the others only observe (PlacementJournal).
MayTake(c, enabled) ==
    {kind \in Kinds : \E image \in Images :
        IF kind = "background"
        THEN MutationsActive(c, enabled) /\ BackgroundApplies(c, image)
        ELSE \/ EvaluationActive(c, enabled) /\ Placement(c, image) = "strict"
             \/ /\ MutationsActive(c, enabled)
                /\ Placement(c, image) \notin {"none", "off"}}

Init ==
    /\ file \in [content : {d \in Documents : Found[d] # Bad}, stamp : {1}]
    /\ disk = None /\ choice = None
    /\ owned \in SUBSET Kinds
    /\ loop = Down /\ commands = <<>>
    /\ settings = [pc |-> "idle", wants |-> None, base |-> None, news |-> FALSE,
                   retry |-> FALSE, persisted |-> Found[file.content]]
    /\ ran = FALSE /\ refusal = FALSE
    /\ count = [starts |-> 0, saves |-> 0, commands |-> 0, faults |-> 0]

Counts(what, max) ==
    count[what] < max /\ count' = [count EXCEPT ![what] = @ + 1]
Fault == Counts("faults", MaxFaults)

Goes(pc) == loop' = [loop EXCEPT !.pc = pc]

\* publish_controller_status comes next, and after it next.
Then(l, next) == [l EXCEPT !.pc = "publish", !.next = next]

\* A cleanup of these kinds keeps what it could not restore.
Cleaned(kinds) ==
    \/ owned' = owned \ kinds /\ UNCHANGED count
    \/ /\ Fault
       /\ \E left \in SUBSET (owned \cap kinds) \ {{}} :
            owned' = (owned \ kinds) \cup left

Runs(c) == ran' = (ran \/ settings.wants = c)
-----------------------------------------------------------------------------
\* The service

\* load_runtime_state: without a file the mode of the configuration decides.
\* Mutant: a new process starts from the mode alone.
ChosenByMode(c) == c.scope.mode = "auto"

Chosen(c) == IF choice = None THEN c.scope.mode = "auto" ELSE choice

\* UNIX_EPOCH, older than any save: what a new loop remembers.
Epoch == 0

\* run_service and run_controller up to the loop: what is owned is given up
\* at once unless it may be changed.
Start ==
    /\ ~ Up /\ count.starts < MaxStarts /\ Found[file.content] # Bad
    /\ LET c == Found[file.content]
       IN /\ loop' = [pc |-> "publish", next |-> "wait", pid |-> count.starts + 1,
                      config |-> c, enabled |-> Chosen(c), seen |-> Epoch,
                      stamp |-> None, found |-> None, seq |-> 0,
                      result |-> "initial"]
          /\ \E left \in SUBSET owned :
               LET kept == IF MutationsActive(c, Chosen(c)) THEN {} ELSE left
               IN /\ owned' = IF MutationsActive(c, Chosen(c)) THEN owned ELSE kept
                  /\ count.faults + Cardinality(kept) <= MaxFaults
                  /\ count' = [count EXCEPT !.starts = @ + 1,
                                            !.faults = @ + Cardinality(kept)]
          /\ Runs(c)
    /\ commands' = <<>>
    /\ UNCHANGED <<file, disk, choice, settings, refusal>>

\* fail_start and recover_controller_initialization: a configuration that is
\* refused, or any other call that fails, ends the start after a cleanup.
FailStart ==
    /\ ~ Up /\ count.starts < MaxStarts
    /\ Found[file.content] = Bad \/ count.faults < MaxFaults
    /\ owned' \in SUBSET owned
    /\ LET faults == (IF Found[file.content] # Bad THEN 1 ELSE 0) + Cardinality(owned')
       IN /\ count.faults + faults <= MaxFaults
          /\ count' = [count EXCEPT !.starts = @ + 1, !.faults = @ + faults]
    /\ UNCHANGED <<file, disk, choice, loop, commands, settings, ran, refusal>>

Status == [pid |-> loop.pid, seq |-> loop.seq, config |-> loop.config,
           result |-> loop.result]

\* updated_at_unix_ms: Settings sees what was written since Apply.
Published ==
    /\ disk' = Status
    /\ settings' = [settings EXCEPT !.news = settings.pc # "idle"]

\* publish_controller_status: a status that cannot be written ends the loop.
Publish ==
    /\ loop.pc = "publish"
    /\ \/ /\ Published /\ UNCHANGED count
          /\ loop' = [loop EXCEPT !.pc = loop.next, !.next = "wait"]
       \/ /\ Fault /\ UNCHANGED <<disk, settings>>
          /\ loop' = [loop EXCEPT !.pc = "end", !.next = "wait"]
    /\ UNCHANGED <<file, choice, owned, commands, ran, refusal>>

\* set_runtime_enabled: the choice is on disk before it takes effect. A choice
\* that is in force already is not written.
Persisted(e) == IF loop.enabled = e THEN UNCHANGED choice ELSE choice' = e

Stop ==
    /\ loop.pc = "wait" /\ commands # <<>> /\ Head(commands) = "stop"
    /\ commands' = Tail(commands)
    /\ loop' = Then(loop, "end")
    /\ UNCHANGED <<file, disk, choice, owned, settings, ran, refusal, count>>

Enable ==
    /\ loop.pc = "wait" /\ commands # <<>> /\ Head(commands) = "enable"
    /\ commands' = Tail(commands)
    /\ \/ /\ Persisted(TRUE) /\ refusal' = FALSE
          /\ loop' = Then([loop EXCEPT !.enabled = TRUE], "wait")
          /\ UNCHANGED count
       \/ Fault /\ Goes("end") /\ UNCHANGED <<choice, refusal>>
    /\ UNCHANGED <<file, disk, owned, settings, ran>>

\* The cleanup may keep some of what is owned, or end the loop.
Disable ==
    /\ loop.pc = "wait" /\ commands # <<>> /\ Head(commands) = "disable"
    /\ commands' = Tail(commands)
    /\ \/ /\ Persisted(FALSE) /\ refusal' = (refusal \/ loop.enabled)
          /\ \/ /\ Cleaned(Kinds)
                /\ loop' = Then([loop EXCEPT !.enabled = FALSE], "wait")
             \/ /\ Fault /\ owned' \in SUBSET owned
                /\ loop' = [loop EXCEPT !.enabled = FALSE, !.pc = "end"]
       \/ Fault /\ Goes("end") /\ UNCHANGED <<choice, owned, refusal>>
    /\ UNCHANGED <<file, disk, settings, ran>>

\* reload_config_if_changed: the modification time is read before the file.
\* One that cannot be read is None, another one than any before. The one
\* remembered is not looked at again before it is replaced.
Tick ==
    /\ loop.pc = "wait" /\ commands = <<>>
    /\ \E modified \in {file.stamp, None} :
        /\ IF modified = None THEN Fault ELSE UNCHANGED count
        /\ loop' = IF modified = loop.seen THEN [loop EXCEPT !.pc = "act"]
                   ELSE [loop EXCEPT !.pc = "load", !.stamp = modified,
                                      !.seen = None]
    /\ UNCHANGED <<file, disk, choice, owned, commands, settings, ran, refusal>>

Load ==
    /\ loop.pc = "load"
    /\ \/ /\ loop' = [loop EXCEPT !.pc = "adopt",
                               !.found = Found[file.content]]
          /\ UNCHANGED count
       \/ Fault /\ loop' = [loop EXCEPT !.pc = "adopt", !.found = Bad]
    /\ UNCHANGED <<file, disk, choice, owned, commands, settings, ran, refusal>>

\* The modification time remembered is the one read first, for every outcome.
\* Mutant: it is read again once the configuration is in force.
RememberedLate == file.stamp

Remembered == loop.stamp

\* apply_reload_status: every attempt has a number of its own.
Receipt(result, config) ==
    /\ loop' = [loop EXCEPT !.pc = "publish", !.next = "act", !.seq = @ + 1,
                    !.result = result, !.config = config, !.found = None,
                    !.stamp = None, !.seen = Remembered]
    /\ Runs(config)

\* A file that cannot be read or is not valid is refused by falling back to
\* an empty scope that observes; one whose logging section cannot be applied,
\* by keeping the prior configuration.
Adopt ==
    /\ loop.pc = "adopt"
    /\ \/ /\ loop.found # Bad
          /\ \/ Receipt("reloaded", loop.found) /\ UNCHANGED count
             \/ Receipt("rejected", loop.config) /\ Fault
          /\ UNCHANGED owned
       \/ /\ loop.found = Bad
          /\ Cleaned({"placement"})
          /\ Receipt("rejected", [Default EXCEPT !.level = loop.config.level])
    /\ UNCHANGED <<file, disk, choice, commands, settings, refusal>>

\* The rest of a tick. An inactive controller gives up what it owns.
\* Mutant: it only publishes.
IdleTick == UNCHANGED <<owned, count>>

GiveUp == Cleaned(Kinds)

\* An active one evaluates, or only looks after the background policies:
\* it takes what it may and gives back what it need not keep, background
\* policies without a rule for them at once and placements in their turn.
Evaluate ==
    LET may == MayTake(loop.config, loop.enabled)
    IN \/ /\ owned' \in {o \in SUBSET (owned \cup may) :
                            "background" \in o => "background" \in may}
          /\ UNCHANGED count
       \/ /\ Fault /\ "background" \notin may
          /\ owned' \in {o \in SUBSET (owned \cup may) :
                            "background" \in owned \cap o}

TickEnds == Goes("wait") \/ loop' = Then(loop, "wait")

Act ==
    /\ loop.pc = "act"
    /\ \/ ~ EvaluationActive(loop.config, loop.enabled) /\ GiveUp /\ TickEnds
       \/ EvaluationActive(loop.config, loop.enabled) /\ Evaluate /\ TickEnds
       \/ Fault /\ Goes("end") /\ UNCHANGED owned
    /\ UNCHANGED <<file, disk, choice, commands, settings, ran, refusal>>

\* After the loop: a last cleanup, and a last status if it can be written.
End ==
    /\ loop.pc = "end"
    /\ Cleaned(Kinds)
    /\ Published \/ UNCHANGED <<disk, settings>>
    /\ loop' = Down /\ commands' = <<>>
    /\ UNCHANGED <<file, choice, ran, refusal>>

Crash ==
    /\ Up /\ Fault
    /\ loop' = Down /\ commands' = <<>>
    /\ UNCHANGED <<file, disk, choice, owned, settings, ran, refusal>>
-----------------------------------------------------------------------------
\* Users: the tray, the command line, an editor

Notify ==
    /\ Up /\ Counts("commands", MaxCommands)
    /\ \E c \in {"stop", "enable", "disable"} : commands' = Append(commands, c)
    /\ UNCHANGED <<file, disk, choice, owned, loop, settings, ran, refusal>>

Saved(d) == file' = [content |-> d, stamp |-> file.stamp + 1]

Edit ==
    /\ Counts("saves", MaxSaves)
    /\ \E d \in Documents \ {file.content} : Saved(d)
    /\ UNCHANGED <<disk, choice, owned, loop, commands, settings, ran, refusal>>
-----------------------------------------------------------------------------
\* Settings

\* SettingsApp::apply up to the status to compare with (one that cannot be
\* read is none), then its save. A new Apply replaces the one waited for.
Apply ==
    /\ settings.pc \in {"idle", "pending"}
    /\ \E c \in Configurations :
        /\ c # settings.persisted \/ settings.retry
        /\ \E base \in {None, IF disk = None THEN None
                              ELSE [pid |-> disk.pid, seq |-> disk.seq]} :
            /\ settings' = [settings EXCEPT !.pc = "saving", !.wants = c,
                                        !.base = base, !.news = FALSE]
            /\ IF base = None /\ disk # None THEN Fault ELSE UNCHANGED count
        /\ ran' = (Up /\ loop.config = c)
    /\ UNCHANGED <<file, disk, choice, owned, loop, commands, refusal>>

\* A save that fails is reported and gives up the wait as well.
Save ==
    /\ settings.pc = "saving"
    /\ \/ /\ Counts("saves", MaxSaves)
          /\ Saved(ToToml(settings.wants))
          /\ settings' = [settings EXCEPT !.pc = "pending", !.retry = FALSE,
                                          !.persisted = settings.wants]
          /\ UNCHANGED ran
       \/ /\ Fault
          /\ settings' = Quiet(settings)
          /\ ran' = FALSE /\ UNCHANGED file
    /\ UNCHANGED <<disk, choice, owned, loop, commands, refusal>>

\* is_reload_receipt_after. Mutant: the status found is taken as it is.
NewerAnyway(s) == disk # None /\ disk.seq > 0

Newer(s) ==
    /\ disk # None /\ s.news /\ disk.seq > 0
    /\ s.base # None => disk.pid # s.base.pid \/ disk.seq > s.base.seq

Accepts(s) ==
    Newer(s) /\ disk.result = "reloaded" /\ disk.config = s.wants

\* PendingReload::poll. The wait ends at its deadline without such a receipt,
\* or with one about another configuration.
Poll ==
    /\ settings.pc = "pending"
    /\ settings' = [Quiet(settings) EXCEPT !.retry = ~ Accepts(settings)]
    /\ ran' = FALSE
    /\ UNCHANGED <<file, disk, choice, owned, loop, commands, refusal, count>>

\* reload_from_disk: it also gives up the wait.
Reread ==
    /\ settings.pc \in {"idle", "pending"} /\ Found[file.content] # Bad
    /\ settings' = [Quiet(settings) EXCEPT !.persisted = Found[file.content]]
    /\ ran' = FALSE
    /\ UNCHANGED <<file, disk, choice, owned, loop, commands, refusal, count>>

Service == Start \/ FailStart \/ Publish \/ Stop \/ Enable \/ Disable \/ Tick
           \/ Load \/ Adopt \/ Act \/ End
Next == Service \/ Crash \/ Notify \/ Edit \/ Apply \/ Save \/ Poll \/ Reread

Spec == Init /\ [][Next]_vars

\* A thread that can go on goes on; the service is started again while the
\* bound on starts lasts. Nobody need send a command or press a button.
FairSpec == Spec /\ WF_vars(Service)
-----------------------------------------------------------------------------
Statuses == [pid : 1..MaxStarts, seq : Nat, config : InForce,
             result : {"initial", "reloaded", "rejected"}]
Stamps == 1..MaxSaves + 1

Looping ==
    [pc : {"publish", "wait", "load", "adopt", "act", "end"},
     next : {"wait", "act", "end"}, pid : 1..MaxStarts, config : InForce,
     enabled : BOOLEAN, seen : Stamps \cup {Epoch, None},
    stamp : Stamps \cup {None},
     found : Configurations \cup {Bad, None}, seq : Nat,
     result : {"initial", "reloaded", "rejected"}]

Applying ==
    [pc : {"idle", "saving", "pending"}, wants : Configurations \cup {None},
     base : [pid : 1..MaxStarts, seq : Nat] \cup {None}, news : BOOLEAN,
     retry : BOOLEAN, persisted : Configurations]

TypeOK ==
    /\ file \in [content : Files, stamp : Stamps]
    /\ disk \in Statuses \cup {None}
    /\ choice \in BOOLEAN \cup {None}
    /\ owned \in SUBSET Kinds
    /\ loop \in Looping \cup {Down}
    /\ commands \in Seq({"stop", "enable", "disable"})
    /\ settings \in Applying
    /\ ran \in BOOLEAN /\ refusal \in BOOLEAN
    /\ count \in [starts : 0..MaxStarts, saves : 0..MaxSaves,
                  commands : 0..MaxCommands, faults : 0..MaxFaults]

\* From a command that turned scheduling off to the next enable, through
\* crashes, restarts and new configurations, the service takes nothing but
\* what a strict rule places while it only observes. It takes nothing under
\* the configuration that replaces a rejected one, and it puts processes on
\* background efficiency only where a document of schema 4 or newer asks for
\* it in the mode Auto, however often an older one is loaded and saved. (A
\* disable that finds scheduling off already is not written, and a restart
\* may forget it.)
Asked ==
    {Found[d] : d \in {d \in Documents :
        Found[d] # Bad /\ Schema(d) >= 4
            /\ d.scope.background /\ d.scope.mode = "auto"}}
OwnsOnlyByConsent ==
    [][LET taken == owned' \ owned
       IN taken # {} =>
            /\ ~ refusal \/ loop.config.scope.mode = "observe"
            /\ loop.config.scope # Default.scope
            /\ "background" \in taken => loop.config \in Asked /\ ~ refusal]_vars

\* When Settings says that its configuration is in force, a controller has
\* run it since Apply was pressed: neither a status left by an earlier
\* process or attempt nor one about another file is taken for the receipt.
AppliedIsOwn == [][Poll /\ ~ settings'.retry => ran]_vars

\* However the saves fall between the steps of a reload, and though its
\* modification time or the file could not be read, once saves, commands and
\* failures are over (their bounds see to it) a service that is up has
\* published a receipt for the file as it is: its own, and in force.
Answered ==
    /\ disk # None /\ loop.seq > 0
    /\ disk.pid = loop.pid /\ disk.seq = loop.seq
    /\ loop.seen = file.stamp
    /\ loop.result = "reloaded" => loop.config = Found[file.content]
EverySaveAnswered == <>[](Up => Answered)

\* From then on one that is inactive has given back everything, whatever
\* failed at first, and one that may not change anything has given back the
\* background policies.
Drained ==
    /\ ~ EvaluationActive(loop.config, loop.enabled) => owned = {}
    /\ ~ MutationsActive(loop.config, loop.enabled) => "background" \notin owned
Drains == <>[](Up => Drained)
-----------------------------------------------------------------------------
(***************************************************************************)
(* The inductive invariant behind the safety properties                    *)
(***************************************************************************)

\* Every save has a modification time of its own, and what is about to be
\* adopted was loaded.
LoadedOK ==
    /\ file.stamp = count.saves + 1
    /\ loop.pc = "adopt" => loop.found \in Configurations \cup {Bad}

\* While Apply is under way every controller that runs its configuration, and
\* every status about it since, has made `ran` true.
AppliedOK ==
    settings.pc # "idle" =>
        /\ settings.wants \in Configurations
        /\ Up /\ loop.config = settings.wants => ran
        /\ settings.news /\ disk # None /\ disk.config = settings.wants => ran

\* A refusal is on disk, and in force in the service that is up.
RefusalOK == refusal => choice = FALSE /\ (Up => loop.enabled = FALSE)

ControllerInv == TypeOK /\ LoadedOK /\ AppliedOK /\ RefusalOK
=============================================================================
