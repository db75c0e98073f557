--------------------------- MODULE InteractiveWake ---------------------------
(***************************************************************************)
(* How a message of the tray wakes the controller: the pipe worker thread, *)
(* the service control handler and the controller thread share a command   *)
(* channel, two atomic flags and the map of interactive states.            *)
(*                                                                         *)
(* A receipt, an authenticated message about the foreground, visible and   *)
(* audible processes of a session, can veto the background policy of a     *)
(* process. Receipts are numbered in the order in which they are stored.   *)
(* The wake closure asks for a Tick only while the controller owns         *)
(* something, and only one caller at a time: interactive_wake_pending.     *)
(***************************************************************************)
EXTENDS Naturals, Sequences, FiniteSets

CONSTANTS
    Commands,      (* the commands the service manager or the tray send    *)
    MaxCommands,   (* bound: commands sent                                 *)
    MaxReceipts    (* bound: messages of the tray                          *)

ASSUME WakeAssumption ==
    /\ Commands \subseteq {"Enable", "Disable", "Stop"}
    /\ MaxCommands \in Nat /\ MaxReceipts \in Nat

VARIABLES
    queue,        (* the channel: ControllerCommand                        *)
    pending,      (* interactive_wake_pending                              *)
    wakeEnabled,  (* interactive_wake_enabled                              *)
    \* the pipe worker
    pipeWorker,
    received,     (* the newest receipt in the map of states               *)
    asked,        (* the newest receipt that found the wake enabled        *)
    \* the controller
    pc,
    cmd,          (* the command wait_for_command returned                 *)
    owned,        (* a background record owns a property                   *)
    answered,     (* the newest receipt an evaluation has taken account of *)
    commands      (* bound used up                                         *)

shared == <<queue, pending, wakeEnabled>>
pipeSide == <<pipeWorker, received, asked>>
controller == <<pc, cmd, owned, answered>>
wakeVars == <<shared, pipeSide, controller, commands>>

WakeInit ==
    /\ queue = <<>> /\ pending = FALSE
    /\ owned \in BOOLEAN /\ wakeEnabled = owned
    /\ pipeWorker = "listening" /\ received = 0 /\ asked = 0
    /\ pc = "loop" /\ cmd = "Tick" /\ answered = 0
    /\ commands = 0

-----------------------------------------------------------------------------
\* The service control handler

Command(c) ==
    /\ commands < MaxCommands
    /\ commands' = commands + 1
    /\ queue' = Append(queue, c)
    /\ UNCHANGED <<pending, wakeEnabled, pipeSide, controller>>

-----------------------------------------------------------------------------
\* The pipe worker: store the receipt, then call the wake closure

Store ==
    /\ pipeWorker = "listening" /\ received < MaxReceipts
    /\ received' = received + 1
    /\ pipeWorker' = "stored"
    /\ UNCHANGED <<shared, asked, controller, commands>>

Look ==
    /\ pipeWorker = "stored"
    /\ IF wakeEnabled THEN pipeWorker' = "asking" /\ asked' = received
       ELSE pipeWorker' = "listening" /\ UNCHANGED asked
    /\ UNCHANGED <<shared, received, controller, commands>>

\* Mutant: a plain store in place of the compare_exchange.
ClaimedAlways == "claimed"

Claimed == IF pending THEN "listening" ELSE "claimed"

\* compare_exchange(false, true)
Claim ==
    /\ pipeWorker = "asking"
    /\ pipeWorker' = Claimed
    /\ pending' = TRUE
    /\ UNCHANGED <<queue, wakeEnabled, received, asked, controller, commands>>

\* The receiver outlives the worker, so the send does not fail.
SendTick ==
    /\ pipeWorker = "claimed"
    /\ pipeWorker' = "listening"
    /\ queue' = Append(queue, "Tick")
    /\ UNCHANGED <<pending, wakeEnabled, received, asked, controller,
                   commands>>

-----------------------------------------------------------------------------
\* The controller

Goto(label) == pc' = label

\* The top of the loop publishes whether a receipt is worth a wake.
LoopTop ==
    /\ pc = "loop"
    /\ wakeEnabled' = owned
    /\ Goto("wait")
    /\ UNCHANGED <<queue, pending, pipeSide, cmd, owned, answered, commands>>

\* wait_for_command: recv_timeout returns a message if there is one.
Take ==
    /\ pc = "wait" /\ queue # <<>>
    /\ queue' = Tail(queue)
    /\ IF Head(queue) = "Tick" THEN Goto("drain") /\ UNCHANGED cmd
       ELSE Goto("dispatch") /\ cmd' = Head(queue)
    /\ UNCHANGED <<pending, wakeEnabled, pipeSide, owned, answered, commands>>

Timeout ==
    /\ pc = "wait" /\ queue = <<>>
    /\ Goto("dispatch") /\ cmd' = "Tick"
    /\ UNCHANGED <<shared, pipeSide, owned, answered, commands>>

\* After a Tick, wait_for_command looks for a command behind it.
Drain ==
    /\ pc = "drain"
    /\ IF queue = <<>> THEN /\ Goto("dispatch") /\ cmd' = "Tick"
                            /\ UNCHANGED queue
       ELSE /\ queue' = Tail(queue)
            /\ IF Head(queue) = "Tick" THEN UNCHANGED <<pc, cmd>>
               ELSE Goto("dispatch") /\ cmd' = Head(queue)
    /\ UNCHANGED <<pending, wakeEnabled, pipeSide, owned, answered, commands>>

\* Mutant: the flag is left for the next request to clear.
ResetNever == pending

\* Only a Tick resets the flag.
Reset == IF cmd = "Tick" THEN FALSE ELSE pending

\* Mutant: a command falls through to the evaluation.
NextLabelFallsThrough == IF cmd = "Stop" THEN "stopped" ELSE "evaluate"

NextLabel == CASE cmd = "Tick" -> "evaluate"
               [] cmd = "Stop" -> "stopped"
               [] OTHER -> "loop"

\* Disable gives back what is owned, whatever the receipts say, and keeps
\* what it could not give back.
Dispatch ==
    /\ pc = "dispatch"
    /\ pending' = Reset
    /\ Goto(NextLabel)
    /\ \/ /\ cmd = "Disable"
          /\ owned' \in {owned, FALSE} /\ answered' = received
       \/ cmd # "Disable" /\ UNCHANGED <<owned, answered>>
    /\ UNCHANGED <<queue, wakeEnabled, pipeSide, cmd, commands>>

\* Mutant: a tick that is no policy evaluation leaves the receipts alone.
ReadsSometimes == BOOLEAN

\* A tick looks at the receipts while anything is owned or may be.
Reads == IF owned THEN {TRUE} ELSE BOOLEAN

\* The tick reads the states. A heartbeat tick that has nothing to guard
\* does not.
Evaluate ==
    /\ pc = "evaluate"
    /\ \E read \in Reads :
          /\ answered' = IF read THEN received ELSE answered
          /\ Goto(IF read THEN "reconcile" ELSE "loop")
    /\ UNCHANGED <<shared, pipeSide, cmd, owned, commands>>

\* reconcile_background_efficiency adopts and restores processes.
Reconcile ==
    /\ pc = "reconcile"
    /\ owned' \in BOOLEAN
    /\ Goto("loop")
    /\ UNCHANGED <<shared, pipeSide, cmd, answered, commands>>

-----------------------------------------------------------------------------
Worker == Store \/ Look \/ Claim \/ SendTick

Controller ==
    LoopTop \/ Take \/ Timeout \/ Drain \/ Dispatch \/ Evaluate \/ Reconcile

WakeNext == (\E c \in Commands : Command(c)) \/ Worker \/ Controller

WakeSpec == WakeInit /\ [][WakeNext]_wakeVars

(***************************************************************************)
(* The two threads are scheduled; recv_timeout returns after the interval  *)
(* at the latest. Messages and commands need not come.                     *)
(***************************************************************************)
FairWakeSpec ==
    /\ WakeSpec
    /\ WF_wakeVars(Controller) /\ WF_wakeVars(Look \/ Claim \/ SendTick)

-----------------------------------------------------------------------------
(***************************************************************************)
(* Properties                                                              *)
(***************************************************************************)

\* The types of the variables. An evaluation is the answer to a Tick.
WakeTypeOK ==
    /\ queue \in Seq(Commands \cup {"Tick"})
    /\ pending \in BOOLEAN /\ wakeEnabled \in BOOLEAN /\ owned \in BOOLEAN
    /\ pipeWorker \in {"listening", "stored", "asking", "claimed"}
    /\ received \in 0 .. MaxReceipts
    /\ asked \in 0 .. received /\ answered \in 0 .. received
    /\ pc \in {"loop", "wait", "drain", "dispatch", "evaluate", "reconcile",
               "stopped"}
    /\ cmd \in Commands \cup {"Tick"}
    /\ pc \in {"evaluate", "reconcile"} => cmd = "Tick"
    /\ commands \in 0 .. MaxCommands

Ticks == {i \in DOMAIN queue : queue[i] = "Tick"}

\* However slow the controller is and however fast the tray, the channel
\* never holds more than three wake-ups: one of a claim that was made before
\* the last reset but one, and one for each reset since.
TicksBounded == Cardinality(Ticks) <= 3

\* Why TicksBounded holds: what is sent or claimed, by the state of the flag,
\* one less while a Tick is about to reset it.
Claims == IF pipeWorker = "claimed" THEN 1 ELSE 0

TicksInv ==
    LET resets == IF pc = "dispatch" /\ cmd = "Tick" THEN 1 ELSE 0
        unset == IF pending THEN 0 ELSE 1
    IN  Cardinality(Ticks) + Claims + resets + unset <= 3

\* A Tick is on its way to an evaluation.
Woken == \/ Ticks # {}
         \/ pipeWorker \in {"asking", "claimed"}
         \/ pc \in {"drain", "evaluate"}
         \/ pc = "dispatch" /\ cmd = "Tick"

\* "Each authenticated pipe receipt wakes the controller through an
\* event-driven control signal" (docs/background-efficiency-design.md): a
\* receipt that found the wake enabled is answered or about to be, as long
\* as anything is owned that it could veto.
NoLostWake == owned /\ asked > answered => Woken \/ pc = "stopped"

\* Without a command in between no receipt is lost: the flag, the channel and
\* the ticks on their way agree whatever the order of the two threads.
NoLostWakeUnlessCommand == commands = 0 => NoLostWake

\* Why: without a command only Ticks are in the channel, a flag that is set
\* has one on its way to Dispatch, and a receipt that is not answered has one
\* on its way to an evaluation, from before the controller may adopt what the
\* receipt could veto.
OnlyTicks ==
    cmd = "Tick" /\ pc # "stopped" /\ \A i \in DOMAIN queue : queue[i] = "Tick"
FlagKept ==
    pending => \/ Ticks # {} \/ pipeWorker = "claimed"
               \/ pc \in {"drain", "dispatch"}
Answering == (owned \/ pc = "reconcile") /\ asked > answered => Woken
SignalInv == commands = 0 => OnlyTicks /\ FlagKept /\ Answering

\* Every receipt is taken into account in the end while something is owned,
\* by the signal or by the fallback cadence.
EventuallyAnswered ==
    \A n \in 1 .. MaxReceipts :
        received >= n /\ owned ~> answered >= n \/ ~ owned \/ pc = "stopped"
=============================================================================
