--------------------------- MODULE InteractivePipe ---------------------------
(***************************************************************************)
(* How the service learns which processes a user looks at or listens to:   *)
(* the trays capture the activity of their sessions and publish it over a  *)
(* pipe of one instance, the pipe worker checks a message, stamps it with  *)
(* the time of its receipt and keeps it, and the background policy spares  *)
(* what a fresh state names, and everything where no state is fresh.       *)
(*                                                                         *)
(* Time passes in ticks of a heartbeat; a capture, its message and its     *)
(* receipt fall within one. Instead of the wall clock, a state has the age *)
(* that clock gives it: a jump of the clock changes every age. Windows in  *)
(* front, visible windows and sound are three uses of a process; the first *)
(* two have one probe, and each has a switch of its own in the policy.     *)
(***************************************************************************)
EXTENDS Integers, FiniteSets, Functions

CONSTANTS
    None,          (* nothing published or in the pipe                      *)
    MaxTrays,      (* bound: tray processes, in the order of their launch   *)
    SessionOf,     (* the session of every tray and process                 *)
    Processes,     (* the processes the service observes                    *)
    ParentOf,      (* parent_pid, None when it is not observed              *)
    ImageOf,       (* image_name                                            *)
    Scenes,        (* what may go on in a session: the processes of a use   *)
    Protects,      (* the uses whose switch is on: protect_foreground,      *)
                   (* protect_visible, protect_audio                        *)
    Stale,         (* INTERACTIVE_STATE_STALE_AFTER_MS, in ticks            *)
    Keep,          (* the 60 s a state is kept for, in ticks                *)
    MaxPublishers, (* MAX_INTERACTIVE_PUBLISHERS                            *)
    Jumps,         (* what a setting of the wall clock adds to it           *)
    MaxJumps,      (* bound: settings of the wall clock                     *)
    MaxFaults      (* bound: probes and connections that fail, restarts     *)

Trays == 1..MaxTrays
Sessions == Range(SessionOf)

Uses == {"foreground", "visible", "audio"}
Probe(use) == IF use = "audio" THEN "audio" ELSE "window"
Activity == [Uses -> SUBSET Processes]

ASSUME PipeAssumption ==
    /\ MaxTrays \in Nat /\ Trays \cup Processes = DOMAIN SessionOf
    /\ \A p \in Processes : ParentOf[p] \in Processes \cup {None}
    /\ Scenes \subseteq Activity /\ Protects \subseteq Uses
    /\ Stale \in Nat \ {0} /\ Keep \in Nat /\ Stale < Keep
    /\ MaxPublishers \in Nat \ {0} /\ Jumps \subseteq Int
    /\ MaxJumps \in Nat /\ MaxFaults \in Nat

VARIABLES
    active,   (* of each session: what its user looks at and listens to     *)
    since,    (* of each session: ticks since that changed                  *)
    tray,     (* of each tray: its publisher thread                         *)
    pipe,     (* the message in the pipe                                    *)
    worker,   (* the pipe worker: "listening" or "ended"                    *)
    states,   (* InteractiveStateMap: of each publisher, content and age    *)
    count     (* faults and jumps so far                                    *)

vars == <<active, since, tray, pipe, worker, states, count>>

\* Nothing tells one that is older apart from another.
Old == Keep + 1
Older(n) == IF n < Old THEN n + 1 ELSE Old
Longer(n) == IF n <= Stale THEN n + 1 ELSE n

\* The probes that are available, and what they have seen.
Contents == [ok : SUBSET {"window", "audio"}, seen : Activity]
Unpublished == [pc |-> "off", last |-> None, held |-> None, due |-> TRUE,
                tried |-> FALSE]
Scene(s) ==
    {scene \in Scenes :
        \A use \in Uses : \A p \in scene[use] : SessionOf[p] = s}

Init ==
    /\ active \in {a \in [Sessions -> Scenes] :
                        \A s \in Sessions : a[s] \in Scene(s)}
    /\ since = [s \in Sessions |-> 0]
    /\ tray = [t \in Trays |-> Unpublished]
    /\ pipe = None /\ worker = "listening"
    /\ states = <<>>
    /\ count = [faults |-> 0, jumps |-> 0]

Fault == /\ count.faults < MaxFaults
         /\ count' = [count EXCEPT !.faults = @ + 1]
-----------------------------------------------------------------------------
\* Users, and time

Switch(s) ==
    /\ \E scene \in Scene(s) \ {active[s]} :
          active' = [active EXCEPT ![s] = scene]
    /\ since' = [since EXCEPT ![s] = 0]
    /\ UNCHANGED <<tray, pipe, worker, states, count>>

Up(t) == tray[t].pc \in {"idle", "holding"}

\* Every tray captures many times in a tick.
Pass ==
    /\ pipe = None
    /\ \A t \in Trays : Up(t) => tray[t].pc = "idle" /\ tray[t].tried
    /\ since' = [s \in Sessions |-> Longer(since[s])]
    /\ states' = [t \in DOMAIN states |->
                    [states[t] EXCEPT !.age = Older(@)]]
    /\ tray' = [t \in Trays |-> IF Up(t) THEN [tray[t] EXCEPT !.due = TRUE,
                                                             !.tried = FALSE]
                                ELSE tray[t]]
    /\ UNCHANGED <<active, pipe, worker, count>>

\* The wall clock is set, or the machine sleeps while the clock goes on.
Jump ==
    /\ count.jumps < MaxJumps
    /\ count' = [count EXCEPT !.jumps = @ + 1]
    /\ \E n \in Jumps :
        states' = [t \in DOMAIN states |->
            [states[t] EXCEPT !.age = IF @ + n < Old THEN @ + n ELSE Old]]
    /\ UNCHANGED <<active, since, tray, pipe, worker>>
-----------------------------------------------------------------------------
\* A tray: InteractivePublisher

\* acquire_instance_lock: one tray for the user of a session.
Launch(t) ==
    /\ tray[t].pc = "off" /\ \A u \in 1..t-1 : tray[u].pc # "off"
    /\ \A u \in Trays : SessionOf[u] = SessionOf[t] => ~ Up(u)
    /\ tray' = [tray EXCEPT ![t].pc = "idle"]
    /\ UNCHANGED <<active, since, pipe, worker, states, count>>

\* An exit, a crash, a log-off. A state is not withdrawn.
Quit(t) ==
    /\ Up(t)
    /\ tray' = [tray EXCEPT ![t] = [Unpublished EXCEPT !.pc = "gone"]]
    /\ UNCHANGED <<active, since, pipe, worker, states, count>>

\* capture_interactive_activity: each probe works or fails.
Captures(s) ==
    {[ok |-> ok, seen |-> [use \in Uses |-> IF Probe(use) \in ok
                                           THEN active[s][use] ELSE {}]] :
        ok \in SUBSET {"window", "audio"}}

\* What did not change waits for the heartbeat.
\* Mutant: only a change is published.
WorthwhileOnce(t, content) == content # tray[t].last

Worthwhile(t, content) == content # tray[t].last \/ tray[t].due

Capture(t) ==
    /\ tray[t].pc = "idle"
    /\ \E content \in Captures(SessionOf[t]) :
        /\ IF content.ok = {"window", "audio"} THEN UNCHANGED count ELSE Fault
        /\ tray' = [tray EXCEPT ![t] = IF Worthwhile(t, content)
                THEN [@ EXCEPT !.pc = "holding", !.held = content]
                ELSE [@ EXCEPT !.tried = TRUE]]
    /\ UNCHANGED <<active, since, pipe, worker, states>>

\* publish_interactive_state: the pipe is busy or nobody serves it, or the
\* message is written, which is all the tray ever learns of it.
Send(t) ==
    /\ tray[t].pc = "holding"
    /\ \/ /\ pipe = None /\ worker = "listening"
          /\ pipe' = [from |-> t, content |-> tray[t].held]
          /\ tray' = [tray EXCEPT ![t] = [@ EXCEPT !.pc = "idle", !.held = None,
                            !.last = tray[t].held, !.due = FALSE, !.tried = TRUE]]
       \/ /\ pipe # None \/ worker = "ended"
          /\ tray' = [tray EXCEPT ![t] = [@ EXCEPT !.pc = "idle", !.held = None,
                            !.tried = worker = "ended"]]
          /\ UNCHANGED pipe
    /\ UNCHANGED <<active, since, worker, states, count>>
-----------------------------------------------------------------------------
\* The pipe worker

\* insert_interactive_state: old states go first, and where that leaves no
\* room for another publisher, the one heard of least recently.
Kept == Restrict(states, {t \in DOMAIN states : states[t].age <= Keep})
With(map, from, content) ==
    [t \in DOMAIN map \cup {from} |->
        IF t = from THEN [content |-> content, age |-> 0] ELSE map[t]]
Oldest(map) ==
    {t \in DOMAIN map : \A u \in DOMAIN map : map[u].age <= map[t].age}

\* Mutant: every publisher has a place, for good.
InsertedUnbounded(from, content) ==
    {With(states, from, content)}

Inserted(from, content) ==
    IF from \in DOMAIN Kept \/ Cardinality(DOMAIN Kept) < MaxPublishers
    THEN {With(Kept, from, content)}
    ELSE {With(Restrict(Kept, DOMAIN Kept \ {t}), from, content) :
            t \in Oldest(Kept)}

\* read_interactive_pipe_message, then the wake and the disconnection. A
\* message is refused when its sender cannot be identified or is not the
\* session's tray, when it is not read in time or when it makes no sense.
Receive ==
    /\ pipe # None
    /\ \/ states' \in Inserted(pipe.from, pipe.content) /\ UNCHANGED count
       \/ /\ IF Up(pipe.from) THEN Fault ELSE UNCHANGED count
          /\ UNCHANGED states
    /\ pipe' = None
    /\ UNCHANGED <<active, since, tray, worker>>

\* interactive_pipe_worker returns when a connection fails; nothing starts it
\* again before the service is.
WorkerEnds ==
    /\ worker = "listening" /\ pipe = None /\ Fault
    /\ worker' = "ended"
    /\ UNCHANGED <<active, since, tray, pipe, states>>

\* Another service has a server of its own, or none if it cannot be started.
Restart ==
    /\ Fault
    /\ states' = <<>> /\ pipe' = None
    /\ worker' \in {"listening", "ended"}
    /\ UNCHANGED <<active, since, tray>>
-----------------------------------------------------------------------------
\* The controller: interactive_sessions and background_protection

\* is_fresh_at. Mutant: whatever is kept counts.
FreshWhileKept(t) == 0 <= states[t].age

Fresh(t) == 0 <= states[t].age /\ states[t].age <= Stale

Publishers(s) == {t \in DOMAIN states : SessionOf[t] = s /\ Fresh(t)}

\* expand_protected_descendants, as often as it finds another one: the least
\* set with these processes and their children in the session.
Closed(s, set) ==
    \A p \in Processes :
        SessionOf[p] = s /\ ParentOf[p] \in set => p \in set
Expanded ==
    [s \in Sessions |-> [seen \in SUBSET Processes |->
        {p \in Processes : \A set \in SUBSET Processes :
                seen \subseteq set /\ Closed(s, set) => p \in set}]]

Cohort(p) ==
    {q \in Processes : SessionOf[q] = SessionOf[p] /\ ImageOf[q] = ImageOf[p]}

\* Without a fresh state, or where one of them lacks a probe for a use whose
\* switch is on, every process is protected; else one whose image's processes
\* are in such a use.
Seen(s, use) == UNION {states[t].content.seen[use] : t \in Publishers(s)}
Protected(p) ==
    LET s == SessionOf[p]
    IN \/ Publishers(s) = {}
       \/ \E use \in Protects :
             \/ \E t \in Publishers(s) : Probe(use) \notin states[t].content.ok
             \/ Cohort(p) \cap Expanded[s][Seen(s, use)] # {}
-----------------------------------------------------------------------------
Capturing == \E t \in Trays : Capture(t) \/ Send(t)
Next == \/ (\E s \in Sessions : Switch(s)) \/ Pass \/ Jump
        \/ (\E t \in Trays : Launch(t) \/ Quit(t)) \/ Capturing
        \/ Receive \/ WorkerEnds \/ Restart

Spec == Init /\ [][Next]_vars

\* Time passes, and the threads of the trays and of the server run. A tick
\* waits for every tray, so it is enough that one of them goes on.
FairSpec == Spec /\ WF_vars(Pass) /\ WF_vars(Capturing) /\ WF_vars(Receive)
-----------------------------------------------------------------------------
Publishing == [pc : {"off", "idle", "holding", "gone"},
               last : Contents \cup {None}, held : Contents \cup {None},
               due : BOOLEAN, tried : BOOLEAN]

TypeOK ==
    /\ active \in [Sessions -> Activity]
    /\ since \in [Sessions -> 0..Stale + 1]
    /\ tray \in [Trays -> Publishing]
    /\ \A t \in Trays : tray[t].pc = "holding" => tray[t].held \in Contents
    /\ pipe = None \/ pipe \in [from : Trays, content : Contents]
    /\ worker \in {"listening", "ended"}
    /\ DOMAIN states \subseteq Trays
    /\ \A t \in DOMAIN states :
          states[t] \in [content : Contents, age : Int] /\ states[t].age <= Old
    /\ Cardinality(DOMAIN states) <= MaxPublishers
    /\ count \in [faults : 0..MaxFaults, jumps : 0..MaxJumps]

\* What has been in a protected use for longer than a state is good for is not
\* throttled, nor are its children and the others of its image: whatever became
\* of the trays of the session, of their messages, of the worker and of the
\* service, and however many trays compete for a place.
InUse(p) ==
    \E use \in Protects : \E q \in active[SessionOf[p]][use] :
        p = q \/ ParentOf[p] = q
InUseIsProtected ==
    \A p, q \in Processes :
        /\ SessionOf[p] = SessionOf[q] /\ ImageOf[p] = ImageOf[q]
        /\ InUse(q) /\ since[SessionOf[p]] > Stale
        => Protected(p)

\* Once everything runs without failures, a process in no protected use is left
\* to the policy: nothing a dead tray or a failed probe has said lasts.
Calm(s) ==
    /\ worker = "listening"
    /\ \E t \in Trays : SessionOf[t] = s /\ Up(t)
    /\ Cardinality({t \in Trays : Up(t)}) <= MaxPublishers
EventuallyLeft ==
    \A s \in Sessions : \A scene \in Scene(s) :
        <>[](Calm(s) /\ active[s] = scene)
            => <>[](\A p \in Processes :
                    /\ SessionOf[p] = s
                    /\ \A use \in Protects :
                          Cohort(p) \cap Expanded[s][scene[use]] = {}
                    => ~ Protected(p))
-----------------------------------------------------------------------------
(***************************************************************************)
(* The inductive invariant behind InUseIsProtected, for a clock that is    *)
(* never set back                                                          *)
(***************************************************************************)

\* As far as its probes go, a content is what is in use in a session.
IsSo(content, s) ==
    \A use \in Uses :
        Probe(use) \in content.ok => content.seen[use] = active[s][use]

\* A content of this age tells what is in use in the session of the tray, if
\* nothing has changed there for longer.
Tells(t, content, age) ==
    since[SessionOf[t]] > age => IsSo(content, SessionOf[t])

\* What a tray holds, the pipe carries and the service keeps is as old as that.
ToldOK ==
    /\ \A t \in Trays : tray[t].pc = "holding" => Tells(t, tray[t].held, 0)
    /\ pipe # None => Tells(pipe.from, pipe.content, 0)
    /\ \A t \in DOMAIN states :
          states[t].age >= 0 /\ Tells(t, states[t].content, states[t].age)
=============================================================================
