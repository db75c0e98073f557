----------------------- MODULE PlacementJournalProofs -----------------------
(***************************************************************************)
(* TypeOK, ExternalObserved and NothingForgotten for every set of          *)
(* processes, of domains, of lists and of modes, and for every bound, by   *)
(* the inductive invariants OwnershipInv and JournalInv: first the facts   *)
(* about placements and calls that the actions share, then one lemma per   *)
(* action.                                                                 *)
(***************************************************************************)
EXTENDS PlacementJournal, TLAPS

-----------------------------------------------------------------------------
\* The fields of a placement have their types.
LEMMA PlacementFields ==
    ASSUME NEW r \in Placement
    PROVE  r.anchor \in Domains /\ r.list \in Lists \cup {Free} /\ r # None
BY PlacementAssumption DEF Placement

\* No placement is recognised in a process without default CPU Sets.
LEMMA NeverFree ==
    ASSUME NEW r \in Placement \cup {None}
    PROVE  ~ Holds(r, Free)
BY PlacementAssumption, PlacementFields DEF Holds, Recognises, Domain

\* A placement that names a list stands for this list alone.
LEMMA NamedHolds ==
    ASSUME NEW anchor \in Domains, NEW list \in Lists
    PROVE  /\ [anchor |-> anchor, list |-> list] \in Placement
           /\ \A l : Holds([anchor |-> anchor, list |-> list], l) <=> l = list
<1>1. [anchor |-> anchor, list |-> list] \in Placement
    BY DEF Placement
<1>2. list # Free
    BY PlacementAssumption
<1> QED BY <1>1, <1>2, PlacementAssumption DEF Holds, Recognises

\* A placement learns a list that it recognises.
LEMMA LearnedHolds ==
    ASSUME NEW r \in Placement, NEW list \in Lists \cup {Free},
           Recognises(r, list)
    PROVE  /\ list # Free
           /\ [r EXCEPT !.list = list] \in Placement
           /\ \A l : Holds([r EXCEPT !.list = list], l) <=> l = list
<1>1. r # None
    BY PlacementFields
<1>2. list # Free
    BY <1>1, NeverFree DEF Holds
<1>3. [r EXCEPT !.list = list] = [anchor |-> r.anchor, list |-> list]
    BY DEF Placement
<1>4. r.anchor \in Domains
    BY PlacementFields
<1> QED BY <1>2, <1>3, <1>4, NamedHolds

\* The idle values of the local variables have their types.
LEMMA NoCallType ==
    /\ NoCall \in Call /\ NoCall.list = Free /\ NoCall.then = "none"
BY DEF NoCall, Call

\* A failing call uses up one of the admitted faults.
LEMMA FaultType ==
    ASSUME TypeOK, Fault
    PROVE  spent' \in [faults : 0 .. MaxFaults, crashes : 0 .. MaxCrashes,
                       writes : 0 .. MaxWrites]
BY PlacementAssumption DEF TypeOK, Fault

\* A cleanup visits the managed processes, if there are any.
LEMMA CleanupTypes ==
    ASSUME NEW placements, NEW label \in Afters \ {"decide"},
           EnterCleanup(placements, label)
    PROVE  /\ after' \in Afters \ {"decide"} /\ todo' \subseteq Keys
           /\ pc' \in {"idle", "stopped", "cleanup"}
BY DEF EnterCleanup, Managed, Resumed, Goto, Afters

\* A request to the platform is a well-formed call.
LEMMA AskTypes ==
    ASSUME NEW k \in Keys, NEW list \in Lists \cup {Free},
           NEW anchor \in Domains \cup {None},
           NEW then \in {"decide", "reconcile", "cleanup", "rollback"},
           Ask(k, list, anchor, then)
    PROVE  /\ call' \in Call /\ pc' = "replace"
           /\ call'.key = k /\ call'.list = list /\ call'.anchor = anchor
           /\ call'.then = then
BY DEF Ask, NoCall, Call, Goto

-----------------------------------------------------------------------------
\* What a caller does with the result of a call keeps the thread well formed;
\* it forgets a placement or, after an assignment, adds the one it made.
LEMMA OutcomeStep ==
    ASSUME OwnershipInv, Calling, NEW ok \in BOOLEAN, NEW gone \in BOOLEAN,
           Outcome(ok, gone), UNCHANGED <<seen, budget>>
    PROVE  /\ managed' \in [Keys -> Placement \cup {None}]
           /\ call' \in Call /\ todo' \subseteq Keys
           /\ changed' \in BOOLEAN
           /\ pc' \in Labels \ {"replace", "set", "readback"}
      /\ after' \in Afters
           /\ CallOK' /\ ObservedOK'
           /\ \A k \in Keys : \A l :
                 Holds(managed'[k], l)
                 => \/ Holds(managed[k], l)
                    \/ ok /\ k = call.key /\ l = call.list /\ call.list # Free
<1>1. call \in Call /\ call.key \in Keys /\ call.key \notin todo
      /\ managed \in [Keys -> Placement \cup {None}]
      /\ todo \subseteq Keys /\ after \in Afters
      /\ (call.then = "cleanup" => after # "decide")
      /\ (call.list # Free => call.anchor \in Domains)
    BY DEF OwnershipInv, TypeOK, CallOK, Calling, Cleaning
<1> DEFINE made == [anchor |-> call.anchor, list |-> call.list]
<1>2. call.list # Free =>
        made \in Placement /\ \A l : Holds(made, l) <=> l = call.list
    BY <1>1, NamedHolds DEF Call
<1>3. ~ \E l : Holds(None, l)
    BY DEF Holds
<1> HIDE DEF made
<1>4. CASE call.then = "decide" /\ ok
    <2>1. /\ managed' = [managed EXCEPT ![call.key] =
                            IF call.list = Free THEN None ELSE made]
          /\ pc' = "persist" /\ after' = "decide"
          /\ call' = call /\ todo' = todo
          /\ changed' = changed
        BY <1>4 DEF Outcome, Store, PersistThen, made
    <2>2. managed' \in [Keys -> Placement \cup {None}]
        BY <1>1, <1>2, <2>1
    <2>3. \A k \in Keys \ {call.key} : managed'[k] = managed[k]
        BY <1>1, <2>1
    <2>4. \A k \in Keys : \A l :
             Holds(managed'[k], l)
             => \/ Holds(managed[k], l)
                \/ ok /\ k = call.key /\ l = call.list /\ call.list # Free
        BY <1>1, <1>2, <1>3, <1>4, <2>1, <2>3
    <2>5. CallOK'
        BY <1>1, <1>4, <2>1
           DEF OwnershipInv, CallOK, Calling, Reconciling, Cleaning
    <2>6. ObservedOK'
        BY <1>1, <1>4, <2>1, <2>3
           DEF OwnershipInv, ObservedOK, Calling, Reconciling, Deciding
    <2> QED BY <1>1, <2>1, <2>2, <2>4, <2>5, <2>6
               DEF OwnershipInv, TypeOK, Labels, Afters
<1>5. CASE call.then = "decide" /\ ~ ok
    <2>1. /\ managed' = managed /\ pc' = "decide" /\ after' = after
          /\ call' = NoCall /\ todo' = todo
          /\ changed' = changed
        BY <1>5 DEF Outcome, Goto
    <2>2. CallOK'
        BY <1>1, <2>1, NoCallType
           DEF OwnershipInv, CallOK, Calling, Reconciling, Cleaning
    <2>3. ObservedOK'
        BY <1>1, <1>5, <2>1
           DEF OwnershipInv, ObservedOK, Calling, Reconciling, Deciding
    <2> QED BY <1>1, <2>1, <2>2, <2>3, NoCallType
               DEF OwnershipInv, TypeOK, Labels, Afters
<1>6. CASE call.then = "reconcile"
    <2>1. /\ managed' \in {managed, [managed EXCEPT ![call.key] = None]}
          /\ changed' \in {changed, TRUE}
          /\ pc' = "reconcile" /\ call' = NoCall
          /\ todo' = todo /\ after' = after
        BY <1>6 DEF Outcome, Goto, Store
    <2>2. /\ managed' \in [Keys -> Placement \cup {None}]
          /\ \A k \in Keys : managed'[k] \in {managed[k], None}
          /\ \A k \in Keys \ {call.key} : managed'[k] = managed[k]
        BY <1>1, <2>1
    <2>3. CallOK'
        BY <1>1, <1>6, <2>1, <2>2, NoCallType
           DEF OwnershipInv, CallOK, Calling, Reconciling, Cleaning
    <2>4. ObservedOK'
        BY <1>1, <1>3, <1>6, <2>1, <2>2
           DEF OwnershipInv, ObservedOK, Calling, Reconciling, Deciding
    <2>5. \A k \in Keys : \A l : Holds(managed'[k], l) => Holds(managed[k], l)
        BY <1>3, <2>2
    <2> QED BY <1>1, <2>1, <2>2, <2>3, <2>4, <2>5, NoCallType
               DEF OwnershipInv, TypeOK, Labels, Afters
<1>7. CASE call.then = "cleanup"
    <2>1. /\ managed' \in {managed, [managed EXCEPT ![call.key] = None]}
          /\ pc' = "cleanup" /\ call' = NoCall /\ changed' = changed
          /\ todo' = todo /\ after' = after
        BY <1>7 DEF Outcome, Goto, Store
    <2>2. /\ managed' \in [Keys -> Placement \cup {None}]
          /\ \A k \in Keys : managed'[k] \in {managed[k], None}
        BY <1>1, <2>1
    <2>3. CallOK'
        BY <1>1, <1>7, <2>1, <2>2, NoCallType
           DEF CallOK, Calling, Reconciling, Cleaning
    <2>4. ObservedOK'
        BY <2>1 DEF ObservedOK, Calling, Reconciling, Deciding
    <2>5. \A k \in Keys : \A l : Holds(managed'[k], l) => Holds(managed[k], l)
        BY <1>3, <2>2
    <2> QED BY <1>1, <2>1, <2>2, <2>3, <2>4, <2>5, NoCallType
               DEF OwnershipInv, TypeOK, Labels, Afters
<1>8. CASE call.then = "rollback"
    <2>1. /\ managed' = [managed EXCEPT ![call.key] = None]
          /\ EnterCleanup(managed', "stopped") /\ call' = NoCall
          /\ changed' = changed
        BY <1>8 DEF Outcome, Store
    <2>2. /\ managed' \in [Keys -> Placement \cup {None}]
          /\ \A k \in Keys : managed'[k] \in {managed[k], None}
        BY <1>1, <2>1
    <2>3. /\ after' \in Afters \ {"decide"} /\ todo' \subseteq Keys
          /\ pc' \in {"idle", "stopped", "cleanup"}
        BY <2>1, CleanupTypes DEF Afters
    <2>4. CallOK'
        BY <1>1, <2>1, <2>3, NoCallType
           DEF CallOK, Calling, Reconciling, Cleaning
    <2>5. ObservedOK'
        BY <2>3 DEF ObservedOK, Calling, Reconciling, Deciding
    <2>6. \A k \in Keys : \A l : Holds(managed'[k], l) => Holds(managed[k], l)
        BY <1>3, <2>2
    <2> QED BY <1>1, <2>1, <2>2, <2>3, <2>4, <2>5, <2>6, NoCallType
               DEF OwnershipInv, TypeOK, Labels, Afters
<1> QED BY <1>4, <1>5, <1>6, <1>7, <1>8 DEF Outcome

\* A call that fails adds no placement.
LEMMA FailureStep ==
    ASSUME OwnershipInv, Calling, NEW gone \in BOOLEAN,
           Outcome(FALSE, gone), seen' = seen, budget' = budget
    PROVE  /\ managed' \in [Keys -> Placement \cup {None}]
           /\ call' \in Call /\ todo' \subseteq Keys
           /\ changed' \in BOOLEAN
           /\ pc' \in Labels \ {"replace", "set", "readback"}
      /\ after' \in Afters
           /\ CallOK' /\ ObservedOK'
           /\ \A k \in Keys : \A l :
                 Holds(managed'[k], l) => Holds(managed[k], l)
<1> DEFINE ok == FALSE
<1>1. ok \in BOOLEAN /\ Outcome(ok, gone)
    OBVIOUS
<1>2. ~ ok
    OBVIOUS
<1> HIDE DEF ok
<1>3. /\ managed' \in [Keys -> Placement \cup {None}]
      /\ call' \in Call /\ todo' \subseteq Keys
      /\ changed' \in BOOLEAN
      /\ pc' \in Labels \ {"replace", "set", "readback"}
      /\ after' \in Afters
      /\ CallOK' /\ ObservedOK'
      /\ \A k \in Keys : \A l :
            Holds(managed'[k], l)
            => \/ Holds(managed[k], l)
               \/ ok /\ k = call.key /\ l = call.list /\ call.list # Free
    BY <1>1, OutcomeStep
<1> QED BY <1>2, <1>3

-----------------------------------------------------------------------------
\* The processes of an older version are WinSched's.
LEMMA InitOwnership == Init => OwnershipInv
<1> SUFFICES ASSUME Init PROVE OwnershipInv
    OBVIOUS
<1>1. PICK legacy \in SUBSET Keys, list \in {l \in Lists : DomainOf[l] # None} :
        /\ born = legacy /\ alive = legacy /\ mine = legacy /\ stray = {}
        /\ cur = [k \in Keys |-> IF k \in legacy THEN list ELSE Free]
        /\ disk = [k \in Keys |->
                      IF k \in legacy
                      THEN [anchor |-> DomainOf[list], list |-> Free]
                      ELSE None]
    BY DEF Init
<1>2. DomainOf[list] \in Domains
    BY PlacementAssumption
<1>3. [anchor |-> DomainOf[list], list |-> Free] \in Placement
    BY <1>2 DEF Placement
<1>4. /\ cur \in [Keys -> Lists \cup {Free}]
      /\ disk \in [Keys -> Placement \cup {None}]
    BY <1>1, <1>3
<1>5. spent \in [faults : 0 .. MaxFaults, crashes : 0 .. MaxCrashes,
                 writes : 0 .. MaxWrites]
    BY PlacementAssumption DEF Init
<1>6. TypeOK
    <2>1. /\ managed \in [Keys -> Placement \cup {None}]
          /\ seen \in [Keys -> Observation \cup {None}]
        BY DEF Init
    <2>2. budget \in 0 .. MaxMutations
        BY PlacementAssumption DEF Init
    <2>3. /\ pc \in Labels /\ after \in Afters
          /\ mode \in Modes \cup {"default"} /\ enabled \in BOOLEAN
          /\ todo \subseteq Keys
          /\ changed \in BOOLEAN /\ call \in Call
        BY NoCallType DEF Init, Labels, Afters
    <2> QED BY <1>1, <1>4, <1>5, <2>1, <2>2, <2>3 DEF TypeOK
<1>7. CallOK
    BY NoCallType DEF Init, CallOK, Calling, Reconciling, Cleaning
<1>8. ObservedOK
    BY DEF Init, ObservedOK, Calling, Reconciling, Deciding
<1>9. \A k \in Keys : ~ Holds(managed[k], cur[k])
    BY DEF Init, Holds
<1>10. \A k \in Keys : Holds(disk[k], cur[k]) => k \in mine
    BY <1>1 DEF Holds
<1>11. OwnOK
    BY <1>9, <1>10 DEF Init, OwnOK
<1> QED BY <1>6, <1>7, <1>8, <1>11 DEF OwnershipInv

\* A process that starts has no placement.
LEMMA BirthOwnership ==
    ASSUME OwnershipInv, NEW k \in Keys, Birth(k)
    PROVE  OwnershipInv'
<1>1. TypeOK'
    BY DEF OwnershipInv, Birth, TypeOK, files, thread
<1>2. CallOK'
    BY DEF OwnershipInv, Birth, CallOK, Calling, Reconciling, Cleaning,
           thread
<1>3. OwnOK'
    BY DEF OwnershipInv, Birth, OwnOK, Holds, Recognises, files, thread
<1>4. ObservedOK'
    BY DEF OwnershipInv, Birth, ObservedOK, Calling, Reconciling, Deciding,
           Holds, Recognises, thread
<1> QED BY <1>1, <1>2, <1>3, <1>4 DEF OwnershipInv

\* A process that ends takes its assignment with it.
LEMMA ExitOwnership ==
    ASSUME OwnershipInv, NEW k \in Keys, Exit(k)
    PROVE  OwnershipInv'
<1>1. TypeOK'
    BY DEF OwnershipInv, Exit, TypeOK, files, thread
<1>2. CallOK'
    BY DEF OwnershipInv, Exit, CallOK, Calling, Reconciling, Cleaning,
           thread
<1>3. OwnOK'
    BY DEF OwnershipInv, Exit, OwnOK, Holds, Recognises, files, thread
<1>4. ObservedOK'
    BY DEF OwnershipInv, Exit, ObservedOK, Calling, Reconciling, Deciding,
           Holds, Recognises, thread
<1> QED BY <1>1, <1>2, <1>3, <1>4 DEF OwnershipInv

\* An outsider's list is none that the service would take for its own.
LEMMA OutsiderOwnership ==
    ASSUME OwnershipInv, NEW k \in Keys, NEW list \in Lists \cup {Free},
           OutsiderAssigns(k, list)
    PROVE  OwnershipInv'
<1>1. /\ cur' = [cur EXCEPT ![k] = list] /\ mine' = mine \ {k}
      /\ UNCHANGED <<born, alive, stray, disk, enabled, pc, mode, after,
                     managed, seen, todo, changed, budget, call>>
      /\ spent.writes < MaxWrites
      /\ spent' = [spent EXCEPT !.writes = @ + 1]
    BY DEF OutsiderAssigns, files, thread
<1>2. /\ ~ Holds(managed[k], list) /\ ~ Holds(disk[k], list)
      /\ ~ (call.key = k /\ list = call.list)
    BY DEF OutsiderAssigns, Claimed, Holds
<1>3. cur'[k] = list /\ \A x \in Keys \ {k} : cur'[x] = cur[x]
    BY <1>1 DEF OwnershipInv, TypeOK
<1>4. TypeOK'
    BY <1>1, PlacementAssumption DEF OwnershipInv, TypeOK
<1>5. CallOK'
    BY <1>1 DEF OwnershipInv, CallOK, Calling, Reconciling, Cleaning
<1>6. pc \in {"set", "readback"} => call.key \in Keys
    BY DEF OwnershipInv, CallOK, Calling
<1>8. OwnOK'
    BY <1>1, <1>2, <1>3, <1>6 DEF OwnershipInv, OwnOK, Holds, Recognises
<1>9. ObservedOK'
    BY <1>1 DEF OwnershipInv, ObservedOK, Calling, Reconciling, Deciding,
                Holds, Recognises
<1> QED BY <1>4, <1>5, <1>8, <1>9 DEF OwnershipInv

\* Between two loops the observations and the call are idle.
LEMMA IdleOwnership ==
    ASSUME call' = NoCall, pc' \in {"idle", "stopped", "cleanup"},
           pc' = "cleanup" => after' # "decide"
    PROVE  CallOK' /\ ObservedOK'
<1>1. CallOK'
    BY NoCallType DEF CallOK, Calling, Reconciling, Cleaning
<1>2. ObservedOK'
    BY DEF ObservedOK, Calling, Reconciling, Deciding
<1> QED BY <1>1, <1>2

\* The service starts with the placements of the file.
LEMMA StartOwnership ==
    ASSUME OwnershipInv, Start
    PROVE  OwnershipInv'
<1>1. /\ managed' = disk /\ call = NoCall
      /\ mode' \in Modes \cup {"default"}
      /\ UNCHANGED <<born, alive, cur, mine, stray, disk, enabled, seen,
                     changed, budget, call>>
    BY DEF Start, OwnershipInv, CallOK, Calling, world, files
<1>2. /\ pc' \in {"idle", "stopped", "cleanup"} /\ todo' \subseteq Keys
      /\ after' \in Afters
      /\ pc' = "cleanup" => after' # "decide"
      /\ UNCHANGED spent \/ Fault
    <2>1. ASSUME NEW label \in Afters \ {"decide"}, EnterCleanup(disk, label)
          PROVE  /\ pc' \in {"idle", "stopped", "cleanup"}
                 /\ todo' \subseteq Keys /\ after' \in Afters \ {"decide"}
        BY <2>1, CleanupTypes
    <2> QED BY <2>1 DEF Start, Goto, OwnershipInv, TypeOK, Afters
<1>3. spent' \in [faults : 0 .. MaxFaults, crashes : 0 .. MaxCrashes,
                  writes : 0 .. MaxWrites]
    BY <1>2, FaultType DEF OwnershipInv, TypeOK
<1>4. TypeOK'
    BY <1>1, <1>2, <1>3 DEF OwnershipInv, TypeOK, Labels
<1>5. CallOK' /\ ObservedOK'
    BY <1>1, <1>2, IdleOwnership
<1>6. OwnOK'
    BY <1>1, <1>2 DEF OwnershipInv, OwnOK, Holds, Recognises
<1> QED BY <1>4, <1>5, <1>6 DEF OwnershipInv

\* A crash leaves the processes and the files as they are.
LEMMA CrashOwnership ==
    ASSUME OwnershipInv, Crash
    PROVE  OwnershipInv'
<1>1. /\ pc' = "stopped" /\ managed' = [k \in Keys |-> None]
      /\ seen' = [k \in Keys |-> None] /\ mode' = "default"
      /\ after' = "idle" /\ todo' = {} /\ changed' = FALSE /\ budget' = 0
      /\ call' = NoCall /\ UNCHANGED <<born, alive, cur, mine, disk, enabled>>
      /\ spent' = [spent EXCEPT !.crashes = @ + 1]
      /\ spent.crashes < MaxCrashes
    BY DEF Crash, Goto, files
<1>2. TypeOK'
    <2>1. /\ managed' \in [Keys -> Placement \cup {None}]
          /\ seen' \in [Keys -> Observation \cup {None}]
        BY <1>1
    <2>2. budget' \in 0 .. MaxMutations
        BY <1>1, PlacementAssumption
    <2>3. spent' \in [faults : 0 .. MaxFaults, crashes : 0 .. MaxCrashes,
                      writes : 0 .. MaxWrites]
        BY <1>1, PlacementAssumption DEF OwnershipInv, TypeOK
    <2>4. /\ pc' \in Labels /\ after' \in Afters
          /\ mode' \in Modes \cup {"default"}
          /\ todo' \subseteq Keys /\ changed' \in BOOLEAN /\ call' \in Call
        BY <1>1, NoCallType DEF Labels, Afters
    <2>5. Unjournaled => call.key \in Keys
        BY DEF Unjournaled, OwnershipInv, CallOK, Calling
    <2>6. stray' \subseteq Keys
        BY <2>5 DEF Crash, OwnershipInv, TypeOK
    <2> QED BY <1>1, <2>1, <2>2, <2>3, <2>4, <2>6 DEF OwnershipInv, TypeOK
<1>3. CallOK' /\ ObservedOK'
    BY <1>1, IdleOwnership
<1>4. OwnOK'
    BY <1>1 DEF OwnershipInv, OwnOK, Holds, Recognises
<1> QED BY <1>2, <1>3, <1>4 DEF OwnershipInv

\* A command, or another configuration, touches no placement: at most it starts
\* a cleanup.
LEMMA CommandOwnership ==
    ASSUME OwnershipInv,
           Stop \/ Enable \/ Disable \/ Reload \/ FailClosed \/ TickInactive
    PROVE  OwnershipInv'
<1>1. /\ pc = "idle" /\ call = NoCall
      /\ UNCHANGED <<born, alive, cur, mine, stray, disk, managed, seen,
                     changed, budget, call>>
    BY DEF Stop, Enable, Disable, Reload, FailClosed, TickInactive,
           OwnershipInv, CallOK, Calling, world, files
<1>2. /\ pc' \in {"idle", "stopped", "cleanup"} /\ todo' \subseteq Keys
      /\ after' \in Afters /\ (pc' = "cleanup" => after' # "decide")
      /\ mode' \in Modes \cup {"default"} /\ enabled' \in BOOLEAN
      /\ UNCHANGED spent \/ Fault
    <2>1. ASSUME NEW label \in Afters \ {"decide"}, EnterCleanup(managed, label)
          PROVE  /\ pc' \in {"idle", "stopped", "cleanup"}
                 /\ todo' \subseteq Keys /\ after' \in Afters \ {"decide"}
        BY <2>1, CleanupTypes
    <2> QED BY <1>1, <2>1 DEF Stop, Enable, Disable, Reload, FailClosed,
               TickInactive, CommandFails, OwnershipInv, TypeOK, files, Afters
<1>3. spent' \in [faults : 0 .. MaxFaults, crashes : 0 .. MaxCrashes,
                  writes : 0 .. MaxWrites]
    BY <1>2, FaultType DEF OwnershipInv, TypeOK
<1>4. TypeOK'
    BY <1>1, <1>2, <1>3 DEF OwnershipInv, TypeOK, Labels
<1>5. CallOK' /\ ObservedOK'
    BY <1>1, <1>2, IdleOwnership
<1>6. OwnOK'
    BY <1>1, <1>2 DEF OwnershipInv, OwnOK, Holds, Recognises
<1> QED BY <1>4, <1>5, <1>6 DEF OwnershipInv

\* An observation has the list of the process, or none.
LEMMA TickOwnership ==
    ASSUME OwnershipInv, Tick
    PROVE  OwnershipInv'
<1>1. PICK hidden, unread, excluded \in SUBSET alive :
        /\ hidden \cap unread = {}
        /\ unread \subseteq excluded
        /\ \/ hidden \cup unread = {} /\ UNCHANGED spent
           \/ hidden \cup unread # {} /\ Fault
        /\ seen' = [k \in Keys |->
                      IF k \in alive \ hidden
                      THEN [list     |-> IF k \in unread THEN Free ELSE cur[k],
                            excluded |-> k \in excluded,
                            mine     |-> k \in mine]
                      ELSE None]
        /\ stray' = stray \cup ((hidden \cup unread) \cap Managed(managed))
    BY Zenon DEF Tick
<1>2. /\ pc = "idle" /\ pc' = "reconcile" /\ call = NoCall
      /\ todo' = Managed(managed) /\ changed' = FALSE
      /\ budget' = MaxMutations
      /\ UNCHANGED <<born, alive, cur, mine, disk, enabled, mode, after,
                     managed, call>>
    BY DEF Tick, Goto, OwnershipInv, CallOK, Calling, world, files
<1>3. \A k \in Keys :
        /\ seen'[k] \in Observation \cup {None}
        /\ seen'[k] # None =>
              seen'[k].list \in {cur[k], Free} /\ seen'[k].mine = (k \in mine)
    BY <1>1 DEF OwnershipInv, TypeOK, Observation
<1>4. TypeOK'
    <2>1. seen' \in [Keys -> Observation \cup {None}]
        BY <1>1, <1>3
    <2>2. budget' \in 0 .. MaxMutations
        BY <1>2, PlacementAssumption
    <2>3. spent' \in [faults : 0 .. MaxFaults, crashes : 0 .. MaxCrashes,
                      writes : 0 .. MaxWrites]
        BY <1>1, FaultType DEF OwnershipInv, TypeOK
    <2>4. stray' \subseteq Keys
        BY <1>1 DEF OwnershipInv, TypeOK, Managed
    <2> QED BY <1>2, <2>1, <2>2, <2>3, <2>4
               DEF OwnershipInv, TypeOK, Labels, Managed
<1>5. CallOK'
    BY <1>2, NoCallType DEF OwnershipInv, CallOK, Calling, Reconciling,
                            Cleaning, Managed
<1>6. OwnOK'
    BY <1>2 DEF OwnershipInv, OwnOK, Holds, Recognises
<1>7. ObservedOK'
    <2>1. \A k \in Keys : seen'[k] # None =>
            (Holds(managed[k], seen'[k].list) => seen'[k].mine)
        BY <1>3, NeverFree DEF OwnershipInv, OwnOK, TypeOK
    <2>2. \A k \in Keys : k \notin todo' => managed[k] = None
        BY <1>2 DEF Managed
    <2> QED BY <1>2, <2>1, <2>2
               DEF ObservedOK, Calling, Reconciling, Deciding, Holds, Recognises
<1> QED BY <1>4, <1>5, <1>6, <1>7 DEF OwnershipInv

\* A placement that is let go of is no claim on anything.
LEMMA ReconcileDropOwnership ==
    ASSUME OwnershipInv, NEW k \in Keys, ReconcileDrop(k)
    PROVE  OwnershipInv'
<1>1. /\ pc = "reconcile" /\ call = NoCall
      /\ managed' = [managed EXCEPT ![k] = None]
      /\ todo' = todo \ {k} /\ changed' = TRUE
      /\ UNCHANGED <<born, alive, cur, mine, stray, disk, enabled, mode, pc,
                     after, seen, budget, call, spent>>
    BY DEF ReconcileDrop, Store, OwnershipInv, CallOK, Calling, world, files
<1>2. /\ managed' \in [Keys -> Placement \cup {None}]
      /\ managed'[k] = None
      /\ \A x \in Keys \ {k} : managed'[x] = managed[x]
    BY <1>1 DEF OwnershipInv, TypeOK
<1>3. TypeOK'
    BY <1>1, <1>2 DEF OwnershipInv, TypeOK
<1>4. CallOK'
    BY <1>1, <1>2, NoCallType
       DEF OwnershipInv, CallOK, Calling, Reconciling, Cleaning
<1>5. OwnOK'
    BY <1>1, <1>2 DEF OwnershipInv, OwnOK, Holds, Recognises
<1>6. ObservedOK'
    BY <1>1, <1>2 DEF OwnershipInv, ObservedOK, Calling, Reconciling, Deciding,
                      Holds, Recognises
<1> QED BY <1>3, <1>4, <1>5, <1>6 DEF OwnershipInv

\* A placement that stays learns the list it was recognised by.
LEMMA ReconcileKeepOwnership ==
    ASSUME OwnershipInv, NEW k \in Keys, ReconcileKeep(k)
    PROVE  OwnershipInv'
<1> DEFINE learnt == [managed[k] EXCEPT !.list = seen[k].list]
<1>1. /\ pc = "reconcile" /\ call = NoCall /\ k \in todo /\ seen[k] # None
      /\ Recognises(managed[k], seen[k].list)
      /\ managed' = [managed EXCEPT ![k] = learnt]
      /\ todo' = todo \ {k}
      /\ UNCHANGED <<born, alive, cur, mine, stray, disk, enabled, mode, after,
                     seen, budget, spent>>
    BY DEF ReconcileKeep, Overridden, Store, OwnershipInv, CallOK, Calling,
           world, files
<1>2. changed' \in BOOLEAN
    BY DEF ReconcileKeep, OwnershipInv, TypeOK
<1>3. /\ managed[k] \in Placement /\ managed[k] # None
      /\ seen[k].list \in Lists \cup {Free}
    BY <1>1 DEF OwnershipInv, TypeOK, CallOK, Reconciling, Observation
<1>4. /\ learnt \in Placement /\ learnt # None
      /\ \A l : Holds(learnt, l) <=> l = seen[k].list
    BY <1>1, <1>3, LearnedHolds, PlacementFields
<1> HIDE DEF learnt
<1>5. /\ managed' \in [Keys -> Placement \cup {None}]
      /\ managed'[k] = learnt
      /\ \A x \in Keys \ {k} : managed'[x] = managed[x]
    BY <1>1, <1>4 DEF OwnershipInv, TypeOK
<1>6. \/ pc' = "reconcile" /\ call' = NoCall
      \/ /\ pc' = "replace" /\ call' \in Call /\ call'.key = k
         /\ call'.list = Free /\ call'.then = "reconcile"
    BY <1>1, AskTypes DEF ReconcileKeep
<1>7. Holds(managed[k], seen[k].list)
    BY <1>1, <1>3 DEF Holds
<1>8. TypeOK'
    BY <1>1, <1>2, <1>5, <1>6, NoCallType DEF OwnershipInv, TypeOK, Labels
<1>9. CallOK'
    <2>1. \A x \in todo' : managed'[x] # None
        BY <1>1, <1>5 DEF OwnershipInv, CallOK, Reconciling, TypeOK
    <2> QED BY <1>1, <1>6, <2>1, NoCallType
               DEF OwnershipInv, CallOK, Calling, Reconciling, Cleaning
<1>10. OwnOK'
    <2>1. \A l : Holds(managed'[k], l) => Holds(managed[k], l)
        BY <1>4, <1>5, <1>7
    <2>2. \A x \in Keys :
            Holds(managed'[x], cur[x]) => Holds(managed[x], cur[x])
        BY <1>5, <2>1
    <2> QED BY <1>1, <1>6, <2>2 DEF OwnershipInv, OwnOK, Holds, Recognises
<1>11. ObservedOK'
    <2>1. seen[k].mine
        BY <1>1, <1>7 DEF OwnershipInv, ObservedOK, Reconciling
    <2>2. \A x \in Keys : seen[x] # None =>
            /\ Holds(managed'[x], seen[x].list) => seen[x].mine
            /\ x \notin todo' /\ managed'[x] # None
               => Holds(managed'[x], seen[x].list)
        BY <1>1, <1>4, <1>5, <2>1 DEF OwnershipInv, ObservedOK, Reconciling
    <2> QED BY <1>1, <1>6, <2>1, <2>2
               DEF ObservedOK, Calling, Reconciling, Deciding, Holds,
                   Recognises
<1> QED BY <1>8, <1>9, <1>10, <1>11 DEF OwnershipInv

\* After the reconciliation every managed process was observed as it should be.
LEMMA EndReconcileOwnership ==
    ASSUME OwnershipInv, EndReconcile
    PROVE  OwnershipInv'
<1>1. /\ pc = "reconcile" /\ call = NoCall /\ todo = {}
      /\ todo' = {k \in Keys : seen[k] # None /\ ~ seen[k].excluded}
      /\ changed' = FALSE
      /\ \/ pc' = "persist" /\ after' = "decide"
         \/ pc' = "decide" /\ UNCHANGED after
      /\ UNCHANGED <<born, alive, cur, mine, stray, disk, enabled, mode,
                     managed, seen, budget, call, spent>>
    BY DEF EndReconcile, PersistThen, Goto, OwnershipInv, CallOK, Calling,
           world, files
<1>2. TypeOK'
    BY <1>1 DEF OwnershipInv, TypeOK, Labels, Afters
<1>3. CallOK'
    BY <1>1, NoCallType DEF OwnershipInv, CallOK, Calling, Reconciling, Cleaning
<1>4. OwnOK'
    BY <1>1 DEF OwnershipInv, OwnOK, Holds, Recognises
<1>5. ObservedOK'
    BY <1>1 DEF OwnershipInv, ObservedOK, Calling, Reconciling, Deciding
<1> QED BY <1>2, <1>3, <1>4, <1>5 DEF OwnershipInv

\* A safety tick ends with its reconciliation.
LEMMA EndSafetyTickOwnership ==
    ASSUME OwnershipInv, EndSafetyTick
    PROVE  OwnershipInv'
<1>1. /\ pc = "reconcile" /\ call = NoCall /\ changed' = FALSE
      /\ seen' = [k \in Keys |-> None] /\ budget' = 0
      /\ \/ pc' = "persist" /\ after' = "idle"
         \/ pc' = "idle" /\ UNCHANGED after
      /\ UNCHANGED <<born, alive, cur, mine, stray, disk, enabled, mode,
                     managed, todo, call, spent>>
    BY DEF EndSafetyTick, PersistThen, Goto, OwnershipInv, CallOK, Calling,
           world, files
<1>2. seen' \in [Keys -> Observation \cup {None}]
      /\ budget' \in 0 .. MaxMutations
    BY <1>1, PlacementAssumption
<1>3. TypeOK'
    BY <1>1, <1>2 DEF OwnershipInv, TypeOK, Labels, Afters
<1>4. CallOK'
    BY <1>1, NoCallType DEF CallOK, Calling, Reconciling, Cleaning
<1>5. OwnOK'
    BY <1>1 DEF OwnershipInv, OwnOK, Holds, Recognises
<1>6. ObservedOK'
    BY <1>1 DEF ObservedOK, Calling, Reconciling, Deciding
<1> QED BY <1>3, <1>4, <1>5, <1>6 DEF OwnershipInv

\* A decision is about a process that was observed free or the service's own.
LEMMA DecideOwnership ==
    ASSUME OwnershipInv, NEW k \in Keys,
           DecideAssign(k) \/ DecideClear(k) \/ DecideKeep(k)
    PROVE  OwnershipInv'
<1>1. /\ pc = "decide" /\ call = NoCall /\ k \in todo /\ todo' = todo \ {k}
      /\ UNCHANGED <<born, alive, cur, mine, stray, disk, enabled, mode, after,
                     managed, seen, changed, spent>>
    BY DEF DecideAssign, DecideClear, DecideKeep, OwnershipInv, CallOK,
           Calling, world, files
<1>2. /\ seen[k] # None /\ (managed[k] # None => seen[k].mine)
    BY <1>1 DEF OwnershipInv, ObservedOK, Deciding
<1>3. \/ pc' = "decide" /\ call' = NoCall /\ budget' = budget
      \/ /\ pc' = "replace" /\ call' \in Call /\ call'.key = k
         /\ call'.then = "decide" /\ budget' = budget - 1 /\ budget > 0
         /\ call'.list # Free => /\ call'.anchor \in Domains
                                 /\ Assignable(k)
         /\ call'.list = Free => Anchored(k)
    <2>1. CASE DecideAssign(k)
        <3>1. PICK list \in Lists, anchor \in Domains :
                Ask(k, list, anchor, "decide")
            BY <2>1 DEF DecideAssign
        <3>2. /\ call' \in Call /\ pc' = "replace" /\ call'.key = k
              /\ call'.list = list /\ call'.anchor = anchor
              /\ call'.then = "decide"
            BY <3>1, AskTypes
        <3>3. list # Free
            BY PlacementAssumption
        <3> QED BY <2>1, <3>2, <3>3 DEF DecideAssign, WithinLimit
    <2>2. CASE DecideClear(k)
        <3>1. /\ call' \in Call /\ pc' = "replace" /\ call'.key = k
              /\ call'.list = Free /\ call'.then = "decide"
            BY <2>2, AskTypes DEF DecideClear
        <3> QED BY <2>2, <3>1 DEF DecideClear, WithinLimit
    <2>3. CASE DecideKeep(k)
        BY <1>1, <2>3 DEF DecideKeep
    <2> QED BY <2>1, <2>2, <2>3
<1>4. budget' \in 0 .. MaxMutations
    BY <1>3, PlacementAssumption DEF OwnershipInv, TypeOK
<1>5. TypeOK'
    BY <1>1, <1>3, <1>4, NoCallType DEF OwnershipInv, TypeOK, Labels
<1>6. CallOK'
    BY <1>1, <1>3, NoCallType
       DEF OwnershipInv, CallOK, Calling, Reconciling, Cleaning
<1>7. OwnOK'
    BY <1>1, <1>3 DEF OwnershipInv, OwnOK, Holds, Recognises
<1>8. ObservedOK'
    <2>1. \A x \in todo' : seen[x] # None /\ (managed[x] # None => seen[x].mine)
        BY <1>1 DEF OwnershipInv, ObservedOK, Deciding
    <2>2. pc' = "replace" /\ k \notin StrictKeys =>
            seen[k].list = Free \/ seen[k].mine
        BY <1>2, <1>3 DEF Assignable, Anchored, StrictRule
    <2> QED BY <1>1, <1>3, <2>1, <2>2
               DEF ObservedOK, Calling, Reconciling, Deciding
<1> QED BY <1>5, <1>6, <1>7, <1>8 DEF OwnershipInv

\* The end of an evaluation forgets its observations.
LEMMA EndTickOwnership ==
    ASSUME OwnershipInv, EndTick
    PROVE  OwnershipInv'
<1>1. /\ call = NoCall /\ pc' = "idle" /\ seen' = [k \in Keys |-> None]
      /\ budget' = 0
      /\ UNCHANGED <<born, alive, cur, mine, stray, disk, enabled, mode, after,
                     managed, todo, changed, call, spent>>
    BY DEF EndTick, Goto, OwnershipInv, CallOK, Calling, world, files
<1>2. seen' \in [Keys -> Observation \cup {None}]
      /\ budget' \in 0 .. MaxMutations
    BY <1>1, PlacementAssumption
<1>3. TypeOK'
    BY <1>1, <1>2 DEF OwnershipInv, TypeOK, Labels
<1>4. CallOK' /\ ObservedOK'
    BY <1>1, IdleOwnership
<1>5. OwnOK'
    BY <1>1 DEF OwnershipInv, OwnOK, Holds, Recognises
<1> QED BY <1>3, <1>4, <1>5 DEF OwnershipInv

\* Only a process of a call becomes a stray.
LEMMA LostType ==
    ASSUME OwnershipInv, Calling, NEW lost, Lost(lost)
    PROVE  stray' \subseteq Keys
BY DEF Lost, OwnershipInv, TypeOK, CallOK, Calling

\* A call that fails before the list is set changes no process.
LEMMA RefuseOwnership ==
    ASSUME OwnershipInv, Refuse \/ SetFails
    PROVE  OwnershipInv'
<1>1. PICK gone \in BOOLEAN : Outcome(FALSE, gone)
    BY DEF Refuse, SetFails
<1>2. /\ Calling /\ (UNCHANGED spent \/ Fault)
      /\ Lost(call.then = "rollback")
      /\ UNCHANGED <<born, alive, cur, mine, disk, enabled, mode, seen, budget>>
    BY DEF Refuse, SetFails, Calling, files
<1>3. /\ managed' \in [Keys -> Placement \cup {None}]
      /\ call' \in Call /\ todo' \subseteq Keys
      /\ changed' \in BOOLEAN
      /\ pc' \in Labels \ {"replace", "set", "readback"}
      /\ after' \in Afters
      /\ CallOK' /\ ObservedOK'
      /\ \A k \in Keys : \A l : Holds(managed'[k], l) => Holds(managed[k], l)
    BY <1>1, <1>2, FailureStep
<1>4. spent' \in [faults : 0 .. MaxFaults, crashes : 0 .. MaxCrashes,
                  writes : 0 .. MaxWrites]
    BY <1>2, FaultType DEF OwnershipInv, TypeOK
<1>5. TypeOK'
    BY <1>2, <1>3, <1>4, LostType DEF OwnershipInv, TypeOK
<1>6. OwnOK'
    BY <1>2, <1>3 DEF OwnershipInv, OwnOK, Holds, Recognises
<1> QED BY <1>3, <1>5, <1>6 DEF OwnershipInv

\* The list to go back to is the service's own if a placement recognises it.
LEMMA QueryOwnership ==
    ASSUME OwnershipInv, Query
    PROVE  OwnershipInv'
<1>1. /\ pc = "replace" /\ pc' = "set" /\ call.key \in alive
      /\ call' = [call EXCEPT !.previous = cur[call.key],
                              !.wasMine = call.key \in mine]
      /\ UNCHANGED <<born, alive, cur, mine, stray, disk, enabled, mode, after,
                     managed, seen, todo, changed, budget, spent>>
    BY DEF Query, Goto, world, files
<1>2. call \in Call /\ call.key \in Keys
    BY <1>1 DEF OwnershipInv, TypeOK, CallOK, Calling
<1>3. /\ call' \in Call /\ call'.key = call.key /\ call'.list = call.list
      /\ call'.anchor = call.anchor /\ call'.then = call.then
      /\ call'.previous = cur[call.key]
      /\ call'.wasMine = (call.key \in mine)
    <2>1. cur[call.key] \in Lists \cup {Free} /\ (call.key \in mine) \in BOOLEAN
        BY <1>2 DEF OwnershipInv, TypeOK
    <2> DEFINE was == call.key \in mine
               prev == cur[call.key]
    <2>2. /\ prev \in Lists \cup {Free} /\ was \in BOOLEAN
          /\ call' = [call EXCEPT !.previous = prev, !.wasMine = was]
        BY <1>1, <2>1
    <2> HIDE DEF was, prev
    <2>3. /\ call' \in Call /\ call'.key = call.key /\ call'.list = call.list
          /\ call'.anchor = call.anchor /\ call'.then = call.then
          /\ call'.previous = prev /\ call'.wasMine = was
        BY <1>2, <2>2 DEF Call
    <2> QED BY <2>3 DEF was, prev
<1>4. TypeOK'
    BY <1>1, <1>3 DEF OwnershipInv, TypeOK, Labels
<1>5. CallOK'
    BY <1>1, <1>3 DEF OwnershipInv, CallOK, Calling, Reconciling, Cleaning
<1>6. OwnOK'
    BY <1>1, <1>2, <1>3 DEF OwnershipInv, OwnOK, Holds, Recognises
<1>7. ObservedOK'
    BY <1>1, <1>3 DEF OwnershipInv, ObservedOK, Calling, Reconciling, Deciding,
                      Holds, Recognises
<1> QED BY <1>4, <1>5, <1>6, <1>7 DEF OwnershipInv

\* A new list is the service's own.
LEMMA ReplaceOwnership ==
    ASSUME OwnershipInv, Replace
    PROVE  OwnershipInv'
<1>1. /\ pc = "set" /\ pc' = "readback" /\ call.key \in alive
      /\ cur' = [cur EXCEPT ![call.key] = call.list]
      /\ mine' = IF call.list = Free THEN mine \ {call.key}
                 ELSE mine \cup {call.key}
      /\ UNCHANGED <<born, alive, stray, disk, enabled, mode, after, managed,
                     seen, todo, changed, budget, call, spent>>
    BY DEF Replace, Goto, files
<1>2. call \in Call /\ call.key \in Keys /\ call.key \in born
    BY <1>1 DEF OwnershipInv, TypeOK, CallOK, Calling
<1>3. /\ cur' \in [Keys -> Lists \cup {Free}]
      /\ cur'[call.key] = call.list
      /\ \A x \in Keys \ {call.key} : cur'[x] = cur[x]
    BY <1>1, <1>2 DEF OwnershipInv, TypeOK, Call
<1>4. TypeOK'
    BY <1>1, <1>2, <1>3 DEF OwnershipInv, TypeOK, Labels
<1>5. CallOK'
    BY <1>1 DEF OwnershipInv, CallOK, Calling, Reconciling, Cleaning
<1>6. OwnOK'
    <2>1. \A k \in Keys :
            Holds(managed[k], cur'[k]) \/ Holds(disk[k], cur'[k]) => k \in mine'
        BY <1>1, <1>3, NeverFree DEF OwnershipInv, OwnOK, TypeOK
    <2>2. call.list # Free => call.key \in mine'
        BY <1>1, <1>2
    <2> QED BY <1>1, <2>1, <2>2
               DEF OwnershipInv, OwnOK, Holds, Recognises
<1>7. ObservedOK'
    BY <1>1 DEF OwnershipInv, ObservedOK, Calling, Reconciling, Deciding,
                Holds, Recognises
<1> QED BY <1>4, <1>5, <1>6, <1>7 DEF OwnershipInv

\* An assignment that reads back is the service's own: it may be remembered.
LEMMA ReadBackOwnership ==
    ASSUME OwnershipInv, ReadBack
    PROVE  OwnershipInv'
<1>1. /\ pc = "readback" /\ cur[call.key] = call.list
      /\ Outcome(TRUE, FALSE) /\ stray' = stray \ {call.key}
      /\ UNCHANGED <<born, alive, cur, mine, disk, enabled, mode, seen, budget,
                     spent>>
    BY DEF ReadBack, world, files
<1>2. /\ managed' \in [Keys -> Placement \cup {None}]
      /\ call' \in Call /\ todo' \subseteq Keys
      /\ changed' \in BOOLEAN
      /\ pc' \in Labels \ {"replace", "set", "readback"}
      /\ after' \in Afters
      /\ CallOK' /\ ObservedOK'
      /\ \A k \in Keys : \A l :
            Holds(managed'[k], l)
            => \/ Holds(managed[k], l)
               \/ k = call.key /\ l = call.list /\ call.list # Free
    BY <1>1, OutcomeStep DEF Calling
<1>3. TypeOK'
    BY <1>1, <1>2 DEF OwnershipInv, TypeOK
<1>4. OwnOK'
    <2>1. call.list # Free => call.key \in mine
        BY <1>1 DEF OwnershipInv, OwnOK
    <2>2. \A k \in Keys :
            Holds(managed'[k], cur[k]) \/ Holds(disk[k], cur[k]) => k \in mine
        BY <1>2, <2>1 DEF OwnershipInv, OwnOK
    <2> QED BY <1>1, <1>2, <2>2 DEF OwnOK, Holds, Recognises
<1> QED BY <1>2, <1>3, <1>4 DEF OwnershipInv

\* An assignment that cannot be read back is not remembered.
LEMMA ReadBackFailsOwnership ==
    ASSUME OwnershipInv, ReadBackFails
    PROVE  OwnershipInv'
<1>1. /\ pc = "readback" /\ (UNCHANGED spent \/ Fault)
      /\ Outcome(FALSE, FALSE) /\ Lost(call.list # Free)
      /\ UNCHANGED <<born, alive, cur, mine, disk, enabled, mode, seen, budget>>
    BY DEF ReadBackFails, world, files
<1>2. /\ managed' \in [Keys -> Placement \cup {None}]
      /\ call' \in Call /\ todo' \subseteq Keys
      /\ changed' \in BOOLEAN
      /\ pc' \in Labels \ {"replace", "set", "readback"}
      /\ after' \in Afters
      /\ CallOK' /\ ObservedOK'
      /\ \A k \in Keys : \A l : Holds(managed'[k], l) => Holds(managed[k], l)
    BY <1>1, FailureStep DEF Calling
<1>3. spent' \in [faults : 0 .. MaxFaults, crashes : 0 .. MaxCrashes,
                  writes : 0 .. MaxWrites]
    BY <1>1, FaultType DEF OwnershipInv, TypeOK
<1>4. TypeOK'
    BY <1>1, <1>2, <1>3, LostType DEF OwnershipInv, TypeOK, Calling
<1>5. OwnOK'
    BY <1>1, <1>2 DEF OwnershipInv, OwnOK, Holds, Recognises
<1> QED BY <1>2, <1>4, <1>5 DEF OwnershipInv

\* What is put back was the service's own if a placement recognises it.
LEMMA RollBackOwnership ==
    ASSUME OwnershipInv, RollBack
    PROVE  OwnershipInv'
<1>1. /\ pc = "readback" /\ call.key \in alive
      /\ Outcome(FALSE, FALSE) /\ Lost(call.then = "rollback")
      /\ UNCHANGED <<born, alive, disk, enabled, mode, seen, budget>>
    BY DEF RollBack, files
<1>2. \/ /\ cur' = [cur EXCEPT ![call.key] = call.previous]
         /\ mine' = IF call.wasMine THEN mine \cup {call.key}
                    ELSE mine \ {call.key}
         /\ UNCHANGED spent
      \/ Fault /\ UNCHANGED <<cur, mine>>
    BY DEF RollBack
<1>3. /\ managed' \in [Keys -> Placement \cup {None}]
      /\ call' \in Call /\ todo' \subseteq Keys
      /\ changed' \in BOOLEAN
      /\ pc' \in Labels \ {"replace", "set", "readback"}
      /\ after' \in Afters
      /\ CallOK' /\ ObservedOK'
      /\ \A k \in Keys : \A l : Holds(managed'[k], l) => Holds(managed[k], l)
    BY <1>1, FailureStep DEF Calling
<1>4. call \in Call /\ call.key \in Keys /\ call.key \in born
    BY <1>1 DEF OwnershipInv, TypeOK, CallOK, Calling
<1>5. spent' \in [faults : 0 .. MaxFaults, crashes : 0 .. MaxCrashes,
                  writes : 0 .. MaxWrites]
    BY <1>2, FaultType DEF OwnershipInv, TypeOK
<1>6. cur' \in [Keys -> Lists \cup {Free}] /\ mine' \subseteq born
    BY <1>2, <1>4 DEF OwnershipInv, TypeOK, Call
<1>7. TypeOK'
    BY <1>1, <1>3, <1>5, <1>6, LostType DEF OwnershipInv, TypeOK, Calling
<1>8. \A k \in Keys :
        Holds(managed[k], cur'[k]) \/ Holds(disk[k], cur'[k]) => k \in mine'
    <2>1. CASE UNCHANGED <<cur, mine>>
        BY <2>1 DEF OwnershipInv, OwnOK
    <2>2. CASE /\ cur' = [cur EXCEPT ![call.key] = call.previous]
               /\ mine' = IF call.wasMine THEN mine \cup {call.key}
                          ELSE mine \ {call.key}
        <3>1. /\ cur'[call.key] = call.previous
              /\ \A x \in Keys \ {call.key} : cur'[x] = cur[x]
            BY <1>4, <2>2 DEF OwnershipInv, TypeOK
        <3> QED BY <1>1, <2>2, <3>1 DEF OwnershipInv, OwnOK
    <2> QED BY <1>2, <2>1, <2>2
<1>9. OwnOK'
    BY <1>1, <1>3, <1>8 DEF OwnOK, Holds, Recognises
<1> QED BY <1>3, <1>7, <1>9 DEF OwnershipInv

\* A cleanup asks for one process after the other.
LEMMA CleanupOwnership ==
    ASSUME OwnershipInv,
           (\E k \in Keys : CleanupNext(k)) \/ EndCleanup
    PROVE  OwnershipInv'
<1>1. /\ pc = "cleanup" /\ call = NoCall
      /\ UNCHANGED <<born, alive, cur, mine, stray, disk, enabled, mode,
                     managed, seen, changed, budget, spent>>
    BY DEF CleanupNext, EndCleanup, OwnershipInv, CallOK, Calling, world, files
<1>2. CASE EndCleanup
    <2>1. /\ pc' = "persist" /\ after' = after /\ after # "decide"
          /\ call' = call /\ todo' = todo
        BY <1>1, <1>2 DEF EndCleanup, Goto, OwnershipInv, CallOK, Cleaning
    <2>2. TypeOK'
        BY <1>1, <2>1 DEF OwnershipInv, TypeOK, Labels
    <2>3. CallOK'
        BY <1>1, <2>1, NoCallType
           DEF OwnershipInv, CallOK, Calling, Reconciling, Cleaning
    <2>4. OwnOK'
        BY <1>1, <2>1 DEF OwnershipInv, OwnOK, Holds, Recognises
    <2>5. ObservedOK'
        BY <2>1 DEF ObservedOK, Calling, Reconciling, Deciding
    <2> QED BY <2>2, <2>3, <2>4, <2>5 DEF OwnershipInv
<1>3. ASSUME NEW k \in Keys, CleanupNext(k)
      PROVE  OwnershipInv'
    <2>1. /\ todo' = todo \ {k} /\ after' = after
          /\ call' \in Call /\ pc' = "replace" /\ call'.key = k
          /\ call'.list = Free /\ call'.then = "cleanup"
        BY <1>3, AskTypes DEF CleanupNext
    <2>2. TypeOK'
        BY <1>1, <2>1 DEF OwnershipInv, TypeOK, Labels
    <2>3. CallOK'
        BY <1>1, <2>1 DEF OwnershipInv, CallOK, Calling, Reconciling, Cleaning
    <2>4. OwnOK'
        BY <1>1, <2>1 DEF OwnershipInv, OwnOK, Holds, Recognises
    <2>5. ObservedOK'
        BY <2>1 DEF ObservedOK, Calling, Reconciling, Deciding
    <2> QED BY <2>2, <2>3, <2>4, <2>5 DEF OwnershipInv
<1> QED BY <1>2, <1>3

\* The file takes over the placements of the memory.
LEMMA PersistOwnership ==
    ASSUME OwnershipInv, Persist
    PROVE  OwnershipInv'
<1>1. /\ pc = "persist" /\ disk' = managed /\ pc' = Resumed(after)
      /\ after' = "idle" /\ call' = NoCall
      /\ UNCHANGED <<born, alive, cur, mine, stray, enabled, mode, managed,
                     seen, todo, changed, budget, spent>>
    BY DEF Persist, Goto, world
<1>2. /\ pc' \in {"idle", "stopped", "decide"}
      /\ pc' = "decide" => after = "decide"
    BY <1>1 DEF Resumed, OwnershipInv, TypeOK, Afters
<1>3. TypeOK'
    BY <1>1, <1>2, NoCallType DEF OwnershipInv, TypeOK, Labels, Afters
<1>4. CallOK'
    BY <1>1, <1>2, NoCallType DEF CallOK, Calling, Reconciling, Cleaning
<1>5. OwnOK'
    BY <1>1, <1>2 DEF OwnershipInv, OwnOK, Holds, Recognises
<1>6. ObservedOK'
    BY <1>1, <1>2 DEF OwnershipInv, ObservedOK, Calling, Reconciling, Deciding
<1> QED BY <1>3, <1>4, <1>5, <1>6 DEF OwnershipInv

\* After a failed write the assignment is taken back,
LEMMA PersistUndoesOwnership ==
    ASSUME OwnershipInv, PersistUndoes
    PROVE  OwnershipInv'
<1>1. /\ pc = "persist" /\ Fault /\ call.list # Free
      /\ UNCHANGED <<born, alive, cur, mine, stray, disk, enabled, mode, after,
                     managed, seen, todo, changed, budget>>
    BY DEF PersistUndoes, Undone, world, files
<1>2. call.key \in Keys \ todo
    BY <1>1 DEF OwnershipInv, CallOK
<1>3. /\ call' \in Call /\ pc' = "replace" /\ call'.key = call.key
      /\ call'.list = Free /\ call'.then = "rollback"
    BY <1>2, AskTypes DEF PersistUndoes
<1>4. TypeOK'
    BY <1>1, <1>3, FaultType DEF OwnershipInv, TypeOK, Labels
<1>5. CallOK'
    BY <1>1, <1>2, <1>3
       DEF OwnershipInv, CallOK, Calling, Reconciling, Cleaning
<1>6. OwnOK'
    BY <1>1, <1>3 DEF OwnershipInv, OwnOK, Holds, Recognises
<1>7. ObservedOK'
    BY <1>3 DEF ObservedOK, Calling, Reconciling, Deciding
<1> QED BY <1>4, <1>5, <1>6, <1>7 DEF OwnershipInv

\* or the thread goes on without the file.
LEMMA PersistFailsOwnership ==
    ASSUME OwnershipInv, PersistFails
    PROVE  OwnershipInv'
<1>1. /\ pc = "persist" /\ Fault /\ call' = NoCall
      /\ UNCHANGED <<born, alive, cur, mine, stray, disk, enabled, mode,
                     managed, seen, changed, budget>>
    BY DEF PersistFails, world, files
<1>2. /\ pc' \in {"idle", "stopped", "cleanup"} /\ todo' \subseteq Keys
      /\ after' \in Afters \ {"decide"}
    <2>1. CASE after \in {"reloaded", "stopped"}
        BY <2>1 DEF PersistFails, Goto, Resumed, OwnershipInv, TypeOK, Afters
    <2>2. CASE after \notin {"reloaded", "stopped"}
        BY <2>2, CleanupTypes DEF PersistFails, Afters
    <2> QED BY <2>1, <2>2
<1>3. TypeOK'
    BY <1>1, <1>2, FaultType, NoCallType DEF OwnershipInv, TypeOK, Labels
<1>4. CallOK' /\ ObservedOK'
    BY <1>1, <1>2, IdleOwnership
<1>5. OwnOK'
    BY <1>1, <1>2 DEF OwnershipInv, OwnOK, Holds, Recognises
<1> QED BY <1>3, <1>4, <1>5 DEF OwnershipInv

\* Every step preserves the invariant.
LEMMA OwnershipStep == OwnershipInv /\ [Next]_vars => OwnershipInv'
<1> SUFFICES ASSUME OwnershipInv, [Next]_vars PROVE OwnershipInv'
    OBVIOUS
<1>1. CASE UNCHANGED vars
    BY <1>1 DEF vars, world, files, thread, OwnershipInv, TypeOK, CallOK,
                OwnOK, ObservedOK, Calling, Reconciling, Deciding, Cleaning,
                Holds, Recognises
<1>2. CASE Environment
    BY <1>2, BirthOwnership, ExitOwnership, OutsiderOwnership, CrashOwnership,
       CommandOwnership DEF Environment
<1>3. CASE Evaluation
    BY <1>3, ReconcileDropOwnership, ReconcileKeepOwnership, DecideOwnership,
       EndReconcileOwnership, EndSafetyTickOwnership, EndTickOwnership
       DEF Evaluation
<1>4. CASE PlatformCall
    BY <1>4, RefuseOwnership, QueryOwnership, ReplaceOwnership,
       ReadBackOwnership, ReadBackFailsOwnership, RollBackOwnership
       DEF PlatformCall
<1>5. CASE \/ Start \/ TickInactive \/ Tick \/ EndCleanup \/ Persist
           \/ PersistUndoes \/ PersistFails \/ \E k \in Keys : CleanupNext(k)
    BY <1>5, StartOwnership, CommandOwnership, TickOwnership, CleanupOwnership,
       PersistOwnership, PersistUndoesOwnership, PersistFailsOwnership
<1> QED BY <1>1, <1>2, <1>3, <1>4, <1>5 DEF Next, Controller

\* OwnershipInv holds in every reachable state.
THEOREM Ownership == Spec => []OwnershipInv
<1>1. Init => OwnershipInv
    BY InitOwnership
<1>2. OwnershipInv /\ [Next]_vars => OwnershipInv'
    BY OwnershipStep
<1> QED BY <1>1, <1>2, PTL DEF Spec

\* Every variable keeps its type.
THEOREM TypeCorrect == Spec => []TypeOK
<1>1. OwnershipInv => TypeOK
    BY DEF OwnershipInv
<1> QED BY <1>1, Ownership, PTL

\* Only processes that were observed unassigned, or with the service's own
\* assignment, are given another list, unless a rule is strict: the service
\* recognises a placement only where it was the last to write, whatever an
\* outsider does between observation and assignment.
THEOREM OnlyOwnAssignments == Spec => ExternalObserved
<1>1. OwnershipInv =>
        \A k \in alive \ StrictKeys :
           /\ call.key = k /\ pc = "set" /\ pc' = "readback"
           /\ call.then \in {"decide", "reconcile"} /\ cur'[k] # cur[k]
           => seen[k].list = Free \/ seen[k].mine
    BY DEF OwnershipInv, ObservedOK
<1>2. OwnershipInv =>
        [\A k \in alive \ StrictKeys :
           /\ call.key = k /\ pc = "set" /\ pc' = "readback"
           /\ call.then \in {"decide", "reconcile"} /\ cur'[k] # cur[k]
           => seen[k].list = Free \/ seen[k].mine]_vars
    BY <1>1
<1> QED BY <1>2, Ownership, PTL DEF ExternalObserved

-----------------------------------------------------------------------------
\* What the service assigned and a placement stands for: in the file and, while
\* the service runs, in memory.
OnFile(k) == Holds(disk[k], cur[k])
InMemory(k) == Holds(managed[k], cur[k])

\* The processes of an older version are in its file.
LEMMA InitJournal == Init => JournalInv
<1> SUFFICES ASSUME Init PROVE JournalInv
    OBVIOUS
<1>1. SeenOK /\ HandOK
    BY DEF Init, SeenOK, HandOK, Reconciling, Calling
<1>2. PICK legacy \in SUBSET Keys, list \in {l \in Lists : DomainOf[l] # None} :
        /\ born = legacy /\ alive = legacy /\ mine = legacy /\ stray = {}
        /\ cur = [k \in Keys |-> IF k \in legacy THEN list ELSE Free]
        /\ disk = [k \in Keys |->
                      IF k \in legacy
                      THEN [anchor |-> DomainOf[list], list |-> Free]
                      ELSE None]
    BY DEF Init
<1> DEFINE r == [anchor |-> DomainOf[list], list |-> Free]
<1>3. r \in Placement /\ r.anchor = DomainOf[list] /\ r.list = Free
    BY PlacementAssumption DEF Placement
<1>4. Holds(r, list)
    BY <1>3, PlacementFields, PlacementAssumption
       DEF Holds, Recognises, Domain
<1>5. \A k \in legacy : disk[k] = r /\ cur[k] = list
    BY <1>2
<1>6. JournalOK
    BY <1>2, <1>4, <1>5 DEF Init, JournalOK
<1> QED BY <1>1, <1>6 DEF JournalInv

\* Outside a call, and with no assignment left to journal, the file and the
\* memory both stand for every process of the service that is no stray.
LEMMA Settled ==
    ASSUME JournalInv, ~ Unjournaled, pc # "readback",
           NEW k \in (alive \cap mine) \ stray
    PROVE  OnFile(k) /\ (pc # "stopped" => InMemory(k))
BY DEF JournalInv, JournalOK, InHand, OnFile, InMemory

\* The same for the next state.
LEMMA SettledNext ==
    ASSUME ~ Reconciling', pc' \notin {"set", "readback"},
           \A k \in Keys : k \in alive' /\ k \in mine' /\ k \notin stray' =>
              Holds(disk'[k], cur'[k])
              /\ (pc' # "stopped" => Holds(managed'[k], cur'[k])),
           mine' \subseteq Keys
    PROVE  JournalInv'
<1>1. SeenOK'
    BY DEF SeenOK
<1>2. HandOK'
    BY DEF HandOK
<1>3. JournalOK'
    BY DEF JournalOK, Holds, Recognises
<1> QED BY <1>1, <1>2, <1>3 DEF JournalInv

\* A call that returns touches no other placement; it adds only what it
\* assigned, and takes away only what is cleared, gone or rolled back.
LEMMA OutcomeJournal ==
    ASSUME OwnershipInv, Calling, NEW ok \in BOOLEAN, NEW gone \in BOOLEAN,
           Outcome(ok, gone)
    PROVE  /\ \A k \in Keys \ {call.key} : managed'[k] = managed[k]
           /\ \/ managed'[call.key] = managed[call.key]
              \/ call.then = "rollback" \/ gone \/ ok
           /\ ok /\ call.list # Free =>
                 /\ Holds(managed'[call.key], call.list)
                 /\ call' = call /\ pc' = "persist"
           /\ pc' = "persist" => ok /\ call' = call
           /\ pc' \notin {"replace", "set", "readback"}
           /\ Reconciling' => /\ Reconciling /\ todo' = todo
<1>1. call \in Call /\ call.key \in Keys
      /\ managed \in [Keys -> Placement \cup {None}]
      /\ (call.list # Free => call.anchor \in Domains /\ call.then = "decide")
    BY DEF OwnershipInv, TypeOK, CallOK
<1> DEFINE made == [anchor |-> call.anchor, list |-> call.list]
<1>2. call.list # Free => Holds(made, call.list)
    BY <1>1, NamedHolds DEF Call
<1> HIDE DEF made
<1>3. CASE call.then = "decide" /\ ok
    <2>1. /\ managed' = [managed EXCEPT ![call.key] =
                            IF call.list = Free THEN None ELSE made]
          /\ pc' = "persist" /\ call' = call
        BY <1>3 DEF Outcome, Store, PersistThen, made
    <2> QED BY <1>1, <1>2, <1>3, <2>1 DEF Reconciling, Calling
<1>4. CASE call.then = "decide" /\ ~ ok
    BY <1>1, <1>4 DEF Outcome, Goto, Reconciling, Calling
<1>5. CASE call.then = "reconcile"
    BY <1>1, <1>5 DEF Outcome, Goto, Store, Released, Reconciling
<1>6. CASE call.then = "cleanup"
    BY <1>1, <1>6 DEF Outcome, Goto, Store, Released, Reconciling, Calling
<1>7. CASE call.then = "rollback"
    <2>1. managed' = [managed EXCEPT ![call.key] = None]
          /\ pc' \in {"idle", "stopped", "cleanup"}
        BY <1>7 DEF Outcome, Store, EnterCleanup, Resumed, Goto
    <2> QED BY <1>1, <1>7, <2>1 DEF Reconciling, Calling
<1> QED BY <1>3, <1>4, <1>5, <1>6, <1>7 DEF Outcome

\* Processes and outsiders disturb no assignment of the service that they do
\* not replace.
LEMMA WorldJournal ==
    ASSUME OwnershipInv, JournalInv, NEW k \in Keys,
           \/ Birth(k) \/ Exit(k)
           \/ \E list \in Lists \cup {Free} : OutsiderAssigns(k, list)
    PROVE  JournalInv'
<1>1. /\ UNCHANGED <<stray, disk, enabled, pc, after, managed, seen, todo,
                     changed, budget, call>>
      /\ born \subseteq born'
    BY DEF Birth, Exit, OutsiderAssigns, files, thread
<1>2. mine \subseteq born /\ mine \subseteq Keys
      /\ (pc \in {"set", "readback"} => call.key \in born /\ call.key \in Keys)
    BY DEF OwnershipInv, TypeOK, CallOK, Calling, JournalInv, HandOK
<1>3. /\ mine' \subseteq mine /\ alive' \cap mine' \subseteq alive
      /\ \A x \in mine' : cur'[x] = cur[x]
      /\ pc \in {"set", "readback"} =>
            (call.key \in alive' => call.key \in alive)
    <2>1. CASE Birth(k)
        BY <1>2, <2>1 DEF Birth
    <2>2. CASE Exit(k)
        BY <2>2 DEF Exit
    <2>3. CASE \E list \in Lists \cup {Free} : OutsiderAssigns(k, list)
        <3>1. /\ alive' = alive /\ mine' = mine \ {k}
              /\ \A x \in Keys \ {k} : cur'[x] = cur[x]
            BY <2>3 DEF OutsiderAssigns, OwnershipInv, TypeOK
        <3> QED BY <1>2, <3>1
    <2> QED BY <2>1, <2>2, <2>3
<1>4. SeenOK'
    BY <1>1, <1>3 DEF JournalInv, SeenOK, Reconciling, Calling
<1>5. JournalOK'
    BY <1>1, <1>3 DEF JournalInv, JournalOK, Unjournaled, InHand, Holds,
                      Recognises
<1>6. HandOK'
    BY <1>1, <1>3 DEF JournalInv, HandOK, Holds, Recognises
<1> QED BY <1>4, <1>5, <1>6 DEF JournalInv

\* Starting, stopping, commands and configurations change neither a process nor
\* its placement; a crash makes a stray of the assignment in flight.
LEMMA LifeJournal ==
    ASSUME OwnershipInv, JournalInv,
           \/ Start \/ Crash \/ Stop \/ Enable \/ Disable \/ TickInactive
           \/ Reload \/ FailClosed
    PROVE  JournalInv'
<1>1. CASE Crash
    <2>1. /\ pc' = "stopped" /\ UNCHANGED <<born, alive, cur, mine, disk>>
          /\ stray' = IF Unjournaled THEN stray \cup {call.key} ELSE stray
        BY <1>1 DEF Crash, Goto, files
    <2>2. \A k \in (alive \cap mine) \ stray' : Holds(disk[k], cur[k])
        BY <2>1 DEF JournalInv, JournalOK
    <2> QED BY <2>1, <2>2, SettledNext
               DEF Reconciling, Calling, OwnershipInv, TypeOK
<1>2. CASE \/ Start \/ Stop \/ Enable \/ Disable \/ TickInactive
           \/ Reload \/ FailClosed
    <2>1. /\ UNCHANGED <<born, alive, cur, mine, stray, disk>>
          /\ pc' \in {"idle", "stopped", "cleanup"}
          /\ managed' = disk \/ (UNCHANGED managed /\ pc # "stopped")
        <3>1. ASSUME NEW placements, NEW label, EnterCleanup(placements, label),
                     label \in {"idle", "stopped", "reloaded"}
              PROVE  pc' \in {"idle", "stopped", "cleanup"}
            BY <3>1 DEF EnterCleanup, Goto, Resumed
        <3> QED BY <1>2, <3>1
                   DEF Start, Stop, Enable, Disable, TickInactive, Reload,
                       FailClosed, CommandFails, Goto, world, files
    <2>2. ~ Unjournaled /\ pc # "readback"
        BY <1>2 DEF Start, Stop, Enable, Disable, TickInactive, Reload,
                    FailClosed, Unjournaled
    <2> QED BY <2>1, <2>2, Settled, SettledNext
               DEF OnFile, InMemory, Reconciling, Calling, OwnershipInv, TypeOK
<1> QED BY <1>1, <1>2

\* A managed process that is not observed as it is becomes a stray.
LEMMA TickJournal ==
    ASSUME OwnershipInv, JournalInv, Tick
    PROVE  JournalInv'
<1>1. PICK hidden, unread, excluded \in SUBSET alive :
        /\ hidden \cap unread = {}
        /\ unread \subseteq excluded
        /\ \/ hidden \cup unread = {} /\ UNCHANGED spent
           \/ hidden \cup unread # {} /\ Fault
        /\ seen' = [k \in Keys |->
                      IF k \in alive \ hidden
                      THEN [list     |-> IF k \in unread THEN Free ELSE cur[k],
                            excluded |-> k \in excluded,
                            mine     |-> k \in mine]
                      ELSE None]
        /\ stray' = stray \cup ((hidden \cup unread) \cap Managed(managed))
    BY Zenon DEF Tick
<1>2. /\ pc = "idle" /\ pc' = "reconcile" /\ todo' = Managed(managed)
      /\ UNCHANGED <<born, alive, cur, mine, disk, managed, call>>
    BY DEF Tick, Goto, world, files
<1>3. \A k \in Managed(managed) \ stray' : k \notin hidden \cup unread
    BY <1>1
<1>4. SeenOK'
    <2> SUFFICES ASSUME NEW k \in (Managed(managed) \cap alive \cap mine)
                                  \ stray'
                 PROVE  seen'[k] # None /\ seen'[k].list = cur[k]
        BY <1>2 DEF SeenOK
    <2>1. seen'[k] = [list |-> cur[k], excluded |-> k \in excluded,
                      mine |-> k \in mine]
        BY <1>1, <1>3 DEF Managed
    <2>2. seen'[k] \in Observation
        BY <2>1 DEF Observation, OwnershipInv, TypeOK, Managed
    <2> QED BY <2>1, <2>2, PlacementAssumption
<1>5. JournalOK'
    BY <1>1, <1>2, Settled
       DEF JournalOK, Unjournaled, Holds, Recognises, OnFile, InMemory
<1>6. HandOK'
    BY <1>2 DEF HandOK
<1> QED BY <1>4, <1>5, <1>6 DEF JournalInv

\* Reconciliation lets go of no placement that stands for a process of the
\* service.
LEMMA ReconcileJournal ==
    ASSUME OwnershipInv, JournalInv, NEW k \in Keys,
           ReconcileDrop(k) \/ ReconcileKeep(k)
    PROVE  JournalInv'
<1>1. /\ pc = "reconcile" /\ call = NoCall /\ k \in todo /\ todo' = todo \ {k}
      /\ UNCHANGED <<born, alive, cur, mine, stray, disk, seen>>
    BY DEF ReconcileDrop, ReconcileKeep, OwnershipInv, CallOK, Calling, world,
           files
<1>2. ~ Unjournaled
    BY <1>1 DEF Unjournaled
<1>3. k \in (alive \cap mine) \ stray => seen[k] # None /\ seen[k].list = cur[k]
    BY <1>1 DEF JournalInv, SeenOK, Reconciling
<1>4. managed \in [Keys -> Placement \cup {None}] /\ managed[k] # None
    BY <1>1 DEF OwnershipInv, TypeOK, CallOK, Reconciling
<1>5. k \in (alive \cap mine) \ stray => InMemory(k)
    BY <1>1, <1>2, Settled
<1>6. k \in (alive \cap mine) \ stray => Holds(managed'[k], cur[k])
    <2> SUFFICES ASSUME k \in (alive \cap mine) \ stray
                 PROVE  Holds(managed'[k], cur[k])
        OBVIOUS
    <2>1. seen[k] # None /\ Recognises(managed[k], seen[k].list)
        BY <1>3, <1>5 DEF InMemory, Holds
    <2>2. managed' = [managed EXCEPT
                        ![k] = [managed[k] EXCEPT !.list = seen[k].list]]
        BY <2>1 DEF ReconcileDrop, ReconcileKeep, Overridden, Store
    <2>3. managed[k] \in Placement /\ cur[k] \in Lists \cup {Free}
        BY <1>4 DEF OwnershipInv, TypeOK
    <2>4. Holds([managed[k] EXCEPT !.list = seen[k].list], cur[k])
        BY <1>3, <2>1, <2>3, LearnedHolds
    <2> QED BY <1>4, <2>2, <2>4
<1>7. \A x \in Keys \ {k} : managed'[x] = managed[x]
    BY <1>4 DEF ReconcileDrop, ReconcileKeep, Store
<1>8. \/ pc' = "reconcile" /\ call' = call
      \/ pc' = "replace" /\ call'.then = "reconcile"
    BY <1>1, AskTypes DEF ReconcileDrop, ReconcileKeep
<1>9. SeenOK'
    BY <1>1, <1>8 DEF JournalInv, SeenOK, Reconciling, Calling
<1>10. JournalOK'
    <2>1. \A x \in (alive \cap mine) \ stray :
            Holds(disk[x], cur[x]) /\ Holds(managed'[x], cur[x])
        BY <1>1, <1>2, <1>6, <1>7, Settled
           DEF OnFile, InMemory, OwnershipInv, TypeOK
    <2> QED BY <1>1, <1>8, <2>1 DEF JournalOK, Holds, Recognises
<1>11. HandOK'
    BY <1>8, <1>1 DEF HandOK
<1> QED BY <1>9, <1>10, <1>11 DEF JournalInv

\* The other steps of an evaluation or a cleanup, up to the next call, change
\* neither a process nor a placement.
LEMMA ThreadJournal ==
    ASSUME OwnershipInv, JournalInv,
           \/ EndReconcile \/ EndSafetyTick \/ EndTick \/ EndCleanup
           \/ \E k \in Keys : \/ DecideAssign(k) \/ DecideClear(k)
                             \/ DecideKeep(k) \/ CleanupNext(k)
    PROVE  JournalInv'
<1>1. /\ UNCHANGED <<born, alive, cur, mine, stray, disk, managed>>
      /\ pc \in {"reconcile", "decide", "cleanup"}
    BY DEF EndReconcile, EndSafetyTick, DecideAssign, DecideClear, DecideKeep,
           EndTick, CleanupNext, EndCleanup, world, files
<1>2. /\ pc' \in {"persist", "decide", "replace", "idle"}
      /\ pc' = "replace" => call'.then \in {"decide", "cleanup"}
    <2>1. CASE EndReconcile \/ EndSafetyTick \/ EndTick \/ EndCleanup
        BY <2>1 DEF EndReconcile, EndSafetyTick, EndTick, EndCleanup,
                    PersistThen, Goto
    <2>2. ASSUME NEW k \in Keys, DecideAssign(k)
          PROVE  pc' = "replace" /\ call'.then = "decide"
        BY <2>2, AskTypes DEF DecideAssign
    <2>3. ASSUME NEW k \in Keys, DecideClear(k)
          PROVE  pc' = "replace" /\ call'.then = "decide"
        BY <2>3, AskTypes DEF DecideClear
    <2>4. ASSUME NEW k \in Keys, DecideKeep(k)
          PROVE  pc' = "decide"
        BY <2>4 DEF DecideKeep
    <2>5. ASSUME NEW k \in Keys, CleanupNext(k)
          PROVE  pc' = "replace" /\ call'.then = "cleanup"
        BY <2>5, AskTypes DEF CleanupNext
    <2> QED BY <2>1, <2>2, <2>3, <2>4, <2>5
<1>3. ~ Unjournaled
    BY <1>1 DEF Unjournaled
<1> QED BY <1>1, <1>2, <1>3, Settled, SettledNext
           DEF OnFile, InMemory, Reconciling, Calling, OwnershipInv, TypeOK

\* A call that fails before the list is set changes nothing, and lets go of the
\* placement only if the process is gone or becomes a stray.
LEMMA RefuseJournal ==
    ASSUME OwnershipInv, JournalInv, Refuse \/ SetFails
    PROVE  JournalInv'
<1>1. /\ pc \in {"replace", "set"} /\ Calling
      /\ UNCHANGED <<born, alive, cur, mine, disk, enabled, seen, budget>>
      /\ stray' = IF call.then = "rollback" THEN stray \cup {call.key}
                  ELSE stray
    BY DEF Refuse, SetFails, Lost, Calling, files
<1>2. PICK gone \in BOOLEAN :
        Outcome(FALSE, gone) /\ (call.key \in alive => ~ gone)
    BY DEF Refuse, SetFails
<1>3. /\ \A k \in Keys \ {call.key} : managed'[k] = managed[k]
      /\ \/ managed'[call.key] = managed[call.key]
         \/ call.then = "rollback" \/ gone \/ FALSE
      /\ pc' \notin {"replace", "set", "readback", "persist"}
      /\ Reconciling' => Reconciling /\ todo' = todo
    BY <1>1, <1>2, OutcomeJournal
<1>4. \A k \in (alive \cap mine) \ stray' :
        Holds(disk[k], cur[k]) /\ Holds(managed'[k], cur[k])
    <2> SUFFICES ASSUME NEW k \in (alive \cap mine) \ stray'
                 PROVE  Holds(disk[k], cur[k]) /\ Holds(managed'[k], cur[k])
        OBVIOUS
    <2>1. ~ (Unjournaled /\ call.key = k) /\ k \in Keys
        BY <1>1 DEF Unjournaled, OwnershipInv, TypeOK
    <2>2. Holds(disk[k], cur[k]) /\ Holds(managed[k], cur[k])
        BY <1>1, <2>1 DEF JournalInv, JournalOK, InHand
    <2>3. managed'[k] = managed[k]
        BY <1>1, <1>2, <1>3, <2>1
    <2> QED BY <2>2, <2>3
<1>5. SeenOK'
    BY <1>1, <1>3 DEF JournalInv, SeenOK
<1>6. JournalOK'
    BY <1>1, <1>4 DEF JournalOK, Holds, Recognises
<1>7. HandOK'
    BY <1>3 DEF HandOK
<1> QED BY <1>5, <1>6, <1>7 DEF JournalInv

\* The list to go back to is the one in the file and in the memory.
LEMMA QueryJournal ==
    ASSUME OwnershipInv, JournalInv, Query
    PROVE  JournalInv'
<1>1. /\ pc = "replace" /\ pc' = "set" /\ call.key \in alive
      /\ call' = [call EXCEPT !.previous = cur[call.key],
                              !.wasMine = call.key \in mine]
      /\ UNCHANGED <<born, alive, cur, mine, stray, disk, managed, seen, todo>>
    BY DEF Query, Goto, world, files
<1>2. call \in Call /\ call.key \in Keys /\ call.key \in born
    BY <1>1 DEF OwnershipInv, TypeOK, CallOK, Calling
<1>3. /\ call'.key = call.key /\ call'.list = call.list
      /\ call'.then = call.then /\ call'.previous = cur[call.key]
      /\ call'.wasMine = (call.key \in mine)
    BY <1>1, <1>2 DEF Call
<1>4. SeenOK'
    BY <1>1, <1>3 DEF JournalInv, SeenOK, Reconciling, Calling
<1>5. JournalOK'
    BY <1>1, <1>3 DEF JournalInv, JournalOK, Unjournaled, InHand, Holds,
                      Recognises
<1>6. HandOK'
    <2>1. call.key \in (alive \cap mine) \ stray =>
            /\ Holds(managed[call.key], cur[call.key])
            /\ call.then # "rollback" => Holds(disk[call.key], cur[call.key])
        BY <1>1 DEF JournalInv, JournalOK, InHand, Unjournaled
    <2>2. call'.key \in alive' \ stray' /\ call'.wasMine =>
            /\ Holds(managed[call.key], call'.previous)
            /\ call.then # "rollback" => Holds(disk[call.key], call'.previous)
        <3>1. call'.wasMine => call.key \in mine
            BY <1>3
        <3>2. call'.key \in alive' \ stray' <=> call.key \in alive \ stray
            BY <1>1, <1>3
        <3>3. call'.previous = cur[call.key]
            BY <1>3
        <3> QED BY <2>1, <3>1, <3>2, <3>3
    <2> QED BY <1>1, <1>2, <1>3, <2>2 DEF HandOK, Holds, Recognises
<1> QED BY <1>4, <1>5, <1>6 DEF JournalInv

\* A new assignment is in hand.
LEMMA ReplaceJournal ==
    ASSUME OwnershipInv, JournalInv, Replace
    PROVE  JournalInv'
<1>1. /\ pc = "set" /\ pc' = "readback" /\ call.key \in alive
      /\ cur' = [cur EXCEPT ![call.key] = call.list]
      /\ mine' = IF call.list = Free THEN mine \ {call.key}
                 ELSE mine \cup {call.key}
      /\ UNCHANGED <<born, alive, stray, disk, managed, seen, todo, call>>
    BY DEF Replace, Goto, files
<1>2. call.key \in Keys /\ call.key \notin todo
    BY <1>1 DEF OwnershipInv, CallOK, Calling
<1>3. /\ cur'[call.key] = call.list
      /\ \A x \in Keys \ {call.key} : cur'[x] = cur[x]
    BY <1>1, <1>2 DEF OwnershipInv, TypeOK
<1>4. \A k \in ((alive \cap mine) \ stray) \ {call.key} :
        Holds(disk[k], cur[k]) /\ Holds(managed[k], cur[k])
    BY <1>1 DEF JournalInv, JournalOK, InHand
<1>5. SeenOK'
    BY <1>1, <1>2, <1>3 DEF JournalInv, SeenOK, Reconciling, Calling,
                            OwnershipInv, TypeOK
<1>6. JournalOK'
    <2>1. \A k \in alive \cap mine' : k = call.key =>
            (Unjournaled /\ call.key = k)' /\ InHand(k)'
        BY <1>1 DEF Unjournaled, InHand
    <2>2. \A k \in (alive \cap mine') \ {call.key} :
            /\ k \in mine /\ k \in Keys /\ cur'[k] = cur[k]
        BY <1>1, <1>3 DEF OwnershipInv, TypeOK
    <2>3. \A k \in ((alive \cap mine') \ stray) \ {call.key} :
            Holds(disk[k], cur'[k]) /\ Holds(managed[k], cur'[k])
        BY <1>4, <2>2
    <2> QED BY <1>1, <2>1, <2>3 DEF JournalOK, Holds, Recognises
<1>7. HandOK'
    <2>1. call.key \in mine' =>
            cur'[call.key] = call.list /\ call.list # Free
        BY <1>1, <1>3
    <2> QED BY <1>1, <2>1 DEF JournalInv, HandOK, Holds, Recognises
<1> QED BY <1>5, <1>6, <1>7 DEF JournalInv

\* An assignment that reads back is remembered, a cleared one let go.
LEMMA ReadBackJournal ==
    ASSUME OwnershipInv, JournalInv, ReadBack
    PROVE  JournalInv'
<1>1. /\ pc = "readback" /\ cur[call.key] = call.list
      /\ Outcome(TRUE, FALSE) /\ stray' = stray \ {call.key}
      /\ UNCHANGED <<born, alive, cur, mine, disk, enabled, seen, budget,
                     spent>>
    BY DEF ReadBack, world, files
<1>2. /\ \A k \in Keys \ {call.key} : managed'[k] = managed[k]
      /\ call.list # Free =>
            /\ Holds(managed'[call.key], call.list)
            /\ call' = call /\ pc' = "persist"
      /\ pc' \notin {"replace", "set", "readback"}
      /\ Reconciling' => Reconciling /\ todo' = todo
    BY <1>1, OutcomeJournal DEF Calling
<1>3. call.key \in mine => call.list # Free
    BY <1>1 DEF JournalInv, HandOK
<1>4. \A k \in (alive \cap mine) \ stray : k # call.key =>
        Holds(disk[k], cur[k]) /\ Holds(managed'[k], cur[k])
    BY <1>1, <1>2 DEF JournalInv, JournalOK, InHand, OwnershipInv, TypeOK
<1>5. SeenOK'
    <2>1. call.key \notin todo
        BY <1>1 DEF OwnershipInv, CallOK, Calling
    <2> QED BY <1>1, <1>2, <2>1 DEF JournalInv, SeenOK
<1>6. JournalOK'
    <2>1. \A k \in alive \cap mine : k = call.key =>
            (Unjournaled /\ call.key = k)' /\ Holds(managed'[k], cur[k])
        BY <1>1, <1>2, <1>3 DEF Unjournaled
    <2> QED BY <1>1, <1>4, <2>1 DEF JournalOK, Holds, Recognises
<1>7. HandOK'
    BY <1>2 DEF HandOK
<1> QED BY <1>5, <1>6, <1>7 DEF JournalInv

\* An assignment that cannot be read back makes a stray of its process.
LEMMA ReadBackFailsJournal ==
    ASSUME OwnershipInv, JournalInv, ReadBackFails
    PROVE  JournalInv'
<1>1. /\ pc = "readback" /\ Outcome(FALSE, FALSE)
      /\ UNCHANGED <<born, alive, cur, mine, disk, enabled, seen, budget>>
      /\ stray' = IF call.list # Free THEN stray \cup {call.key} ELSE stray
    BY DEF ReadBackFails, Lost, files
<1>2. /\ \A k \in Keys \ {call.key} : managed'[k] = managed[k]
      /\ pc' \notin {"replace", "set", "readback"}
      /\ Reconciling' => Reconciling /\ todo' = todo
    BY <1>1, OutcomeJournal DEF Calling
<1>3. call.key \notin (alive \cap mine) \ stray'
    BY <1>1 DEF JournalInv, HandOK
<1>4. \A k \in (alive \cap mine) \ stray' :
        Holds(disk[k], cur[k]) /\ Holds(managed'[k], cur[k])
    BY <1>1, <1>2, <1>3
       DEF JournalInv, JournalOK, InHand, OwnershipInv, TypeOK
<1>5. SeenOK'
    BY <1>1, <1>2 DEF JournalInv, SeenOK
<1>6. JournalOK'
    BY <1>1, <1>4 DEF JournalOK, Holds, Recognises
<1>7. HandOK'
    BY <1>2 DEF HandOK
<1> QED BY <1>5, <1>6, <1>7 DEF JournalInv

\* What a rollback puts back is what the placement stands for.
LEMMA RollBackJournal ==
    ASSUME OwnershipInv, JournalInv, RollBack
    PROVE  JournalInv'
<1>1. /\ pc = "readback" /\ call.key \in alive /\ cur[call.key] # call.list
      /\ Outcome(FALSE, FALSE)
      /\ UNCHANGED <<born, alive, disk, enabled, seen, budget>>
      /\ stray' = IF call.then = "rollback" THEN stray \cup {call.key}
                  ELSE stray
    BY DEF RollBack, Lost, files
<1>2. call.key \in Keys /\ call.key \notin todo
    BY <1>1 DEF OwnershipInv, CallOK, Calling
<1>3. call.key \notin mine
    BY <1>1, <1>2 DEF JournalInv, HandOK
<1>4. /\ \A k \in Keys \ {call.key} : managed'[k] = managed[k]
      /\ \/ managed'[call.key] = managed[call.key]
         \/ call.then = "rollback" \/ FALSE
      /\ pc' \notin {"replace", "set", "readback"}
      /\ Reconciling' => Reconciling /\ todo' = todo
    BY <1>1, OutcomeJournal DEF Calling
<1>5. /\ \A k \in mine' \ {call.key} : k \in mine /\ k \in Keys
                                       /\ cur'[k] = cur[k]
      /\ call.key \in mine' =>
            call.wasMine /\ cur'[call.key] = call.previous
    BY <1>2, <1>3 DEF RollBack, OwnershipInv, TypeOK
<1>6. \A k \in (alive \cap mine') \ stray' :
        Holds(disk[k], cur'[k]) /\ Holds(managed'[k], cur'[k])
    <2> SUFFICES ASSUME NEW k \in (alive \cap mine') \ stray'
                 PROVE  Holds(disk[k], cur'[k]) /\ Holds(managed'[k], cur'[k])
        OBVIOUS
    <2>1. CASE k = call.key
        <3>1. call.key \notin stray /\ call.then # "rollback" /\ call.wasMine
            BY <1>1, <1>5, <2>1
        <3> QED BY <1>1, <1>4, <1>5, <2>1, <3>1 DEF JournalInv, HandOK
    <2>2. CASE k # call.key
        BY <1>1, <1>4, <1>5, <2>2 DEF JournalInv, JournalOK, InHand
    <2> QED BY <2>1, <2>2
<1>7. SeenOK'
    BY <1>1, <1>2, <1>4, <1>5 DEF JournalInv, SeenOK
<1>8. JournalOK'
    BY <1>1, <1>6 DEF JournalOK, Holds, Recognises
<1>9. HandOK'
    BY <1>4 DEF HandOK
<1> QED BY <1>7, <1>8, <1>9 DEF JournalInv

\* The memory stands for every process of the service when it is written; an
\* assignment that cannot be journaled stays in memory until it is taken back.
LEMMA PersistJournal ==
    ASSUME OwnershipInv, JournalInv, Persist \/ PersistUndoes \/ PersistFails
    PROVE  JournalInv'
<1>1. pc = "persist" /\ UNCHANGED <<born, alive, cur, mine, stray, managed>>
    BY DEF Persist, PersistUndoes, PersistFails, world
<1>2. \A k \in (alive \cap mine) \ stray : Holds(managed[k], cur[k])
    BY <1>1 DEF JournalInv, JournalOK, InHand
<1>3. CASE Persist
    <2>1. disk' = managed /\ pc' \in {"idle", "stopped", "decide"}
        BY <1>3 DEF Persist, Goto, Resumed, OwnershipInv, TypeOK, Afters
    <2> QED BY <1>1, <1>2, <2>1, SettledNext
               DEF Reconciling, Calling, OwnershipInv, TypeOK
<1>4. CASE PersistUndoes
    <2>1. call.key \in Keys
        BY <1>4 DEF PersistUndoes, Undone, OwnershipInv, CallOK
    <2>2. /\ pc' = "replace" /\ call'.key = call.key
          /\ call'.then = "rollback" /\ disk' = disk
        BY <1>4, <2>1, AskTypes DEF PersistUndoes, files
    <2>3. \A k \in (alive \cap mine) \ stray :
            k = call.key \/ Holds(disk[k], cur[k])
        BY DEF JournalInv, JournalOK
    <2>4. SeenOK' /\ HandOK'
        BY <2>2 DEF SeenOK, HandOK, Reconciling, Calling
    <2>5. JournalOK'
        BY <1>1, <1>2, <2>2, <2>3
           DEF JournalOK, Unjournaled, Holds, Recognises
    <2> QED BY <2>4, <2>5 DEF JournalInv
<1>5. CASE PersistFails
    <2>1. ~ Unjournaled
        BY <1>1, <1>5 DEF PersistFails, Unjournaled, Undone
    <2>2. pc' \in {"idle", "stopped", "cleanup"} /\ disk' = disk
        BY <1>5 DEF PersistFails, Goto, EnterCleanup, Resumed, files
    <2> QED BY <1>1, <1>2, <2>1, <2>2, Settled, SettledNext
               DEF OnFile, Reconciling, Calling, OwnershipInv, TypeOK
<1> QED BY <1>3, <1>4, <1>5

\* Every step preserves the invariant.
LEMMA JournalStep == OwnershipInv /\ JournalInv /\ [Next]_vars => JournalInv'
<1> SUFFICES ASSUME OwnershipInv, JournalInv, [Next]_vars PROVE JournalInv'
    OBVIOUS
<1>1. CASE UNCHANGED vars
    BY <1>1 DEF vars, world, files, thread, JournalInv, SeenOK, JournalOK,
                HandOK, Reconciling, Calling, Unjournaled, InHand, Holds,
                Recognises
<1>2. CASE Environment
    BY <1>2, WorldJournal, LifeJournal DEF Environment
<1>3. CASE Evaluation
    BY <1>3, ReconcileJournal, ThreadJournal DEF Evaluation
<1>4. CASE PlatformCall
    BY <1>4, RefuseJournal, QueryJournal, ReplaceJournal, ReadBackJournal,
       ReadBackFailsJournal, RollBackJournal DEF PlatformCall
<1>5. CASE \/ Start \/ TickInactive \/ Tick \/ EndCleanup \/ Persist
           \/ PersistUndoes \/ PersistFails \/ \E k \in Keys : CleanupNext(k)
    BY <1>5, LifeJournal, TickJournal, ThreadJournal, PersistJournal
<1> QED BY <1>1, <1>2, <1>3, <1>4, <1>5 DEF Next, Controller

\* Nothing is forgotten but what one of the four events at the head of
\* PlacementJournal has struck: every other assignment that WinSched made and
\* nobody replaced is one that the running service, or the next one after a
\* crash, recognises and clears, for any number of processes, failures,
\* crashes, configurations and outsiders' assignments.
THEOREM NothingIsForgotten == Spec => []NothingForgotten
<1>1. Init => JournalInv
    BY InitJournal
<1>2. OwnershipInv /\ JournalInv /\ [Next]_vars => JournalInv'
    BY JournalStep
<1>3. JournalInv => NothingForgotten
    BY DEF JournalInv, JournalOK, NothingForgotten, Known, Unjournaled, Holds
<1> QED BY <1>1, <1>2, <1>3, Ownership, PTL DEF Spec
=============================================================================
