----------------------- MODULE BackgroundJournalProofs -----------------------
(***************************************************************************)
(* The journal of background efficiency for every set of processes, of     *)
(* properties and of policies and for every bound. In this order, with     *)
(* first the facts several actions share and then a lemma per action:      *)
(*   - TypeOK and JournalLoadable, by the inductive invariant IInv;        *)
(*   - BlockedUntouched and BlockSurvivesVeto, by IInv and FocusOK;        *)
(*   - WriteAhead and RestoreSparesOutsiders, by these and AheadInv, while *)
(*     no outsider writes between a comparison of the service and its      *)
(*     write, or its write and its read-back, and the second query of a    *)
(*     restore succeeds (Perils = {}).                                     *)
(***************************************************************************)
EXTENDS BackgroundJournal, TLAPS

-----------------------------------------------------------------------------
\* What the record operations of EfficiencyRecord return: a record again, and
\* one load_background_state accepts if the argument is one.

\* Overlay stays within State.
LEMMA OverlayType ==
    ASSUME NEW f \in State, NEW g \in State, NEW S \in SUBSET Props
    PROVE  Overlay(f, S, g) \in State
BY DEF Overlay, State

\* desired_background_state returns a state.
LEMMA DesiredType ==
    ASSUME NEW original \in State, NEW policy
    PROVE  Desired(original, policy) \in State
<1>1. \A p \in Props : Target(p, original[p], policy) \in Value
    BY DEF Target, Lower, State, Value, EcoStates, MemoryPriorities
<1> QED BY <1>1 DEF Desired, State

\* No mask is the absent mask, no state the absent state.
LEMMA NoneApart == NoMask \notin Mask /\ None \notin State
BY RecordAssumption DEF NoMask, Mask

\* rebase_unowned_efficiency changes the two states only.
LEMMA RebaseKeeps ==
    ASSUME NEW r \in Record, NEW observed \in State
    PROVE  /\ Rebase(r, observed) \in Record
           /\ Rebase(r, observed).own = r.own
           /\ Rebase(r, observed).pending = r.pending
           /\ Rebase(r, observed).pendingOwn = r.pendingOwn
           /\ Rebase(r, observed).blocked = r.blocked
<1>1. Props \ r.own \in SUBSET Props
    OBVIOUS
<1>2. r.original \in State /\ r.applied \in State
    BY DEF Record
<1>3. /\ Overlay(r.original, Props \ r.own, observed) \in State
      /\ Overlay(r.applied, Props \ r.own, observed) \in State
    BY <1>1, <1>2, OverlayType
<1> QED BY <1>3 DEF Rebase, Record

\* Rebasing an acceptable record leaves it acceptable.
LEMMA RebaseLoadable ==
    ASSUME NEW r \in Record, NEW observed \in State, Loadable(r)
    PROVE  Loadable(Rebase(r, observed))
BY RebaseKeeps DEF Loadable

\* A record whose transaction is over is acceptable if nothing is both owned
\* and blocked.
LEMMA QuietLoadable ==
    ASSUME NEW r \in Record, r.own \cap r.blocked = {}
    PROVE  /\ Quiet(r) \in Record /\ Loadable(Quiet(r))
           /\ Quiet(r).pending = None
           /\ Quiet(r).own = r.own /\ Quiet(r).blocked = r.blocked
           /\ Quiet(r).original = r.original /\ Quiet(r).applied = r.applied
BY DEF Quiet, Record, Loadable

\* relinquish_external_overrides gives up and blocks `changed`.
LEMMA RelinquishLoadable ==
    ASSUME NEW r \in Record, NEW observed \in State,
           NEW changed \in SUBSET Props,
           r.own \cap r.blocked = {}, r.pending = None, r.pendingOwn = NoMask
    PROVE  /\ Relinquish(r, observed, changed) \in Record
           /\ Loadable(Relinquish(r, observed, changed))
           /\ Relinquish(r, observed, changed).pending = None
<1>1. r.original \in State /\ r.applied \in State
    BY DEF Record
<1>2. /\ Overlay(r.original, changed, observed) \in State
      /\ Overlay(r.applied, changed, observed) \in State
    BY <1>1, OverlayType
<1> DEFINE q == Relinquish(r, observed, changed)
<1>3. /\ q \in Record
      /\ q.own = r.own \ changed /\ q.blocked = r.blocked \cup changed
      /\ q.pending = None /\ q.pendingOwn = NoMask
    BY <1>2 DEF Relinquish, Record, Mask
<1> QED BY <1>3 DEF Loadable

\* A first record owns and blocks nothing.
LEMMA NewRecordType ==
    ASSUME NEW original \in State
    PROVE  /\ NewRecord(original) \in Record
           /\ NewRecord(original).own = {}
           /\ NewRecord(original).blocked = {}
BY DEF NewRecord, Record, Mask

\* The record of an intended transaction is acceptable: the properties it
\* wants are none an outsider has blocked.
LEMMA PendingLoadable ==
    ASSUME NEW r \in Record, NEW desired \in State,
           NEW desiredOwn \in SUBSET Props,
           r.own \cap r.blocked = {}, desiredOwn \cap r.blocked = {},
           r.own \cup desiredOwn # {}
    PROVE  LET q == Pending(r, desired, desiredOwn) IN
           /\ q \in Record /\ Loadable(q)
           /\ q.pending # None /\ q.blocked = r.blocked
<1> DEFINE q == Pending(r, desired, desiredOwn)
<1>1. /\ q \in Record
      /\ q.pending = desired /\ q.pendingOwn = desiredOwn
      /\ q.own = r.own \cup desiredOwn /\ q.blocked = r.blocked
    BY DEF Pending, Record, Mask
<1>2. q.pending # None /\ q.pendingOwn # NoMask
    BY <1>1, NoneApart DEF Mask
<1> QED BY <1>1, <1>2 DEF Loadable

\* The record of a verified transaction is acceptable.
LEMMA AppliedLoadable ==
    ASSUME NEW r \in Record, NEW observed \in State,
           Loadable(r), r.pending # None
    PROVE  Applied(r, observed) \in Record /\ Loadable(Applied(r, observed))
<1> DEFINE q == [r EXCEPT !.applied = observed, !.own = r.pendingOwn]
<1>1. q \in Record /\ q.own \cap q.blocked = {}
    BY DEF Record, Loadable
<1>2. Quiet(q) \in Record /\ Loadable(Quiet(q))
    BY <1>1, QuietLoadable
<1> QED BY <1>2, RebaseKeeps, RebaseLoadable DEF Applied

\* The record of a transaction a query settled is acceptable.
LEMMA ResolvedLoadable ==
    ASSUME NEW r \in Record, NEW current \in State,
           Loadable(r), r.pending # None
    PROVE  LET q == Resolved(r, current) IN
           q \in Record /\ Loadable(q) /\ q.pending = None
<1> DEFINE done == [r EXCEPT !.applied = current, !.own = r.pendingOwn]
           undone == [r EXCEPT
                        !.own = Between(r.original, r.applied) \ r.blocked]
           q == IF r.own = {} THEN r
                ELSE IF Matches(r.own, r.pending, current)
                THEN done ELSE undone
<1>1. done \in Record /\ done.own \cap done.blocked = {}
    BY DEF Record, Loadable
<1>2. undone \in Record /\ undone.own \cap undone.blocked = {}
    BY DEF Record, Mask, Between
<1>3. q \in Record /\ q.own \cap q.blocked = {}
    BY <1>1, <1>2 DEF Loadable
<1>4. Quiet(q) \in Record /\ Loadable(Quiet(q)) /\ Quiet(q).pending = None
    BY <1>3, QuietLoadable
<1>5. Resolved(r, current) = Rebase(Quiet(q), current)
    BY DEF Resolved
<1> QED BY <1>4, <1>5, RebaseKeeps, RebaseLoadable

\* The record after a restore is acceptable: what could not be restored was
\* owned, and was not found to be an outsider's.
LEMMA ReportedLoadable ==
    ASSUME NEW r \in Record, Loadable(r),
           NEW report,
           report.observed \in State,
           report.unrestored \subseteq r.own, report.external \subseteq Props,
           report.unrestored \cap report.external = {}
    PROVE  Reported(r, report) \in Record /\ Loadable(Reported(r, report))
<1>1. /\ r.original \in State /\ r.own \in SUBSET Props
      /\ r.blocked \in SUBSET Props
    BY DEF Record, Mask
<1>2. Overlay(report.observed, report.unrestored, r.original) \in State
    BY <1>1, OverlayType
<1> DEFINE q == Reported(r, report)
<1>3. /\ q \in Record /\ q.own = report.unrestored
      /\ q.pending = None /\ q.pendingOwn = NoMask
      /\ q.blocked = r.blocked \cup report.external
    BY <1>1, <1>2 DEF Reported, Record, Mask
<1> QED BY <1>3 DEF Loadable

-----------------------------------------------------------------------------
\* What several actions of the journal share

\* The idle values of the local variables have their types.
LEMMA IdleTypes == NoCall \in Call /\ NoJob \in Job
<1>1. {} \in Mask
    BY DEF Mask
<1> QED BY <1>1 DEF NoCall, NoJob, NoPolicy, Call, Job, Verdicts

\* A failing call uses up one of the admitted faults.
LEMMA FaultType ==
    ASSUME TypeOK, Fault
    PROVE  spent' \in [faults : 0 .. MaxFaults, crashes : 0 .. MaxCrashes,
                       writes : 0 .. MaxWrites]
BY JournalAssumption DEF TypeOK, Fault

\* The property treated next is one of those left.
LEMMA NextPropLeft ==
    ASSUME NEW left \in Mask, left # {}
    PROVE  NextProp(left) \in left /\ NextProp(left) \in Props
BY RecordAssumption DEF Mask, NextProp

\* A write keeps the values of the processes well formed.
LEMMA PutValues ==
    ASSUME TypeOK, ValuesOK, call.target \in born,
           NEW p \in Props, NEW v \in Value, Put(p, v)
    PROVE  /\ cur' \in [Keys -> State \cup {None}]
           /\ \A k \in born : cur'[k] \in State
<1>1. call.target \in Keys /\ cur[call.target] \in State
    BY DEF TypeOK, ValuesOK
<1>2. [cur[call.target] EXCEPT ![p] = v] \in State
    BY <1>1 DEF State
<1>3. cur' = [cur EXCEPT ![call.target] = [cur[call.target] EXCEPT ![p] = v]]
    BY <1>1 DEF Put, TypeOK
<1> QED BY <1>1, <1>2, <1>3 DEF TypeOK, ValuesOK

\* The value a query sees in one property.
LEMMA SeenOverlay ==
    ASSUME NEW s \in State, NEW p \in Props, NEW seen \in Value
    PROVE  Overlay(s, {p}, [q \in Props |-> seen]) \in State
BY DEF Overlay, State

\* A note on one property keeps the call well formed.
LEMMA NoteCall ==
    ASSUME TypeOK, CallOK, pc \in {"restore", "requery"},
           NEW p, p = NextProp(call.left), NEW seen \in Value,
           NEW unrestored \in BOOLEAN, NEW external \in BOOLEAN,
           Note(p, seen, unrestored, external)
    PROVE  /\ call' \in Call
           /\ call'.target = call.target /\ call'.then = call.then
           /\ call'.own = call.own
           /\ call'.original = call.original /\ call'.applied = call.applied
           /\ call'.observed \in State
           /\ call'.left = call.left \ {p}
           /\ call'.unrestored = IF unrestored THEN call.unrestored \cup {p}
                                 ELSE call.unrestored
           /\ call'.external = IF external THEN call.external \cup {p}
                               ELSE call.external
           /\ pc' = IF call.left = {p} THEN "report" ELSE "requery"
           /\ p \in call.left /\ p \in Props
<1>1. call \in Call /\ call.left \in Mask /\ call.left # {}
      /\ call.observed \in State
    BY DEF TypeOK, CallOK, Call, Restoring
<1>2. p \in call.left /\ p \in Props
    BY <1>1, NextPropLeft
<1>3. Overlay(call.observed, {p}, [q \in Props |-> seen]) \in State
    BY <1>1, <1>2, SeenOverlay
<1> DEFINE u == IF unrestored THEN call.unrestored \cup {p}
                ELSE call.unrestored
           x == IF external THEN call.external \cup {p} ELSE call.external
           s == Overlay(call.observed, {p}, [q \in Props |-> seen])
           l == call.left \ {p}
<1>4. u \in Mask /\ x \in Mask /\ l \in Mask
    BY <1>1, <1>2 DEF Call, Mask
<1>5. call' = [call EXCEPT !.left = l, !.observed = s, !.unrestored = u,
                           !.external = x]
    BY <1>1 DEF Note, Call
<1> HIDE DEF u, x, s, l
<1>6. /\ call' \in Call
      /\ call'.target = call.target /\ call'.then = call.then
      /\ call'.own = call.own
      /\ call'.original = call.original /\ call'.applied = call.applied
      /\ call'.observed = s /\ call'.left = l
      /\ call'.unrestored = u /\ call'.external = x
    BY <1>1, <1>3, <1>4, <1>5 DEF Call, s
<1> QED BY <1>2, <1>3, <1>6 DEF Note, Goto, u, x, s, l

\* A note on one property keeps the rest of the invariant about the thread.
LEMMA NoteStep ==
    ASSUME IInv, pc \in {"restore", "requery"},
           NEW p, p = NextProp(call.left), NEW seen \in Value,
           NEW unrestored \in BOOLEAN, NEW external \in BOOLEAN,
           ~ (unrestored /\ external),
           unrestored \/ external => p \in call.own,
           Note(p, seen, unrestored, external),
           UNCHANGED <<born, files, after, leaving, managed, todo, job>>
    PROVE  /\ call' \in Call /\ pc' \in Labels
           /\ VisitOK' /\ CallOK' /\ CleanupOK' /\ RecordsOK'
<1> DEFINE facts ==
       /\ call' \in Call
       /\ call'.target = call.target /\ call'.then = call.then
       /\ call'.own = call.own
       /\ call'.original = call.original /\ call'.applied = call.applied
       /\ call'.observed \in State
       /\ call'.left = call.left \ {p}
       /\ call'.unrestored = IF unrestored THEN call.unrestored \cup {p}
                             ELSE call.unrestored
       /\ call'.external = IF external THEN call.external \cup {p}
                           ELSE call.external
       /\ pc' = IF call.left = {p} THEN "report" ELSE "requery"
       /\ p \in call.left /\ p \in Props
<1>1. facts
    BY NoteCall DEF IInv
<1>2. pc' \in Labels
    BY <1>1 DEF Labels
<1>3. RecordsOK'
    BY DEF IInv, RecordsOK, files
<1>4. VisitOK'
    BY <1>1 DEF IInv, VisitOK, Phase, Visiting, Transacting, Restoring
<1>5. CallOK'
    BY <1>1 DEF IInv, CallOK, Restoring
<1>6. CleanupOK'
    BY <1>1 DEF IInv, CleanupOK, Restoring, Managed
<1> QED BY <1>1, <1>2, <1>3, <1>4, <1>5, <1>6

\* The query that opens a restore starts a well-formed call.
LEMMA ObservingStep ==
    ASSUME IInv, pc \in {"open", "rollback"}, NEW holder \in born,
           NEW then \in {"rollback", call.then},
           pc = "open" => then = call.then,
           pc = "rollback" => then = "rollback",
           Observing(holder, then),
           UNCHANGED <<born, files, after, leaving, managed, todo, job>>
    PROVE  /\ call' \in Call /\ pc' \in Labels
           /\ VisitOK' /\ CallOK' /\ CleanupOK' /\ RecordsOK'
<1>1. call \in Call /\ cur[holder] \in State /\ holder \in Keys
    BY DEF IInv, TypeOK, ValuesOK
<1>2. Props \in Mask
    BY DEF Mask
<1>3. /\ call' \in Call
      /\ call'.target = holder /\ call'.then = then
      /\ call'.own = call.own
      /\ call'.original = call.original /\ call'.applied = call.applied
      /\ call'.observed \in State /\ call'.left = Props
      /\ call'.unrestored = call.unrestored
      /\ call'.external = call.external
      /\ pc' \in {"restore", "requery"}
    BY <1>1, <1>2 DEF Observing, Call, Goto
<1>4. pc' \in Labels
    BY <1>3 DEF Labels
<1>5. RecordsOK'
    BY DEF IInv, RecordsOK, files
<1>6. VisitOK'
    BY <1>3 DEF IInv, VisitOK, Phase, Visiting, Transacting, Restoring
<1>7. CallOK'
    BY <1>3, RecordAssumption DEF IInv, CallOK, Restoring
<1>8. CleanupOK'
    BY <1>3 DEF IInv, CleanupOK, Restoring, Managed
<1> QED BY <1>3, <1>4, <1>5, <1>6, <1>7, <1>8

\* The thread has a request for a restore of what a record owns.
LEMMA AskRestoreCall ==
    ASSUME NEW r \in Record, NEW pending \in State \cup {None},
           NEW then \in {"recover", "veto", "cleanup"},
           AskRestore(r, pending, then)
    PROVE  /\ call' \in Call /\ pc' = "open" /\ pc' \in Labels
           /\ call'.then = then /\ call'.own = r.own
           /\ call'.original \in State /\ call'.applied \in State
           /\ call'.unrestored = {} /\ call'.external = {}
<1>1. /\ r.original \in State /\ r.applied \in State /\ r.own \in Mask
      /\ {} \in Mask
    BY DEF Record, Mask
<1>2. call' = [NoCall EXCEPT !.then = then, !.original = r.original,
                             !.applied = r.applied, !.pending = pending,
                             !.own = r.own]
    BY DEF AskRestore
<1>3. /\ call' \in Call
      /\ call'.then = then /\ call'.own = r.own
      /\ call'.original \in State /\ call'.applied \in State
      /\ call'.unrestored = {} /\ call'.external = {}
    BY <1>1, <1>2 DEF NoCall, Call
<1> QED BY <1>3 DEF AskRestore, Goto, Labels

\* Replacing the record of the visited process by an acceptable one, or by
\* none, keeps all records acceptable.
LEMMA StoreStep ==
    ASSUME TypeOK, RecordsOK, NEW k \in Keys, NEW r \in Record \cup {None},
           r # None => Loadable(r), Store(k, r), disk' = disk
    PROVE  /\ managed' \in [Keys -> Record \cup {None}]
           /\ RecordsOK'
           /\ managed'[k] = r
           /\ \A j \in Keys : j # k => managed'[j] = managed[j]
BY DEF TypeOK, RecordsOK, Store

\* Between two visits nothing is asked of the local variables.
LEMMA CalmStep ==
    ASSUME IInv,
           \/ pc' = "scan" /\ after' = after
           \/ pc' = "persist" /\ after' = "scan"
    PROVE  /\ pc' \in Labels /\ after' \in Labels
           /\ VisitOK' /\ CallOK' /\ CleanupOK'
BY DEF IInv, TypeOK, VisitOK, CallOK, CleanupOK, Phase, Visiting, Transacting,
       Restoring, Labels

\* The process behind a handle has been born and has values.
LEMMA OpensBorn ==
    ASSUME TypeOK, ValuesOK, NEW k, NEW holder \in Keys, Opens(k, holder)
    PROVE  holder \in born /\ cur[holder] \in State
BY DEF TypeOK, ValuesOK, Opens

\* The record of a visited process.
LEMMA VisitedRecord ==
    ASSUME IInv, Phase \in Visiting
    PROVE  /\ job.key \in Keys /\ managed[job.key] # None
           /\ managed[job.key] \in Record /\ Loadable(managed[job.key])
BY DEF IInv, TypeOK, RecordsOK, VisitOK

\* The mask a policy asks for has no blocked property.
LEMMA DesiredOwnType ==
    ASSUME NEW original, NEW policy, NEW blocked
    PROVE  /\ DesiredOwn(original, policy, blocked) \in SUBSET Props
           /\ DesiredOwn(original, policy, blocked) \cap blocked = {}
BY DEF DesiredOwn, Between

\* An intended transaction enters the records before it is performed.
LEMMA IntendStep ==
    ASSUME IInv, pc \in {"decide", "adopt"}, job.key \in Keys, budget # 0,
           NEW r \in Record, r.own \cap r.blocked = {},
           NEW desired \in State, NEW desiredOwn \in SUBSET Props,
           desiredOwn \cap r.blocked = {}, r.own \cup desiredOwn # {},
           NEW fresh \in BOOLEAN, Intend(r, desired, desiredOwn, fresh),
           UNCHANGED <<world, files, leaving, streak, todo, call, spent>>
    PROVE  IInv'
<1> DEFINE q == Pending(r, desired, desiredOwn)
<1>1. /\ q \in Record /\ Loadable(q)
      /\ q.pending # None /\ q.blocked = r.blocked
    BY PendingLoadable
<1>2. /\ managed' \in [Keys -> Record \cup {None}] /\ RecordsOK'
      /\ managed'[job.key] = q
    BY <1>1, StoreStep DEF IInv, Intend, files
<1>3. /\ job' \in Job /\ job'.key = job.key /\ job'.prior = r.own
    BY DEF Intend, IInv, TypeOK, Job, Record
<1>4. pc' = "persist" /\ after' = "apply" /\ budget' \in 0 .. MaxMutations
    BY JournalAssumption DEF Intend, PersistThen, IInv, TypeOK
<1>5. TypeOK' /\ ValuesOK'
    BY <1>2, <1>3, <1>4 DEF IInv, TypeOK, ValuesOK, Labels, world, files
<1>6. VisitOK'
    BY <1>1, <1>2, <1>3, <1>4, JournalAssumption
       DEF VisitOK, Phase, Visiting, Transacting, Restoring
<1>7. CallOK' /\ CleanupOK'
    BY <1>4 DEF CallOK, CleanupOK, Restoring
<1> QED BY <1>2, <1>5, <1>6, <1>7 DEF IInv

\* The types that a step inside a restore leaves alone.
LEMMA RestoreTypes ==
    ASSUME IInv, call' \in Call, pc' \in Labels,
           cur' \in [Keys -> State \cup {None}],
           \A k \in born : cur'[k] \in State,
           base' \in [Keys -> State \cup {None}],
           \A k \in born : base'[k] \in State,
           UNCHANGED <<born, alive, files, after, leaving, managed, streak,
                       todo, budget, job>>,
           \/ UNCHANGED spent
           \/ Fault
           \/ /\ spent.writes < MaxWrites
              /\ spent' = [spent EXCEPT !.writes = @ + 1]
    PROVE  TypeOK' /\ ValuesOK'
<1>1. spent' \in [faults : 0 .. MaxFaults, crashes : 0 .. MaxCrashes,
                  writes : 0 .. MaxWrites]
    <2>1. CASE UNCHANGED spent
        BY <2>1 DEF IInv, TypeOK
    <2>2. CASE Fault
        BY <2>2, FaultType DEF IInv
    <2>3. CASE spent' = [spent EXCEPT !.writes = @ + 1]
               /\ spent.writes < MaxWrites
        BY <2>3, JournalAssumption DEF IInv, TypeOK
    <2> QED BY <2>1, <2>2, <2>3
<1> QED BY <1>1 DEF IInv, TypeOK, ValuesOK, files

\* The values of the processes, unchanged, are well formed.
LEMMA ValuesKept ==
    ASSUME IInv
    PROVE  /\ cur \in [Keys -> State \cup {None}]
           /\ \A k \in born : cur[k] \in State
           /\ base \in [Keys -> State \cup {None}]
           /\ \A k \in born : base[k] \in State
BY DEF IInv, TypeOK, ValuesOK

\* What a restore treats next, and the values it works with.
LEMMA RestoreFocus ==
    ASSUME IInv, pc \in {"restore", "requery"}
    PROVE  LET p == NextProp(call.left) IN
           /\ p \in Props /\ call \in Call
           /\ call.observed[p] \in Value /\ call.original[p] \in Value
           /\ call.target \in born /\ cur[call.target][p] \in Value
<1>1. /\ call.left \in Mask /\ call.left # {} /\ call \in Call
      /\ call.observed \in State /\ call.original \in State
      /\ call.target \in born /\ cur[call.target] \in State
    BY DEF IInv, TypeOK, CallOK, ValuesOK, Call, Restoring
<1>2. NextProp(call.left) \in Props
    BY <1>1, NextPropLeft
<1> QED BY <1>1, <1>2 DEF State

-----------------------------------------------------------------------------
\* The exit of a process preserves the invariant.
LEMMA ExitStep ==
    ASSUME IInv, NEW k \in Keys, Exit(k)
    PROVE  IInv'
<1>1. TypeOK'
    BY JournalAssumption DEF IInv, TypeOK, Labels, Job, Call, Exit, files,
           thread
<1>2. ValuesOK'
    BY DEF IInv, TypeOK, ValuesOK, Exit, files, thread
<1>3. RecordsOK'
    BY DEF IInv, TypeOK, RecordsOK, Exit, files, thread
<1>4. VisitOK'
    BY DEF IInv, TypeOK, VisitOK, Phase, Transacting, Restoring, Visiting,
           Exit, files, thread
<1>5. CallOK'
    BY DEF IInv, TypeOK, CallOK, VisitOK, Phase, Visiting, Restoring,
           Transacting, Exit, files, thread
<1>6. CleanupOK'
    BY DEF IInv, CleanupOK, Exit, thread, Restoring, Managed
<1> QED BY <1>1, <1>2, <1>3, <1>4, <1>5, <1>6 DEF IInv

\* The stop command, which starts the final cleanup, preserves the
\* invariant.
LEMMA StopStep ==
    ASSUME IInv, Stop
    PROVE  IInv'
<1>1. TypeOK'
    BY JournalAssumption DEF IInv, TypeOK, Labels, Job, Call, Stop,
           EnterCleanup, world, files, Managed, Rest
<1>2. ValuesOK'
    BY DEF IInv, TypeOK, ValuesOK, Stop, EnterCleanup, world, files, Managed,
           Rest
<1>3. RecordsOK'
    BY DEF IInv, TypeOK, RecordsOK, Stop, EnterCleanup, world, files, Managed,
           Rest
<1>4. VisitOK'
    BY DEF IInv, TypeOK, VisitOK, Phase, Transacting, Restoring, Visiting,
           Stop, EnterCleanup, world, files, Managed, Rest
<1>5. CallOK'
    BY DEF IInv, TypeOK, CallOK, VisitOK, Phase, Visiting, Restoring,
           Transacting, Stop, EnterCleanup, world, files, Managed, Rest
<1>6. CleanupOK'
    BY DEF IInv, TypeOK, CleanupOK, Restoring, Managed, VisitOK, Phase,
           Visiting, Transacting, Stop, EnterCleanup, world, files, Rest
<1> QED BY <1>1, <1>2, <1>3, <1>4, <1>5, <1>6 DEF IInv

\* A crash, which loses all the thread knew, preserves the invariant.
LEMMA CrashStep ==
    ASSUME IInv, Crash
    PROVE  IInv'
<1>c. /\ job' \in Job /\ call' \in Call /\ todo' = {} /\ pc' = "stopped"
      /\ after' = "idle" /\ leaving' = FALSE /\ budget' = 0
    BY IdleTypes DEF Crash, Forgotten, Goto
<1>1. TypeOK'
    <2>1. /\ streak' \in [Keys -> 0 .. ClearSamples]
          /\ managed' \in [Keys -> Record \cup {None}]
        BY DEF Crash, Forgotten, ClearSamples
    <2>2. spent' \in [faults : 0 .. MaxFaults, crashes : 0 .. MaxCrashes,
                      writes : 0 .. MaxWrites]
      <3>1. /\ spent.crashes \in 0 .. MaxCrashes /\ spent.crashes < MaxCrashes
            /\ spent' = [spent EXCEPT !.crashes = @ + 1]
          BY DEF Crash, IInv, TypeOK
      <3>2. spent.crashes + 1 \in 0 .. MaxCrashes
          BY <3>1, JournalAssumption
      <3> QED BY <3>1, <3>2 DEF IInv, TypeOK
    <2>3. after' \in Labels /\ leaving' \in BOOLEAN
        BY <1>c DEF Labels
    <2>4. budget' \in 0 .. MaxMutations
        BY <1>c, JournalAssumption
    <2> QED BY <1>c, <2>1, <2>2, <2>3, <2>4
            DEF IInv, TypeOK, Crash, Labels, world, files
<1>2. ValuesOK'
    BY DEF IInv, TypeOK, ValuesOK, Crash, Goto, Forgotten, world, files,
           NoJob, NoCall, NoPolicy
<1>3. RecordsOK'
    BY DEF IInv, TypeOK, RecordsOK, Crash, Goto, Forgotten, world, files,
           NoJob, NoCall, NoPolicy
<1>4. VisitOK'
    BY DEF IInv, TypeOK, VisitOK, Phase, Transacting, Restoring, Visiting,
           Crash, Goto, Forgotten, world, files, NoJob, NoCall, NoPolicy
<1>5. CallOK'
    BY DEF IInv, TypeOK, CallOK, VisitOK, Phase, Visiting, Restoring,
           Transacting, Crash, Goto, Forgotten, world, files, NoJob, NoCall,
           NoPolicy
<1>6. CleanupOK'
    BY DEF IInv, TypeOK, CleanupOK, Restoring, Managed, VisitOK, Phase,
           Visiting, Transacting, Crash, Goto, Forgotten, world, files, NoJob,
           NoCall, NoPolicy
<1> QED BY <1>1, <1>2, <1>3, <1>4, <1>5, <1>6 DEF IInv

\* The command that enables scheduling preserves the invariant.
LEMMA EnableStep ==
    ASSUME IInv, Enable
    PROVE  IInv'
<1>1. TypeOK'
    <2>1. CASE CommandFails(TRUE)
        BY <2>1, FaultType DEF CommandFails, IInv, TypeOK, Enable,
               EnterCleanup, Rest, Labels, Managed, world
    <2>2. CASE enabled' = TRUE /\ UNCHANGED <<pc, leaving, todo, spent>>
        BY <2>2 DEF IInv, TypeOK, Enable, world
    <2> QED BY <2>1, <2>2 DEF Enable
<1>2. ValuesOK'
    BY DEF IInv, TypeOK, ValuesOK, Enable, CommandFails, Fault, EnterCleanup,
           world,
           Managed, Rest
<1>3. RecordsOK'
    BY DEF IInv, TypeOK, RecordsOK, Enable, CommandFails, Fault, EnterCleanup,
           world,
           Managed, Rest
<1>4. VisitOK'
    BY DEF IInv, TypeOK, VisitOK, Phase, Transacting, Restoring, Visiting,
           Enable, CommandFails, Fault, EnterCleanup,
           world, Managed, Rest
<1>5. CallOK'
    BY DEF IInv, TypeOK, CallOK, VisitOK, Phase, Visiting, Restoring,
           Transacting, Enable, CommandFails, Fault, EnterCleanup,
           world, Managed, Rest
<1>6. CleanupOK'
    BY DEF IInv, CleanupOK, Enable, CommandFails, EnterCleanup, Rest,
           Restoring, Managed
<1> QED BY <1>1, <1>2, <1>3, <1>4, <1>5, <1>6 DEF IInv

\* The command that disables scheduling, with its cleanup, preserves the
\* invariant.
LEMMA DisableStep ==
    ASSUME IInv, Disable
    PROVE  IInv'
<1>1. TypeOK'
    <2>1. streak' \in [Keys -> 0 .. ClearSamples]
        BY DEF Disable, ClearSamples
    <2>2. /\ enabled' \in BOOLEAN /\ leaving' \in BOOLEAN
          /\ todo' \subseteq Keys /\ pc' \in Labels
        BY DEF Disable, CommandFails, EnterCleanup, Rest, Labels, Managed,
               IInv, TypeOK
    <2>3. spent' \in [faults : 0 .. MaxFaults, crashes : 0 .. MaxCrashes,
                      writes : 0 .. MaxWrites]
        BY FaultType DEF Disable, CommandFails, IInv, TypeOK
    <2> QED BY <2>1, <2>2, <2>3 DEF IInv, TypeOK, Disable, world
<1>2. ValuesOK'
    BY DEF IInv, TypeOK, ValuesOK, Disable, CommandFails, EnterCleanup, Fault,
           world,
           Managed, Rest
<1>3. RecordsOK'
    BY DEF IInv, TypeOK, RecordsOK, Disable, CommandFails, EnterCleanup, Fault,
           world,
           Managed, Rest
<1>4. VisitOK'
    BY DEF IInv, TypeOK, VisitOK, Phase, Transacting, Restoring, Visiting,
           Disable, CommandFails, EnterCleanup, Fault,
           world, Managed, Rest
<1>5. CallOK'
    BY DEF IInv, TypeOK, CallOK, VisitOK, Phase, Visiting, Restoring,
           Transacting, Disable, CommandFails, EnterCleanup, Fault,
           world, Managed, Rest
<1>6. CleanupOK'
    BY DEF IInv, TypeOK, CleanupOK, Restoring, Managed, VisitOK, Phase,
           Visiting, Transacting, Disable, CommandFails, EnterCleanup,
           Fault, world, Rest
<1> QED BY <1>1, <1>2, <1>3, <1>4, <1>5, <1>6 DEF IInv

\* The cleanup of an inactive tick preserves the invariant.
LEMMA TickInactiveStep ==
    ASSUME IInv, TickInactive
    PROVE  IInv'
<1>1. TypeOK'
    <2>1. streak' \in [Keys -> 0 .. ClearSamples]
        BY DEF TickInactive, ClearSamples
    <2>2. /\ leaving' \in BOOLEAN /\ todo' \subseteq Keys /\ pc' \in Labels
        BY DEF TickInactive, EnterCleanup, Rest, Labels, Managed
    <2> QED BY <2>1, <2>2 DEF IInv, TypeOK, TickInactive, world, files
<1>2. ValuesOK'
    BY DEF IInv, TypeOK, ValuesOK, TickInactive, EnterCleanup, world, files,
           Managed, Rest
<1>3. RecordsOK'
    BY DEF IInv, TypeOK, RecordsOK, TickInactive, EnterCleanup, world, files,
           Managed, Rest
<1>4. VisitOK'
    BY DEF IInv, TypeOK, VisitOK, Phase, Transacting, Restoring, Visiting,
           TickInactive, EnterCleanup, world, files, Managed, Rest
<1>5. CallOK'
    BY DEF IInv, TypeOK, CallOK, VisitOK, Phase, Visiting, Restoring,
           Transacting, TickInactive, EnterCleanup, world, files, Managed,
           Rest
<1>6. CleanupOK'
    BY DEF IInv, TypeOK, CleanupOK, Restoring, Managed, VisitOK, Phase,
           Visiting, Transacting, TickInactive, EnterCleanup, world, files,
           Rest
<1> QED BY <1>1, <1>2, <1>3, <1>4, <1>5, <1>6 DEF IInv

\* The end of reconcile_background_efficiency preserves the invariant.
LEMMA EndTickStep ==
    ASSUME IInv, EndTick
    PROVE  IInv'
<1>1. TypeOK'
    BY IdleTypes DEF IInv, TypeOK, EndTick, Goto, Labels, world, files
<1>2. ValuesOK'
    BY DEF IInv, TypeOK, ValuesOK, EndTick, Goto, NoJob, world, files,
           NoPolicy
<1>3. RecordsOK'
    BY DEF IInv, TypeOK, RecordsOK, EndTick, Goto, NoJob, world, files,
           NoPolicy
<1>4. VisitOK'
    BY DEF IInv, TypeOK, VisitOK, Phase, Transacting, Restoring, Visiting,
           EndTick, Goto, NoJob, world, files, NoPolicy
<1>5. CallOK'
    BY DEF IInv, TypeOK, CallOK, VisitOK, Phase, Visiting, Restoring,
           Transacting, EndTick, Goto, NoJob, world, files, NoPolicy
<1>6. CleanupOK'
    BY DEF IInv, TypeOK, CleanupOK, Restoring, Managed, VisitOK, Phase,
           Visiting, Transacting, EndTick, Goto, NoJob, world, files, NoPolicy
<1> QED BY <1>1, <1>2, <1>3, <1>4, <1>5, <1>6 DEF IInv

\* The load of the journal at the start of run_controller preserves the
\* invariant.
LEMMA StartStep ==
    ASSUME IInv, Start
    PROVE  IInv'
<1>1. TypeOK'
    <2>1. streak' \in [Keys -> 0 .. ClearSamples]
        BY DEF Start, ClearSamples
    <2>2. /\ leaving' \in BOOLEAN /\ todo' \subseteq Keys /\ pc' \in Labels
        BY DEF Start, EnterCleanup, Rest, Labels, Managed, Goto, IInv, TypeOK
    <2>3. spent' \in [faults : 0 .. MaxFaults, crashes : 0 .. MaxCrashes,
                      writes : 0 .. MaxWrites]
        BY FaultType DEF Start, IInv, TypeOK
    <2> QED BY <2>1, <2>2, <2>3 DEF IInv, TypeOK, Start, world, files
<1>2. ValuesOK'
    BY DEF IInv, TypeOK, ValuesOK, Start, Managed, Goto, EnterCleanup, Fault,
           world, files, Rest
<1>3. RecordsOK'
    BY DEF IInv, TypeOK, RecordsOK, Start, Managed, Goto, EnterCleanup, Fault,
           world, files, Rest
<1>4. VisitOK'
    BY DEF IInv, TypeOK, VisitOK, Phase, Transacting, Restoring, Visiting,
           Start, Managed, Goto, EnterCleanup, Fault, world, files, Rest
<1>5. CallOK'
    BY DEF IInv, TypeOK, CallOK, VisitOK, Phase, Visiting, Restoring,
           Transacting, Start, Managed, Goto, EnterCleanup, Fault, world,
           files, Rest
<1>6. CleanupOK'
    BY DEF IInv, TypeOK, CleanupOK, Restoring, Managed, VisitOK, Phase,
           Visiting, Transacting, Start, Goto, EnterCleanup, Fault, world,
           files, Rest
<1> QED BY <1>1, <1>2, <1>3, <1>4, <1>5, <1>6 DEF IInv

\* Dropping the records of processes that are gone preserves the
\* invariant.
LEMMA TickStep ==
    ASSUME IInv, Tick
    PROVE  IInv'
<1>t. PICK opaque \in SUBSET alive :
          LET live == alive \ opaque
              dead == {k \in Managed(managed) \ live :
                          \A j \in opaque : PidOf[j] # PidOf[k]}
          IN  /\ managed' = [k \in Keys |-> IF k \in dead THEN None
                                            ELSE managed[k]]
              /\ streak' = [k \in Keys |-> IF k \in live THEN streak[k] ELSE 0]
              /\ todo' = live
              /\ IF dead = {} THEN Goto("scan") /\ UNCHANGED after
                 ELSE PersistThen("scan")
    BY DEF Tick
<1>u. \A k \in Keys : managed'[k] \in {managed[k], None}
    BY <1>t
<1>v. /\ pc' \in {"scan", "persist"} /\ after' \in {after, "scan"}
      /\ pc' = "persist" => after' = "scan"
    BY <1>t DEF Goto, PersistThen
<1>1. TypeOK'
    <2>1. managed' \in [Keys -> Record \cup {None}]
        BY <1>t, <1>u DEF IInv, TypeOK
    <2>2. streak' \in [Keys -> 0 .. ClearSamples]
        BY <1>t DEF IInv, TypeOK, ClearSamples
    <2>3. spent' \in [faults : 0 .. MaxFaults, crashes : 0 .. MaxCrashes,
                      writes : 0 .. MaxWrites]
        BY FaultType DEF Tick, IInv, TypeOK
    <2>4. todo' \subseteq Keys /\ pc' \in Labels /\ after' \in Labels
        BY <1>t, <1>v DEF IInv, TypeOK, Labels
    <2>5. budget' \in 0 .. MaxMutations
        BY JournalAssumption DEF Tick
    <2> QED BY <2>1, <2>2, <2>3, <2>4, <2>5
            DEF IInv, TypeOK, Tick, world, files
<1>2. ValuesOK'
    BY DEF IInv, TypeOK, ValuesOK, Tick, Fault, Managed, Goto, PersistThen,
           world, files
<1>3. RecordsOK'
    BY <1>u DEF IInv, RecordsOK, Tick, files
<1>4. VisitOK'
    BY <1>v DEF IInv, VisitOK, Phase, Visiting, Transacting, Restoring
<1>5. CallOK'
    BY <1>v DEF CallOK, Restoring
<1>6. CleanupOK'
    BY <1>v DEF CleanupOK, Restoring
<1> QED BY <1>1, <1>2, <1>3, <1>4, <1>5, <1>6 DEF IInv

\* Taking up the next observed process preserves the invariant.
LEMMA VisitStep ==
    ASSUME IInv, NEW k \in Keys, NEW verdict \in Verdicts,
           NEW policy \in Policies,
           Visit(k, verdict, policy)
    PROVE  IInv'
<1>v. job' = [NoJob EXCEPT !.key = k, !.verdict = verdict, !.policy = policy]
    BY DEF Visit
<1>w. /\ job' \in Job /\ job'.key = k
    BY <1>v, IdleTypes DEF Job, NoJob
<1>1. TypeOK'
    <2>1. streak' \in [Keys -> 0 .. ClearSamples]
        BY DEF IInv, TypeOK, Visit, ClearSamples
    <2>2. pc' \in Labels
        BY DEF Visit, Goto, Labels
    <2> QED BY <1>w, <2>1, <2>2 DEF IInv, TypeOK, Visit, world, files
<1>2. ValuesOK'
    BY DEF IInv, TypeOK, ValuesOK, Visit, NoJob, Goto, world, files, NoPolicy
<1>3. RecordsOK'
    BY DEF IInv, TypeOK, RecordsOK, Visit, NoJob, Goto, world, files, NoPolicy
<1>4. VisitOK'
    <2>1. /\ pc = "scan" /\ after' = after /\ managed' = managed
          /\ pc' = IF managed[k] = None THEN "adopt"
                   ELSE IF managed[k].pending # None THEN "resolve"
                   ELSE "examine"
        BY DEF Visit, Goto
    <2> QED BY <1>w, <2>1 DEF IInv, VisitOK, Phase, Visiting, Transacting,
                Restoring
<1>5. CallOK'
    BY DEF IInv, TypeOK, CallOK, VisitOK, Phase, Visiting, Restoring,
           Transacting, Visit, NoJob, Goto, world, files, NoPolicy
<1>6. CleanupOK'
    BY DEF IInv, TypeOK, CleanupOK, Restoring, Managed, VisitOK, Phase,
           Visiting, Transacting, Visit, NoJob, Goto, world, files, NoPolicy
<1> QED BY <1>1, <1>2, <1>3, <1>4, <1>5, <1>6 DEF IInv

\* A failing first query of a visit preserves the invariant.
LEMMA QueryFailsStep ==
    ASSUME IInv, QueryFails
    PROVE  IInv'
<1>1. TypeOK'
    BY JournalAssumption DEF IInv, TypeOK, Labels, Job, Call, QueryFails,
           Gone, Store, PersistThen, Fault, Goto, world, files, Opens
<1>2. ValuesOK'
    BY DEF IInv, TypeOK, ValuesOK, QueryFails, Gone, Store, PersistThen,
           Fault, Goto, world, files, Opens
<1>3. RecordsOK'
    BY DEF IInv, TypeOK, RecordsOK, QueryFails, Gone, Store, PersistThen,
           Fault, Goto, world, files, Opens
<1>4. VisitOK'
    BY DEF IInv, TypeOK, VisitOK, Phase, Transacting, Restoring, Visiting,
           QueryFails, Gone, Store, PersistThen, Fault, Goto, world, files,
           Opens
<1>5. CallOK'
    BY DEF IInv, TypeOK, CallOK, VisitOK, Phase, Visiting, Restoring,
           Transacting, QueryFails, Gone, Store, PersistThen, Fault, Goto,
           world, files, Opens
<1>6. CleanupOK'
    BY DEF IInv, CleanupOK, QueryFails, Goto, PersistThen, Restoring, Managed
<1> QED BY <1>1, <1>2, <1>3, <1>4, <1>5, <1>6 DEF IInv

\* A failing query after a resolved transaction preserves the invariant.
LEMMA RequeryFailsStep ==
    ASSUME IInv, RequeryFails
    PROVE  IInv'
<1>1. TypeOK'
    <2>1. spent' \in [faults : 0 .. MaxFaults, crashes : 0 .. MaxCrashes,
                      writes : 0 .. MaxWrites]
        BY FaultType DEF RequeryFails, IInv, TypeOK
    <2> QED BY <2>1 DEF IInv, TypeOK, RequeryFails, Goto, Labels, world, files
<1>2. ValuesOK'
    BY DEF IInv, TypeOK, ValuesOK, RequeryFails, Gone, Fault, Goto, world,
           files, Opens
<1>3. RecordsOK'
    BY DEF IInv, TypeOK, RecordsOK, RequeryFails, Gone, Fault, Goto, world,
           files, Opens
<1>4. VisitOK'
    BY DEF IInv, VisitOK, RequeryFails, Goto, Phase, Visiting, Transacting,
           Restoring
<1>5. CallOK'
    BY DEF IInv, TypeOK, CallOK, VisitOK, Phase, Visiting, Restoring,
           Transacting, RequeryFails, Gone, Fault, Goto, world, files, Opens
<1>6. CleanupOK'
    BY DEF IInv, TypeOK, CleanupOK, Restoring, Managed, VisitOK, Phase,
           Visiting, Transacting, RequeryFails, Gone, Fault, Goto, world,
           files, Opens
<1> QED BY <1>1, <1>2, <1>3, <1>4, <1>5, <1>6 DEF IInv

\* Leaving a process without a record alone preserves the invariant.
LEMMA DeclineStep ==
    ASSUME IInv, Decline
    PROVE  IInv'
<1>1. TypeOK'
    BY JournalAssumption DEF IInv, TypeOK, Labels, Job, Call, Decline, Gone,
           Fault, Goto, world, files, Opens
<1>2. ValuesOK'
    BY DEF IInv, TypeOK, ValuesOK, Decline, Gone, Fault, Goto, world, files,
           Opens
<1>3. RecordsOK'
    BY DEF IInv, TypeOK, RecordsOK, Decline, Gone, Fault, Goto, world, files,
           Opens
<1>4. VisitOK'
    BY DEF IInv, TypeOK, VisitOK, Phase, Transacting, Restoring, Visiting,
           Decline, Gone, Fault, Goto, world, files, Opens
<1>5. CallOK'
    BY DEF IInv, TypeOK, CallOK, VisitOK, Phase, Visiting, Restoring,
           Transacting, Decline, Gone, Fault, Goto, world, files, Opens
<1>6. CleanupOK'
    BY DEF IInv, TypeOK, CleanupOK, Restoring, Managed, VisitOK, Phase,
           Visiting, Transacting, Decline, Gone, Fault, Goto, world, files,
           Opens
<1> QED BY <1>1, <1>2, <1>3, <1>4, <1>5, <1>6 DEF IInv

\* An application refused before any write preserves the invariant.
LEMMA ApplyRefusedStep ==
    ASSUME IInv, ApplyRefused
    PROVE  IInv'
<1>1. TypeOK'
    BY JournalAssumption DEF IInv, TypeOK, Labels, Job, Call, ApplyRefused,
           Gone, Fault, Goto, world, files, Opens
<1>2. ValuesOK'
    BY DEF IInv, TypeOK, ValuesOK, ApplyRefused, Gone, Fault, Goto, world,
           files, Opens
<1>3. RecordsOK'
    BY DEF IInv, TypeOK, RecordsOK, ApplyRefused, Gone, Fault, Goto, world,
           files, Opens
<1>4. VisitOK'
    BY DEF IInv, TypeOK, VisitOK, Phase, Transacting, Restoring, Visiting,
           ApplyRefused, Gone, Fault, Goto, world, files, Opens
<1>5. CallOK'
    BY DEF IInv, TypeOK, CallOK, VisitOK, Phase, Visiting, Restoring,
           Transacting, ApplyRefused, Gone, Fault, Goto, world, files, Opens
<1>6. CleanupOK'
    BY DEF IInv, TypeOK, CleanupOK, Restoring, Managed, VisitOK, Phase,
           Visiting, Transacting, ApplyRefused, Gone, Fault, Goto, world,
           files, Opens
<1> QED BY <1>1, <1>2, <1>3, <1>4, <1>5, <1>6 DEF IInv

\* A failing query after a lost ownership preserves the invariant.
LEMMA LostQueryFailsStep ==
    ASSUME IInv, LostQueryFails
    PROVE  IInv'
<1>1. TypeOK'
    BY JournalAssumption DEF IInv, TypeOK, Labels, Job, Call, LostQueryFails,
           Gone, Fault, Goto, world, files, Opens
<1>2. ValuesOK'
    BY DEF IInv, TypeOK, ValuesOK, LostQueryFails, Gone, Fault, Goto, world,
           files, Opens
<1>3. RecordsOK'
    BY DEF IInv, TypeOK, RecordsOK, LostQueryFails, Gone, Fault, Goto, world,
           files, Opens
<1>4. VisitOK'
    BY DEF IInv, TypeOK, VisitOK, Phase, Transacting, Restoring, Visiting,
           LostQueryFails, Gone, Fault, Goto, world, files, Opens
<1>5. CallOK'
    BY DEF IInv, TypeOK, CallOK, VisitOK, Phase, Visiting, Restoring,
           Transacting, LostQueryFails, Gone, Fault, Goto, world, files, Opens
<1>6. CleanupOK'
    BY DEF IInv, TypeOK, CleanupOK, Restoring, Managed, VisitOK, Phase,
           Visiting, Transacting, LostQueryFails, Gone, Fault, Goto, world,
           files, Opens
<1> QED BY <1>1, <1>2, <1>3, <1>4, <1>5, <1>6 DEF IInv

\* The end of cleanup_background preserves the invariant.
LEMMA EndCleanupStep ==
    ASSUME IInv, EndCleanup
    PROVE  IInv'
<1>1. TypeOK'
    BY IdleTypes DEF IInv, TypeOK, EndCleanup, PersistThen, Rest, Labels,
           world, files
<1>2. ValuesOK'
    BY DEF IInv, TypeOK, ValuesOK, EndCleanup, PersistThen, Rest, NoJob,
           world, files, NoPolicy
<1>3. RecordsOK'
    BY DEF IInv, TypeOK, RecordsOK, EndCleanup, PersistThen, Rest, NoJob,
           world, files, NoPolicy
<1>4. VisitOK'
    BY DEF IInv, TypeOK, VisitOK, Phase, Transacting, Restoring, Visiting,
           EndCleanup, PersistThen, Rest, NoJob, world, files, NoPolicy
<1>5. CallOK'
    BY DEF IInv, TypeOK, CallOK, VisitOK, Phase, Visiting, Restoring,
           Transacting, EndCleanup, PersistThen, Rest, NoJob, world, files,
           NoPolicy
<1>6. CleanupOK'
    BY DEF IInv, TypeOK, CleanupOK, Restoring, Managed, VisitOK, Phase,
           Visiting, Transacting, EndCleanup, PersistThen, Rest, NoJob, world,
           files, NoPolicy
<1> QED BY <1>1, <1>2, <1>3, <1>4, <1>5, <1>6 DEF IInv

\* The replacement of background-state.json preserves the invariant.
LEMMA PersistStep ==
    ASSUME IInv, Persist
    PROVE  IInv'
<1>1. TypeOK'
    BY JournalAssumption DEF IInv, TypeOK, Labels, Job, Call, Persist, Goto,
           world
<1>2. ValuesOK'
    BY DEF IInv, TypeOK, ValuesOK, Persist, Goto, world
<1>3. RecordsOK'
    BY DEF IInv, TypeOK, RecordsOK, Persist, Goto, world
<1>4. VisitOK'
    BY DEF IInv, TypeOK, VisitOK, Phase, Transacting, Restoring, Visiting,
           Persist, Goto, world
<1>5. CallOK'
    BY DEF IInv, TypeOK, CallOK, VisitOK, Phase, Visiting, Restoring,
           Transacting, Persist, Goto, world
<1>6. CleanupOK'
    BY DEF IInv, TypeOK, CleanupOK, Restoring, Managed, VisitOK, Phase,
           Visiting, Transacting, Persist, Goto, world
<1> QED BY <1>1, <1>2, <1>3, <1>4, <1>5, <1>6 DEF IInv

\* A failing replacement of background-state.json preserves the
\* invariant.
LEMMA PersistFailsStep ==
    ASSUME IInv, PersistFails
    PROVE  IInv'
<1>1. TypeOK'
    <2>1. spent' \in [faults : 0 .. MaxFaults, crashes : 0 .. MaxCrashes,
                      writes : 0 .. MaxWrites]
        BY FaultType DEF PersistFails, IInv, TypeOK
    <2>2. pc' \in Labels /\ todo' \subseteq Keys /\ leaving' \in BOOLEAN
        BY DEF IInv, TypeOK, PersistFails, EnterCleanup, Rest, Goto, Labels,
               Managed
    <2> QED BY <2>1, <2>2, IdleTypes DEF IInv, TypeOK, PersistFails, world,
                files
<1>2. ValuesOK'
    BY DEF IInv, TypeOK, ValuesOK, PersistFails, Fault, Goto, EnterCleanup,
           NoJob, world, files, Managed, Rest, NoPolicy
<1>3. RecordsOK'
    BY DEF IInv, TypeOK, RecordsOK, PersistFails, Fault, Goto, EnterCleanup,
           NoJob, world, files, Managed, Rest, NoPolicy
<1>4. VisitOK'
    BY DEF IInv, TypeOK, VisitOK, Phase, Transacting, Restoring, Visiting,
           PersistFails, Fault, Goto, EnterCleanup, NoJob, world, files,
           Managed, Rest, NoPolicy
<1>5. CallOK'
    BY DEF IInv, TypeOK, CallOK, VisitOK, Phase, Visiting, Restoring,
           Transacting, PersistFails, Fault, Goto, EnterCleanup, NoJob, world,
           files, Managed, Rest, NoPolicy
<1>6. CleanupOK'
    BY DEF IInv, TypeOK, CleanupOK, Restoring, Managed, VisitOK, Phase,
           Visiting, Transacting, PersistFails, Fault, Goto, EnterCleanup,
           NoJob, world, files, Rest, NoPolicy
<1> QED BY <1>1, <1>2, <1>3, <1>4, <1>5, <1>6 DEF IInv

\* The creation of a process preserves the invariant.
LEMMA BirthStep ==
    ASSUME IInv, NEW k \in Keys, Birth(k)
    PROVE  IInv'
<1>1. TypeOK'
    BY JournalAssumption DEF IInv, TypeOK, Labels, Job, Call, Birth, files,
           thread
<1>2. ValuesOK'
    BY DEF IInv, TypeOK, ValuesOK, Birth, files, thread
<1>3. RecordsOK'
    BY DEF IInv, TypeOK, RecordsOK, Birth, files, thread
<1>4. VisitOK'
    BY DEF IInv, TypeOK, VisitOK, Phase, Transacting, Restoring, Visiting,
           Birth, files, thread
<1>5. CallOK'
    BY DEF IInv, TypeOK, CallOK, VisitOK, Phase, Visiting, Restoring,
           Transacting, Birth, files, thread
<1>6. CleanupOK'
    BY DEF IInv, TypeOK, CleanupOK, Restoring, Managed, VisitOK, Phase,
           Visiting, Transacting, Birth, files, thread
<1> QED BY <1>1, <1>2, <1>3, <1>4, <1>5, <1>6 DEF IInv

\* A write of a property by somebody else preserves the invariant.
LEMMA OutsiderWritesStep ==
    ASSUME IInv, NEW k \in Keys, NEW p \in Props, NEW v \in Choices[p],
           OutsiderWrites(k, p, v)
    PROVE  IInv'
<1>o. /\ v \in Value /\ k \in Keys /\ k \in born
      /\ cur[k] \in State /\ base[k] \in State
    BY JournalAssumption DEF IInv, TypeOK, ValuesOK, OutsiderWrites
<1>p. [cur[k] EXCEPT ![p] = v] \in State /\ [base[k] EXCEPT ![p] = v] \in State
    BY <1>o DEF State
<1>q. /\ cur' = [cur EXCEPT ![k] = [cur[k] EXCEPT ![p] = v]]
      /\ base' = [base EXCEPT ![k] = [base[k] EXCEPT ![p] = v]]
      /\ UNCHANGED <<born, alive, files, thread>>
    BY <1>o DEF OutsiderWrites, IInv, TypeOK
<1>1. TypeOK'
    <2>1. spent' \in [faults : 0 .. MaxFaults, crashes : 0 .. MaxCrashes,
                      writes : 0 .. MaxWrites]
        BY JournalAssumption DEF OutsiderWrites, IInv, TypeOK
    <2>2. /\ cur' \in [Keys -> State \cup {None}]
          /\ base' \in [Keys -> State \cup {None}]
        BY <1>p, <1>q DEF IInv, TypeOK
    <2> QED BY <1>q, <2>1, <2>2 DEF IInv, TypeOK, files, thread
<1>2. ValuesOK'
    BY <1>p, <1>q DEF IInv, TypeOK, ValuesOK
<1>3. RecordsOK'
    BY <1>q DEF IInv, RecordsOK, files, thread
<1>4. VisitOK'
    BY <1>q DEF IInv, VisitOK, Phase, thread
<1>5. CallOK'
    BY <1>q DEF IInv, CallOK, thread
<1>6. CleanupOK'
    BY <1>q DEF IInv, CleanupOK, Managed, thread
<1> QED BY <1>1, <1>2, <1>3, <1>4, <1>5, <1>6 DEF IInv

\* Settling a transaction the journal holds as pending preserves the
\* invariant.
LEMMA ResolveStep ==
    ASSUME IInv, Resolve
    PROVE  IInv'
<1> DEFINE r == managed[job.key]
<1>r. /\ job.key \in Keys /\ r \in Record /\ Loadable(r) /\ r.pending # None
      /\ r.pending \in State
    <2>1. pc = "resolve" /\ Phase = "resolve"
        BY DEF Resolve, Phase
    <2>2. job.key \in Keys /\ r \in Record /\ Loadable(r)
        BY <2>1, VisitedRecord DEF Visiting
    <2>3. r.pending # None
        BY <2>1 DEF IInv, VisitOK
    <2> QED BY <2>2, <2>3 DEF Record
<1>s. PICK holder \in Keys :
          /\ Opens(job.key, holder)
          /\ \/ /\ AskRestore(r, r.pending, "recover")
                /\ UNCHANGED <<managed, after>>
             \/ /\ Store(job.key, Resolved(r, cur[holder]))
                /\ PersistThen(IF r.own = {} THEN "scan" ELSE "reexamine")
                /\ UNCHANGED call
    BY DEF Resolve
<1>t. cur[holder] \in State
    BY <1>s, OpensBorn DEF IInv
<1>u. pc = "resolve" /\ UNCHANGED <<world, files, leaving, streak, todo,
                                    budget, job, spent>>
    BY DEF Resolve
<1>1. CASE AskRestore(r, r.pending, "recover") /\ UNCHANGED <<managed, after>>
    <2>1. /\ call' \in Call /\ pc' = "open" /\ pc' \in Labels
          /\ call'.then = "recover" /\ call'.own = r.own
          /\ call'.original \in State /\ call'.applied \in State
          /\ call'.unrestored = {} /\ call'.external = {}
        BY <1>1, <1>r, AskRestoreCall
    <2>2. TypeOK'
        BY <1>1, <1>u, <2>1 DEF IInv, TypeOK, world, files
    <2>3. ValuesOK' /\ RecordsOK'
        BY <1>1, <1>u DEF IInv, ValuesOK, RecordsOK, world, files
    <2>4. VisitOK'
        BY <1>1, <1>r, <1>u, <2>1 DEF IInv, VisitOK, Phase, Visiting,
               Transacting, Restoring
    <2>5. CallOK' /\ CleanupOK'
        BY <1>1, <1>u, <2>1 DEF CallOK, CleanupOK, Restoring
    <2> QED BY <2>2, <2>3, <2>4, <2>5 DEF IInv
<1>2. CASE /\ Store(job.key, Resolved(r, cur[holder]))
           /\ PersistThen(IF r.own = {} THEN "scan" ELSE "reexamine")
           /\ UNCHANGED call
    <2> DEFINE q == Resolved(r, cur[holder])
    <2>1. q \in Record /\ Loadable(q) /\ q.pending = None
        BY <1>r, <1>t, ResolvedLoadable
    <2>2. /\ managed' \in [Keys -> Record \cup {None}] /\ RecordsOK'
          /\ managed'[job.key] = q
        BY <1>2, <1>r, <1>u, <2>1, StoreStep DEF IInv, files
    <2>3. pc' = "persist" /\ after' \in {"scan", "reexamine"}
        BY <1>2 DEF PersistThen
    <2>4. TypeOK'
        BY <1>2, <1>u, <2>2, <2>3 DEF IInv, TypeOK, Labels, world, files
    <2>5. ValuesOK'
        BY <1>u DEF IInv, ValuesOK, world
    <2>6. VisitOK'
        BY <1>r, <1>u, <2>1, <2>2, <2>3, JournalAssumption
           DEF VisitOK, Phase, Visiting, Transacting, Restoring
    <2>7. CallOK' /\ CleanupOK'
        BY <2>3 DEF CallOK, CleanupOK, Restoring
    <2> QED BY <2>2, <2>4, <2>5, <2>6, <2>7 DEF IInv
<1> QED BY <1>s, <1>1, <1>2

\* Giving up what an outsider changed preserves the invariant.
LEMMA ExamineStep ==
    ASSUME IInv, Examine
    PROVE  IInv'
<1> DEFINE r == managed[job.key]
<1>1. /\ job.key \in Keys /\ r \in Record /\ Loadable(r) /\ r.pending = None
      /\ r.own \cap r.blocked = {} /\ r.pendingOwn = NoMask
    <2>1. pc \in {"examine", "reexamine"} /\ Phase = pc
        BY DEF Examine, Phase
    <2>2. job.key \in Keys /\ r \in Record /\ Loadable(r)
        BY <2>1, VisitedRecord DEF Visiting
    <2>3. r.pending = None
        BY <2>1 DEF IInv, VisitOK
    <2> QED BY <2>2, <2>3 DEF Loadable
<1>2. PICK holder \in Keys :
          LET changed == OverrideMask(r.applied, cur[holder], r.own)
          IN  /\ Opens(job.key, holder)
              /\ job' = [job EXCEPT !.seen = cur[holder]]
              /\ IF changed = {}
                 THEN /\ Goto("decide")
                      /\ UNCHANGED <<managed, streak, after>>
                 ELSE /\ Store(job.key, Relinquish(r, cur[holder], changed))
                      /\ streak' = [streak EXCEPT ![job.key] = 0]
                      /\ PersistThen("decide")
    BY DEF Examine
<1> DEFINE changed == OverrideMask(r.applied, cur[holder], r.own)
           q == Relinquish(r, cur[holder], changed)
<1>3. cur[holder] \in State
    BY <1>2, OpensBorn DEF IInv
<1>4. /\ q \in Record /\ Loadable(q) /\ q.pending = None
    <2>1. changed \in SUBSET Props
        BY <1>1 DEF OverrideMask, Record, Mask
    <2> QED BY <1>1, <1>3, <2>1, RelinquishLoadable
<1>5. job' \in Job /\ job'.key = job.key /\ job'.seen \in State
    BY <1>2, <1>3 DEF IInv, TypeOK, Job
<1>6. /\ pc \in {"examine", "reexamine"}
      /\ UNCHANGED <<world, files, leaving, todo, budget, call, spent>>
    BY DEF Examine
<1>7. /\ managed' \in [Keys -> Record \cup {None}] /\ RecordsOK'
      /\ managed'[job.key] \in Record /\ managed'[job.key].pending = None
    <2>1. CASE changed = {}
        BY <1>1, <1>2, <1>6, <2>1 DEF IInv, TypeOK, RecordsOK, files
    <2>2. CASE changed # {}
        BY <1>1, <1>2, <1>4, <1>6, <2>2, StoreStep DEF IInv, files
    <2> QED BY <2>1, <2>2
<1>8. \/ pc' = "decide" /\ after' = after
      \/ pc' = "persist" /\ after' = "decide"
    BY <1>2 DEF Goto, PersistThen
<1>9. streak' \in [Keys -> 0 .. ClearSamples]
    BY <1>2 DEF IInv, TypeOK, ClearSamples
<1>10. TypeOK'
    BY <1>5, <1>6, <1>7, <1>8, <1>9 DEF IInv, TypeOK, Labels, world, files
<1>11. ValuesOK'
    BY <1>6 DEF IInv, ValuesOK, world
<1>12. VisitOK'
    BY <1>1, <1>5, <1>6, <1>7, <1>8, JournalAssumption
       DEF IInv, VisitOK, Phase, Visiting, Transacting, Restoring
<1>13. CallOK' /\ CleanupOK'
    BY <1>8 DEF CallOK, CleanupOK, Restoring
<1> QED BY <1>7, <1>10, <1>11, <1>12, <1>13 DEF IInv

\* Letting go of a process that may not be managed preserves the
\* invariant.
LEMMA LetGoStep ==
    ASSUME IInv, LetGo
    PROVE  IInv'
<1> DEFINE r == managed[job.key]
<1>1. job.key \in Keys /\ r \in Record /\ Loadable(r)
    <2>1. Phase = "decide"
        BY DEF LetGo, Phase
    <2> QED BY <2>1, VisitedRecord DEF Visiting
<1>2. UNCHANGED <<world, files, leaving, streak, todo, budget, job, spent>>
    BY DEF LetGo
<1>3. CASE /\ Store(job.key, Kept(r)) /\ PersistThen("scan") /\ UNCHANGED call
    <2>1. /\ Kept(r) \in Record \cup {None}
          /\ Kept(r) # None => Loadable(Kept(r))
        BY <1>1 DEF Kept
    <2>2. managed' \in [Keys -> Record \cup {None}] /\ RecordsOK'
        BY <1>1, <1>2, <1>3, <2>1, StoreStep DEF IInv, files
    <2>3. /\ pc' \in Labels /\ after' \in Labels
          /\ VisitOK' /\ CallOK' /\ CleanupOK'
        BY <1>3, CalmStep DEF PersistThen
    <2>4. TypeOK' /\ ValuesOK'
        BY <1>2, <1>3, <2>2, <2>3 DEF IInv, TypeOK, ValuesOK, world, files
    <2> QED BY <2>2, <2>3, <2>4 DEF IInv
<1>4. CASE AskRestore(r, None, "veto") /\ UNCHANGED <<managed, after>>
    <2>1. /\ call' \in Call /\ pc' = "open" /\ pc' \in Labels
          /\ call'.then = "veto" /\ call'.own = r.own
          /\ call'.original \in State /\ call'.applied \in State
          /\ call'.unrestored = {} /\ call'.external = {}
        BY <1>1, <1>4, AskRestoreCall
    <2>2. TypeOK' /\ ValuesOK' /\ RecordsOK'
        BY <1>2, <1>4, <2>1 DEF IInv, TypeOK, ValuesOK, RecordsOK, world, files
    <2>3. VisitOK'
        BY <1>1, <1>2, <1>4, <2>1, JournalAssumption
           DEF IInv, VisitOK, Phase, Visiting, Transacting, Restoring
    <2>4. CallOK' /\ CleanupOK'
        BY <1>2, <1>4, <2>1 DEF CallOK, CleanupOK, Restoring
    <2> QED BY <2>2, <2>3, <2>4 DEF IInv
<1> QED BY <1>3, <1>4 DEF LetGo

\* Bringing a record up to the policy preserves the invariant.
LEMMA UpdateStep ==
    ASSUME IInv, Update
    PROVE  IInv'
<1> DEFINE r == Rebase(managed[job.key], job.seen)
           desired == Desired(r.original, job.policy)
           desiredOwn == DesiredOwn(r.original, job.policy, r.blocked)
<1>1. /\ job.key \in Keys /\ managed[job.key] \in Record
      /\ Loadable(managed[job.key]) /\ job.seen \in State
    <2>1. Phase = "decide"
        BY DEF Update, Phase
    <2> QED BY <2>1, VisitedRecord DEF Visiting, IInv, VisitOK
<1>2. r \in Record /\ Loadable(r) /\ r.own \cap r.blocked = {}
    BY <1>1, RebaseKeeps, RebaseLoadable DEF Loadable
<1>3. desired \in State
    BY <1>2, DesiredType DEF Record
<1>4. desiredOwn \in SUBSET Props /\ desiredOwn \cap r.blocked = {}
    BY DesiredOwnType
<1>5. pc = "decide"
      /\ UNCHANGED <<world, files, leaving, streak, todo, call, spent>>
    BY DEF Update
<1>6. CASE /\ Store(job.key, r) /\ Goto("scan")
           /\ UNCHANGED <<after, budget, job>>
    <2>1. managed' \in [Keys -> Record \cup {None}] /\ RecordsOK'
        BY <1>2, <1>1, <1>5, <1>6, StoreStep DEF IInv, files
    <2>2. /\ pc' \in Labels /\ after' \in Labels
          /\ VisitOK' /\ CallOK' /\ CleanupOK'
        BY <1>6, CalmStep DEF Goto
    <2>3. TypeOK' /\ ValuesOK'
        BY <1>5, <1>6, <2>1, <2>2 DEF IInv, TypeOK, ValuesOK, world, files
    <2> QED BY <2>1, <2>2, <2>3 DEF IInv
<1>7. CASE Goto("scan") /\ UNCHANGED <<managed, after, budget, job>>
    <2>1. /\ pc' \in Labels /\ after' \in Labels
          /\ VisitOK' /\ CallOK' /\ CleanupOK'
        BY <1>7, CalmStep DEF Goto
    <2>2. TypeOK' /\ ValuesOK' /\ RecordsOK'
        BY <1>5, <1>7, <2>1 DEF IInv, TypeOK, ValuesOK, RecordsOK, world, files
    <2> QED BY <2>1, <2>2 DEF IInv
<1>8. CASE /\ budget # 0 /\ r.own \cup desiredOwn # {}
           /\ Intend(r, desired, desiredOwn, FALSE)
    BY <1>1, <1>2, <1>3, <1>4, <1>5, <1>8, IntendStep
<1> QED BY <1>6, <1>7, <1>8 DEF Update

\* Taking up a process without a record preserves the invariant.
LEMMA AdoptStep ==
    ASSUME IInv, Adopt
    PROVE  IInv'
<1>1. /\ pc = "adopt" /\ job.key \in Keys /\ budget # 0
      /\ UNCHANGED <<world, files, leaving, streak, todo, call, spent>>
    BY DEF Adopt, IInv, TypeOK, VisitOK
<1>2. PICK holder \in Keys :
          /\ Opens(job.key, holder)
          /\ LET r == NewRecord(cur[holder])
                 desired == Desired(r.original, job.policy)
                 desiredOwn == DesiredOwn(r.original, job.policy, {})
             IN  IF desiredOwn = {}
                 THEN Goto("scan") /\ UNCHANGED <<managed, after, budget, job>>
                 ELSE Intend(r, desired, desiredOwn, TRUE)
    BY DEF Adopt
<1> DEFINE r == NewRecord(cur[holder])
           desired == Desired(r.original, job.policy)
           desiredOwn == DesiredOwn(r.original, job.policy, {})
<1>3. cur[holder] \in State
    BY <1>2, OpensBorn DEF IInv
<1>4. r \in Record /\ r.own = {} /\ r.blocked = {}
    BY <1>3, NewRecordType
<1>5. desired \in State
    BY <1>4, DesiredType DEF Record
<1>6. desiredOwn \in SUBSET Props
    BY DesiredOwnType
<1>7. CASE Goto("scan") /\ UNCHANGED <<managed, after, budget, job>>
    <2>1. /\ pc' \in Labels /\ after' \in Labels
          /\ VisitOK' /\ CallOK' /\ CleanupOK'
        BY <1>7, CalmStep DEF Goto
    <2>2. TypeOK' /\ ValuesOK' /\ RecordsOK'
        BY <1>1, <1>7, <2>1 DEF IInv, TypeOK, ValuesOK, RecordsOK, world, files
    <2> QED BY <2>1, <2>2 DEF IInv
<1>8. CASE desiredOwn # {} /\ Intend(r, desired, desiredOwn, TRUE)
    BY <1>1, <1>4, <1>5, <1>6, <1>8, IntendStep
<1> QED BY <1>2, <1>7, <1>8

\* The comparison that opens replace_process_efficiency preserves the
\* invariant.
LEMMA OpenApplyStep ==
    ASSUME IInv, OpenApply
    PROVE  IInv'
<1> DEFINE r == managed[job.key]
<1>1. /\ job.key \in Keys /\ r \in Record /\ Loadable(r) /\ r # None
      /\ r.pending # None /\ r.pending \in State /\ r.own # {}
      /\ r.own \in Mask /\ job.prior \cap r.blocked = {}
    <2>1. Phase = "apply" /\ Phase \in Transacting
        BY DEF OpenApply, Phase, Transacting
    <2>2. job.key \in Keys /\ r \in Record /\ Loadable(r) /\ r # None
        BY <2>1, VisitedRecord DEF Visiting
    <2>3. r.pending # None /\ job.prior \cap r.blocked = {}
        BY <2>1 DEF IInv, VisitOK
    <2> QED BY <2>2, <2>3 DEF Loadable, Record
<1>2. PICK holder \in Keys :
          /\ Opens(job.key, holder)
          /\ \/ /\ call' = [NoCall EXCEPT !.target = holder,
                                          !.original = cur[holder],
                                          !.applied = r.pending,
                                          !.own = r.own, !.left = r.own]
                /\ Goto("set")
             \/ Goto("lost") /\ UNCHANGED call
    BY DEF OpenApply
<1>3. holder \in born /\ cur[holder] \in State
    BY <1>2, OpensBorn DEF IInv
<1>4. /\ pc = "apply"
      /\ UNCHANGED <<world, files, after, leaving, managed, streak, todo,
                     budget, job, spent>>
    BY DEF OpenApply
<1>5. ValuesOK' /\ RecordsOK' /\ CleanupOK'
    BY <1>2, <1>4 DEF IInv, ValuesOK, RecordsOK, CleanupOK, Restoring, Goto,
           world, files
<1>6. VisitOK'
    BY <1>1, <1>2, <1>4
       DEF IInv, VisitOK, Phase, Visiting, Transacting, Restoring, Goto
<1>7. CASE /\ Goto("set")
           /\ call' = [NoCall EXCEPT !.target = holder,
                                     !.original = cur[holder],
                                     !.applied = r.pending,
                                     !.own = r.own, !.left = r.own]
    <2>1. /\ call' \in Call
          /\ call'.target = holder /\ call'.own = r.own /\ call'.left = r.own
          /\ call'.original \in State /\ call'.applied \in State
          /\ call'.unrestored = {} /\ call'.external = {}
        BY <1>1, <1>3, <1>7 DEF NoCall, Call, Mask
    <2>2. TypeOK'
        BY <1>4, <1>7, <2>1 DEF IInv, TypeOK, Goto, Labels, world, files
    <2>3. CallOK'
        BY <1>1, <1>3, <1>4, <1>7, <2>1 DEF CallOK, Restoring, Goto, world
    <2> QED BY <1>5, <1>6, <2>2, <2>3 DEF IInv
<1>8. CASE Goto("lost") /\ UNCHANGED call
    <2>1. TypeOK'
        BY <1>4, <1>8 DEF IInv, TypeOK, Goto, Labels, world, files
    <2>2. CallOK'
        BY <1>8 DEF CallOK, Restoring, Goto
    <2> QED BY <1>5, <1>6, <2>1, <2>2 DEF IInv
<1> QED BY <1>2, <1>7, <1>8

\* Setting one property preserves the invariant.
LEMMA SetPropertyStep ==
    ASSUME IInv, SetProperty
    PROVE  IInv'
<1> DEFINE p == NextProp(call.left)
<1>1. /\ pc = "set" /\ p \in call.left /\ p \in Props /\ call \in Call
      /\ call.target \in born /\ call.applied[p] \in Value
    <2>1. call.left \in Mask /\ call.left # {} /\ call.applied \in State
        BY DEF SetProperty, IInv, TypeOK, CallOK, Call, Restoring
    <2>2. p \in call.left /\ p \in Props
        BY <2>1, NextPropLeft
    <2> QED BY <2>1, <2>2 DEF SetProperty, IInv, TypeOK, CallOK, State
<1>2. UNCHANGED <<born, alive, base, files, after, leaving, managed, streak,
                  todo, budget, job>>
    BY DEF SetProperty
<1>3. RecordsOK'
    BY <1>2 DEF IInv, RecordsOK, files
<1>4. CASE /\ Put(p, call.applied[p])
           /\ call' = [call EXCEPT !.left = @ \ {p}]
           /\ Goto(IF call.left = {p} THEN "verify" ELSE "set")
           /\ UNCHANGED spent
    <2>1. /\ cur' \in [Keys -> State \cup {None}]
          /\ \A k \in born : cur'[k] \in State
        BY <1>1, <1>4, PutValues DEF IInv
    <2>2. /\ call' \in Call
          /\ call'.target = call.target /\ call'.then = call.then
          /\ call'.own = call.own /\ call'.left = call.left \ {p}
          /\ call'.original = call.original /\ call'.applied = call.applied
          /\ call'.unrestored = call.unrestored
          /\ call'.external = call.external
        BY <1>1, <1>4 DEF Call, Mask
    <2>3. pc' = IF call.left = {p} THEN "verify" ELSE "set"
        BY <1>4 DEF Goto
    <2>4. TypeOK' /\ ValuesOK'
        BY <1>2, <1>4, <2>1, <2>2, <2>3
           DEF IInv, TypeOK, ValuesOK, Labels, files
    <2>5. VisitOK' /\ CleanupOK'
        BY <1>1, <1>2, <2>3 DEF IInv, VisitOK, CleanupOK, Phase, Visiting,
               Transacting, Restoring
    <2>6. CallOK'
        BY <1>1, <1>2, <2>2, <2>3 DEF IInv, CallOK, Restoring
    <2> QED BY <1>3, <2>4, <2>5, <2>6 DEF IInv
<1>5. CASE Goto("rollback") /\ UNCHANGED <<cur, call>>
    <2>1. spent' \in [faults : 0 .. MaxFaults, crashes : 0 .. MaxCrashes,
                      writes : 0 .. MaxWrites]
        BY <1>5, FaultType DEF SetProperty, IInv, TypeOK
    <2>2. TypeOK' /\ ValuesOK'
        BY <1>2, <1>5, <2>1 DEF IInv, TypeOK, ValuesOK, Goto, Labels, files
    <2>3. VisitOK' /\ CallOK' /\ CleanupOK'
        BY <1>1, <1>2, <1>5 DEF IInv, VisitOK, CallOK, CleanupOK, Phase,
               Visiting, Transacting, Restoring, Goto
    <2> QED BY <1>3, <2>2, <2>3 DEF IInv
<1> QED BY <1>4, <1>5 DEF SetProperty

\* The read-back that ends an application preserves the invariant.
LEMMA VerifyStep ==
    ASSUME IInv, Verify
    PROVE  IInv'
<1> DEFINE r == managed[job.key]
           q == Applied(r, cur[call.target])
<1>1. /\ job.key \in Keys /\ r \in Record /\ Loadable(r) /\ r.pending # None
      /\ cur[call.target] \in State
    <2>1. Phase = "verify" /\ pc = "verify"
        BY DEF Verify, Phase
    <2> QED BY <2>1, VisitedRecord
            DEF Visiting, Transacting, IInv, VisitOK, CallOK, ValuesOK
<1>2. q \in Record /\ Loadable(q)
    BY <1>1, AppliedLoadable
<1>3. managed' \in [Keys -> Record \cup {None}] /\ RecordsOK'
    BY <1>1, <1>2, StoreStep DEF Verify, IInv, files
<1>4. /\ pc' \in Labels /\ after' \in Labels
      /\ VisitOK' /\ CallOK' /\ CleanupOK'
    BY CalmStep DEF Verify, PersistThen
<1>5. TypeOK' /\ ValuesOK'
    BY <1>3, <1>4, IdleTypes DEF IInv, TypeOK, ValuesOK, Verify, world, files
<1> QED BY <1>3, <1>4, <1>5 DEF IInv

\* A read-back that disagrees preserves the invariant.
LEMMA MismatchStep ==
    ASSUME IInv, Mismatch
    PROVE  IInv'
<1>1. TypeOK'
    BY JournalAssumption DEF IInv, TypeOK, Labels, Job, Call, Mismatch, Fault,
           Goto, world, files
<1>2. ValuesOK'
    BY DEF IInv, TypeOK, ValuesOK, Mismatch, Fault, Goto, world, files
<1>3. RecordsOK'
    BY DEF IInv, TypeOK, RecordsOK, Mismatch, Fault, Goto, world, files
<1>4. VisitOK'
    BY DEF IInv, TypeOK, VisitOK, Phase, Transacting, Restoring, Visiting,
           Mismatch, Fault, Goto, world, files
<1>5. CallOK'
    BY DEF IInv, TypeOK, CallOK, VisitOK, Phase, Visiting, Restoring,
           Transacting, Mismatch, Fault, Goto, world, files
<1>6. CleanupOK'
    BY DEF IInv, TypeOK, CleanupOK, Restoring, Managed, VisitOK, Phase,
           Visiting, Transacting, Mismatch, Fault, Goto, world, files
<1> QED BY <1>1, <1>2, <1>3, <1>4, <1>5, <1>6 DEF IInv

\* The start of a rollback preserves the invariant.
LEMMA BeginRollbackStep ==
    ASSUME IInv, BeginRollback
    PROVE  IInv'
<1>1. pc = "rollback" /\ UNCHANGED <<world, files, after, leaving, managed,
                                     streak, todo, budget, job>>
    BY DEF BeginRollback
<1>2. CASE /\ call.target \in alive /\ Observing(call.target, "rollback")
           /\ UNCHANGED spent
    <2>1. call.target \in born
        BY <1>2 DEF IInv, TypeOK
    <2>2. /\ call' \in Call /\ pc' \in Labels
          /\ VisitOK' /\ CallOK' /\ CleanupOK' /\ RecordsOK'
        BY <1>1, <1>2, <2>1, ObservingStep DEF world
    <2>3. TypeOK' /\ ValuesOK'
        BY <1>1, <1>2, <2>2, ValuesKept, RestoreTypes DEF world
    <2> QED BY <2>2, <2>3 DEF IInv
<1>3. CASE /\ (call.target \notin alive /\ UNCHANGED spent) \/ Fault
           /\ Goto("refused") /\ call' = NoCall
    <2>1. call' \in Call /\ pc' = "refused" /\ pc' \in Labels
        BY <1>3, IdleTypes DEF Goto, Labels
    <2>2. TypeOK' /\ ValuesOK'
        BY <1>1, <1>3, <2>1, ValuesKept, RestoreTypes DEF world
    <2>3. VisitOK'
        BY <1>1, <2>1 DEF IInv, VisitOK, Phase, Visiting, Transacting,
               Restoring
    <2>4. RecordsOK' /\ CallOK' /\ CleanupOK'
        BY <1>1, <2>1 DEF IInv, RecordsOK, CallOK, CleanupOK, Restoring, files
    <2> QED BY <2>2, <2>3, <2>4 DEF IInv
<1> QED BY <1>2, <1>3 DEF BeginRollback

\* The query that opens restore_process_efficiency preserves the
\* invariant.
LEMMA OpenRestoreStep ==
    ASSUME IInv, OpenRestore
    PROVE  IInv'
<1>1. pc = "open" /\ UNCHANGED <<world, files, after, leaving, managed, streak,
                                 todo, budget, job, spent>>
    BY DEF OpenRestore
<1>2. PICK holder \in Keys :
          Opens(job.key, holder) /\ Observing(holder, call.then)
    BY DEF OpenRestore
<1>3. holder \in born
    BY <1>2, OpensBorn DEF IInv
<1>4. /\ call' \in Call /\ pc' \in Labels
      /\ VisitOK' /\ CallOK' /\ CleanupOK' /\ RecordsOK'
    BY <1>1, <1>2, <1>3, ObservingStep DEF world
<1>5. TypeOK' /\ ValuesOK'
    BY <1>1, <1>4, ValuesKept, RestoreTypes DEF world
<1> QED BY <1>4, <1>5 DEF IInv

\* A restore that fails as a whole preserves the invariant.
LEMMA RestoreRefusedStep ==
    ASSUME IInv, RestoreRefused
    PROVE  IInv'
<1>1. /\ pc = "open" /\ call' \in Call /\ pc' \in {"cleanup", "scan"}
      /\ pc' = "cleanup" <=> call.then = "cleanup"
      /\ UNCHANGED <<world, files, after, leaving, streak, todo, budget, job>>
    BY IdleTypes DEF RestoreRefused, Goto
<1>2. /\ job.key \in Keys
      /\ managed' = managed \/ managed' = [managed EXCEPT ![job.key] = None]
    <2>1. Phase = "open"
        BY <1>1 DEF Phase
    <2> QED BY <2>1, VisitedRecord DEF RestoreRefused, Visiting, Restoring
<1>3. managed' \in [Keys -> Record \cup {None}] /\ RecordsOK'
    BY <1>1, <1>2 DEF IInv, TypeOK, RecordsOK, files
<1>4. TypeOK' /\ ValuesOK'
    <2>1. spent' \in [faults : 0 .. MaxFaults, crashes : 0 .. MaxCrashes,
                      writes : 0 .. MaxWrites]
        BY FaultType DEF RestoreRefused, IInv, TypeOK
    <2> QED BY <1>1, <1>3, <2>1
            DEF IInv, TypeOK, ValuesOK, Labels, world, files
<1>5. VisitOK' /\ CallOK'
    BY <1>1 DEF IInv, VisitOK, CallOK, Phase, Visiting, Transacting, Restoring
<1>6. CleanupOK'
    BY <1>1, <1>2 DEF IInv, TypeOK, CleanupOK, Restoring, Managed
<1> QED BY <1>3, <1>4, <1>5, <1>6 DEF IInv

\* The second query of a restore preserves the invariant.
LEMMA QueryMemoryStep ==
    ASSUME IInv, QueryMemory
    PROVE  IInv'
<1>1. /\ pc = "requery" /\ pc' = "restore" /\ pc' \in Labels
      /\ UNCHANGED <<world, files, after, leaving, managed, streak, todo,
                     budget, job, spent>>
    BY DEF QueryMemory, Goto, Labels
<1>2. /\ call.left \in SUBSET Props /\ call.observed \in State /\ call \in Call
      /\ cur[call.target] \in State
    BY <1>1 DEF IInv, TypeOK, CallOK, ValuesOK, Call, Mask
<1>3. Overlay(call.observed, call.left, cur[call.target]) \in State
    BY <1>2, OverlayType
<1>4. call' = [call EXCEPT !.observed =
                  Overlay(call.observed, call.left, cur[call.target])]
    BY DEF QueryMemory
<1>5. /\ call' \in Call /\ call'.observed \in State
      /\ call'.target = call.target /\ call'.then = call.then
      /\ call'.own = call.own /\ call'.left = call.left
      /\ call'.original = call.original /\ call'.applied = call.applied
      /\ call'.unrestored = call.unrestored /\ call'.external = call.external
    BY <1>2, <1>3, <1>4 DEF Call
<1>6. TypeOK' /\ ValuesOK'
    BY <1>1, <1>5, ValuesKept, RestoreTypes DEF world
<1>7. RecordsOK' /\ VisitOK'
    BY <1>1, <1>5 DEF IInv, RecordsOK, VisitOK, Phase, Visiting, Transacting,
           Restoring, files
<1>8. CallOK' /\ CleanupOK'
    BY <1>1, <1>5 DEF IInv, CallOK, CleanupOK, Restoring, Managed, world
<1> QED BY <1>6, <1>7, <1>8 DEF IInv

\* A failing second query of a restore preserves the invariant.
LEMMA QueryMemoryFailsStep ==
    ASSUME IInv, QueryMemoryFails
    PROVE  IInv'
<1> DEFINE p == NextProp(call.left)
           u == p \in call.own
<1>1. /\ pc = "requery" /\ Note(p, call.observed[p], u, FALSE)
      /\ UNCHANGED spent \/ Fault
      /\ UNCHANGED <<world, files, after, leaving, managed, streak, todo,
                     budget, job>>
    BY DEF QueryMemoryFails
<1>2. call.observed[p] \in Value
    BY <1>1, RestoreFocus
<1>3. u \in BOOLEAN /\ (u => p \in call.own)
    OBVIOUS
<1> HIDE DEF u
<1>4. /\ call' \in Call /\ pc' \in Labels
      /\ VisitOK' /\ CallOK' /\ CleanupOK' /\ RecordsOK'
    BY <1>1, <1>2, <1>3, NoteStep DEF world
<1>5. TypeOK' /\ ValuesOK'
    BY <1>1, <1>4, ValuesKept, RestoreTypes DEF world
<1> QED BY <1>4, <1>5 DEF IInv

\* Leaving a property alone in a restore preserves the invariant.
LEMMA SkipPropertyStep ==
    ASSUME IInv, SkipProperty
    PROVE  IInv'
<1> DEFINE p == NextProp(call.left)
           x == p \in call.own /\ ~ Mine(p)
<1>1. /\ pc = "restore" /\ Note(p, call.observed[p], FALSE, x)
      /\ UNCHANGED <<world, files, after, leaving, managed, streak, todo,
                     budget, job, spent>>
    BY DEF SkipProperty
<1>2. call.observed[p] \in Value
    BY <1>1, RestoreFocus
<1>3. x \in BOOLEAN /\ (x => p \in call.own)
    OBVIOUS
<1> HIDE DEF x
<1>4. /\ call' \in Call /\ pc' \in Labels
      /\ VisitOK' /\ CallOK' /\ CleanupOK' /\ RecordsOK'
    BY <1>1, <1>2, <1>3, NoteStep DEF world
<1>5. TypeOK' /\ ValuesOK'
    BY <1>1, <1>4, ValuesKept, RestoreTypes DEF world
<1> QED BY <1>4, <1>5 DEF IInv

\* Giving a property back preserves the invariant.
LEMMA RestorePropertyStep ==
    ASSUME IInv, RestoreProperty
    PROVE  IInv'
<1>1. PICK p \in Props : /\ Due(p) /\ Put(p, call.original[p])
                         /\ Note(p, call.original[p], FALSE, FALSE)
    BY DEF RestoreProperty
<1>2. UNCHANGED <<born, alive, base, files, after, leaving, managed, streak,
                  todo, budget, job, spent>>
    BY DEF RestoreProperty
<1>3. /\ pc = "restore" /\ p = NextProp(call.left)
      /\ call.original[p] \in Value /\ call.target \in born
    BY <1>1, RestoreFocus DEF Due
<1>4. /\ call' \in Call /\ pc' \in Labels
      /\ VisitOK' /\ CallOK' /\ CleanupOK' /\ RecordsOK'
    BY <1>1, <1>2, <1>3, NoteStep
<1>5. /\ cur' \in [Keys -> State \cup {None}]
      /\ \A k \in born : cur'[k] \in State
    BY <1>1, <1>3, PutValues DEF IInv
<1>6. TypeOK' /\ ValuesOK'
    BY <1>2, <1>4, <1>5, ValuesKept, RestoreTypes
<1> QED BY <1>4, <1>6 DEF IInv

\* A property that cannot be given back preserves the invariant.
LEMMA RestorePropertyFailsStep ==
    ASSUME IInv, RestorePropertyFails
    PROVE  IInv'
<1>1. PICK p \in Props :
          /\ Due(p)
          /\ \/ UNCHANGED cur
             \/ Put(p, call.original[p])
          /\ \E seen \in {call.observed[p], cur[call.target][p],
                          call.original[p]} : Note(p, seen, TRUE, FALSE)
    BY DEF RestorePropertyFails
<1>2. /\ Fault
      /\ UNCHANGED <<born, alive, base, files, after, leaving, managed, streak,
                     todo, budget, job>>
    BY DEF RestorePropertyFails
<1>3. /\ pc = "restore" /\ p = NextProp(call.left)
      /\ call.original[p] \in Value /\ call.target \in born
      /\ call.observed[p] \in Value /\ cur[call.target][p] \in Value
    BY <1>1, RestoreFocus DEF Due
<1>4. PICK seen \in Value : Note(p, seen, TRUE, FALSE)
    BY <1>1, <1>3
<1>5. p \in call.own
    BY <1>1 DEF Due, Mine
<1>6. /\ call' \in Call /\ pc' \in Labels
      /\ VisitOK' /\ CallOK' /\ CleanupOK' /\ RecordsOK'
    BY <1>2, <1>3, <1>4, <1>5, NoteStep
<1>7. /\ cur' \in [Keys -> State \cup {None}]
      /\ \A k \in born : cur'[k] \in State
    <2>1. CASE UNCHANGED cur
        BY <2>1, ValuesKept
    <2>2. CASE Put(p, call.original[p])
        BY <1>3, <2>2, PutValues DEF IInv
    <2> QED BY <1>1, <2>1, <2>2
<1>8. TypeOK' /\ ValuesOK'
    BY <1>2, <1>6, <1>7, ValuesKept, RestoreTypes
<1> QED BY <1>6, <1>8 DEF IInv

\* An exit in the middle of a restore preserves the invariant.
LEMMA RestorePropertyGoneStep ==
    ASSUME IInv, RestorePropertyGone
    PROVE  IInv'
<1>1. PICK p \in Props : Due(p) /\ Note(p, call.observed[p], TRUE, FALSE)
    BY DEF RestorePropertyGone
<1>2. UNCHANGED <<world, files, after, leaving, managed, streak, todo, budget,
                  job, spent>>
    BY DEF RestorePropertyGone
<1>3. /\ pc = "restore" /\ p = NextProp(call.left) /\ p \in call.own
      /\ call.observed[p] \in Value
    BY <1>1, RestoreFocus DEF Due, Mine
<1>4. /\ call' \in Call /\ pc' \in Labels
      /\ VisitOK' /\ CallOK' /\ CleanupOK' /\ RecordsOK'
    BY <1>1, <1>2, <1>3, NoteStep DEF world
<1>5. TypeOK' /\ ValuesOK'
    BY <1>2, <1>4, ValuesKept, RestoreTypes DEF world
<1> QED BY <1>4, <1>5 DEF IInv

\* An outsider's write inside a restore preserves the invariant.
LEMMA RestoreRaceStep ==
    ASSUME IInv, RestoreRace
    PROVE  IInv'
<1>1. PICK p \in Props :
          /\ Due(p)
          /\ \E v \in Choices[p] :
                /\ Put(p, v)
                /\ base' = [base EXCEPT ![call.target][p] = v]
                /\ Note(p, v, TRUE, FALSE)
    BY DEF RestoreRace
<1>2. PICK v \in Choices[p] :
          /\ Put(p, v)
          /\ base' = [base EXCEPT ![call.target][p] = v]
          /\ Note(p, v, TRUE, FALSE)
    BY <1>1
<1>3. /\ spent.writes < MaxWrites /\ spent' = [spent EXCEPT !.writes = @ + 1]
      /\ UNCHANGED <<born, alive, files, after, leaving, managed, streak, todo,
                     budget, job>>
    BY DEF RestoreRace
<1>4. /\ pc = "restore" /\ p = NextProp(call.left) /\ p \in call.own
      /\ call.target \in born /\ v \in Value
    BY <1>1, RestoreFocus, JournalAssumption DEF Due, Mine
<1>5. /\ call' \in Call /\ pc' \in Labels
      /\ VisitOK' /\ CallOK' /\ CleanupOK' /\ RecordsOK'
    BY <1>2, <1>3, <1>4, NoteStep
<1>6. /\ cur' \in [Keys -> State \cup {None}]
      /\ \A k \in born : cur'[k] \in State
    BY <1>2, <1>4, PutValues DEF IInv
<1>7. /\ base' \in [Keys -> State \cup {None}]
      /\ \A k \in born : base'[k] \in State
    <2>1. call.target \in Keys /\ base[call.target] \in State
        BY <1>4 DEF IInv, TypeOK, ValuesOK
    <2>2. [base[call.target] EXCEPT ![p] = v] \in State
        BY <1>4, <2>1 DEF State
    <2>3. base' = [base EXCEPT ![call.target] =
                      [base[call.target] EXCEPT ![p] = v]]
        BY <1>2, <2>1 DEF IInv, TypeOK
    <2> QED BY <2>1, <2>2, <2>3, ValuesKept
<1>8. TypeOK' /\ ValuesOK'
    BY <1>3, <1>5, <1>6, <1>7, RestoreTypes
<1> QED BY <1>5, <1>8 DEF IInv

\* Entering the report of a restore into the record preserves the
\* invariant.
LEMMA EndRestoreStep ==
    ASSUME IInv, EndRestore
    PROVE  IInv'
<1> DEFINE r == Reported(managed[job.key], call)
<1>1. /\ pc = "report" /\ call' \in Call
      /\ UNCHANGED <<world, files, leaving, streak, todo, budget, job, spent>>
    BY IdleTypes DEF EndRestore
<1>2. /\ job.key \in Keys /\ managed[job.key] \in Record
      /\ Loadable(managed[job.key])
    <2>1. Phase = "report"
        BY <1>1 DEF Phase
    <2> QED BY <2>1, VisitedRecord DEF Visiting, Restoring
<1>3. r \in Record /\ Loadable(r)
    <2>1. /\ call.observed \in State
          /\ call.unrestored \subseteq managed[job.key].own
          /\ call.external \subseteq Props
          /\ call.unrestored \cap call.external = {}
        BY <1>1 DEF IInv, CallOK, TypeOK, Call, Mask, Restoring
    <2> QED BY <1>2, <2>1, ReportedLoadable
<1>4. CASE /\ call.then = "rollback" /\ Goto("refused")
           /\ UNCHANGED <<managed, after>>
    <2>1. TypeOK' /\ ValuesOK'
        BY <1>1, <1>4 DEF IInv, TypeOK, ValuesOK, Goto, Labels, world, files
    <2>2. VisitOK'
        BY <1>1, <1>4 DEF IInv, VisitOK, Phase, Visiting, Transacting,
               Restoring, Goto
    <2>3. RecordsOK' /\ CallOK' /\ CleanupOK'
        BY <1>1, <1>4 DEF IInv, RecordsOK, CallOK, CleanupOK, Restoring, Goto,
               files
    <2> QED BY <2>1, <2>2, <2>3 DEF IInv
<1>5. CASE \E q \in {r, None} : Store(job.key, q) /\ PersistThen("scan")
    <2>1. managed' \in [Keys -> Record \cup {None}] /\ RecordsOK'
        BY <1>1, <1>2, <1>3, <1>5, StoreStep DEF IInv, files
    <2>2. /\ pc' \in Labels /\ after' \in Labels
          /\ VisitOK' /\ CallOK' /\ CleanupOK'
        BY <1>5, CalmStep DEF PersistThen
    <2>3. TypeOK' /\ ValuesOK'
        BY <1>1, <2>1, <2>2 DEF IInv, TypeOK, ValuesOK, world, files
    <2> QED BY <2>1, <2>2, <2>3 DEF IInv
<1>6. CASE /\ call.then = "cleanup" /\ Goto("cleanup") /\ UNCHANGED after
           /\ \E q \in {r, None} : Store(job.key, q)
    <2>1. /\ managed' \in [Keys -> Record \cup {None}] /\ RecordsOK'
          /\ \A j \in Keys : j # job.key => managed'[j] = managed[j]
        BY <1>1, <1>2, <1>3, <1>6, StoreStep DEF IInv, files
    <2>2. TypeOK' /\ ValuesOK'
        BY <1>1, <1>6, <2>1
           DEF IInv, TypeOK, ValuesOK, Goto, Labels, world, files
    <2>3. VisitOK' /\ CallOK'
        BY <1>1, <1>6 DEF IInv, VisitOK, CallOK, Phase, Visiting, Transacting,
               Restoring, Goto
    <2>4. CleanupOK'
        BY <1>1, <1>6, <2>1 DEF IInv, CleanupOK, Restoring, Managed, Goto
    <2> QED BY <2>1, <2>2, <2>3, <2>4 DEF IInv
<1> QED BY <1>4, <1>5, <1>6 DEF EndRestore, Kept

\* The handling of an application that failed preserves the invariant.
LEMMA RefusedStep ==
    ASSUME IInv, Refused
    PROVE  IInv'
<1>1. TypeOK'
    BY JournalAssumption DEF IInv, TypeOK, Labels, Job, Call, Refused, Opens,
           Store, PersistThen, Fault, Goto, world, files
<1>2. ValuesOK'
    BY DEF IInv, TypeOK, ValuesOK, Refused, Opens, Store, PersistThen, Fault,
           Goto, world, files
<1>3. RecordsOK'
    BY DEF IInv, TypeOK, RecordsOK, Refused, Opens, Store, PersistThen, Fault,
           Goto, world, files
<1>4. VisitOK'
    BY DEF IInv, TypeOK, VisitOK, Phase, Transacting, Restoring, Visiting,
           Refused, Opens, Store, PersistThen, Fault, Goto, world, files
<1>5. CallOK'
    BY DEF IInv, TypeOK, CallOK, VisitOK, Phase, Visiting, Restoring,
           Transacting, Refused, Opens, Store, PersistThen, Fault, Goto,
           world, files
<1>6. CleanupOK'
    BY DEF IInv, TypeOK, CleanupOK, Restoring, Managed, VisitOK, Phase,
           Visiting, Transacting, Refused, Opens, Store, PersistThen, Fault,
           Goto, world, files
<1> QED BY <1>1, <1>2, <1>3, <1>4, <1>5, <1>6 DEF IInv

\* Blocking what an outsider changed under a transaction preserves the
\* invariant.
LEMMA LostStep ==
    ASSUME IInv, Lost
    PROVE  IInv'
<1> DEFINE r == managed[job.key]
<1>1. /\ job.key \in Keys /\ r \in Record
      /\ job.prior \in Mask /\ job.prior \cap r.blocked = {}
    <2>1. Phase = "lost"
        BY DEF Lost, Phase
    <2> QED BY <2>1, VisitedRecord
            DEF Visiting, Transacting, IInv, VisitOK, TypeOK, Job
<1>2. PICK holder \in Keys :
          /\ Opens(job.key, holder)
          /\ Store(job.key, AfterLoss(r, cur[holder]))
    BY DEF Lost
<1> DEFINE current == cur[holder]
           changed == OverrideMask(r.applied, current, r.own)
           q == AfterLoss(r, current)
<1>3. current \in State
    BY <1>2, OpensBorn DEF IInv
<1>4. changed \in SUBSET Props
    BY <1>1 DEF OverrideMask, Record, Mask
<1>5. q \in Record /\ Loadable(q)
    <2>1. CASE job.fresh
        <3>1. q = [NewRecord(current) EXCEPT !.blocked = changed]
            BY <2>1 DEF AfterLoss
        <3> HIDE DEF current, changed, q
        <3> QED BY <1>3, <1>4, <3>1 DEF NewRecord, Record, Mask, Loadable
    <2>2. CASE ~ job.fresh
        <3> DEFINE back == [r EXCEPT !.own = job.prior]
                   calm == Quiet(back)
        <3>1. back \in Record /\ back.own \cap back.blocked = {}
            BY <1>1 DEF Record
        <3>2. /\ calm \in Record /\ Loadable(calm) /\ calm.pending = None
              /\ calm.own \cap calm.blocked = {} /\ calm.pendingOwn = NoMask
            BY <3>1, QuietLoadable DEF Loadable
        <3>3. /\ Relinquish(calm, current, changed) \in Record
              /\ Loadable(Relinquish(calm, current, changed))
            BY <1>3, <1>4, <3>2, RelinquishLoadable
        <3>4. q = Rebase(Relinquish(calm, current, changed), current)
            BY <2>2 DEF AfterLoss
        <3> QED BY <1>3, <3>3, <3>4, RebaseKeeps, RebaseLoadable
    <2> QED BY <2>1, <2>2
<1>6. managed' \in [Keys -> Record \cup {None}] /\ RecordsOK'
    BY <1>1, <1>2, <1>5, StoreStep DEF Lost, IInv, files
<1>7. /\ pc' \in Labels /\ after' \in Labels
      /\ VisitOK' /\ CallOK' /\ CleanupOK'
    BY CalmStep DEF Lost, PersistThen
<1>8. streak' \in [Keys -> 0 .. ClearSamples]
    <2>1. streak' = [streak EXCEPT ![job.key] = 0]
        BY DEF Lost
    <2>2. streak \in [Keys -> 0 .. ClearSamples] /\ 0 \in 0 .. ClearSamples
        BY DEF IInv, TypeOK, ClearSamples
    <2> QED BY <2>1, <2>2
<1>9. TypeOK' /\ ValuesOK'
    BY <1>6, <1>7, <1>8 DEF IInv, TypeOK, ValuesOK, Lost, world, files
<1> QED BY <1>6, <1>7, <1>9 DEF IInv

\* Taking up the next record of a cleanup preserves the invariant.
LEMMA CleanupNextStep ==
    ASSUME IInv, NEW k \in Keys, CleanupNext(k)
    PROVE  IInv'
<1> DEFINE r == managed[k]
<1>1. r \in Record /\ Loadable(r)
    BY DEF CleanupNext, IInv, TypeOK, RecordsOK, CleanupOK, Managed
<1>2. job' \in Job /\ job'.key = k
    <2>1. job' = [NoJob EXCEPT !.key = k]
        BY DEF CleanupNext
    <2> QED BY <2>1, IdleTypes DEF Job, NoJob
<1>3. /\ pc = "cleanup" /\ todo' = todo \ {k}
      /\ UNCHANGED <<world, files, after, leaving, streak, budget, spent>>
    BY DEF CleanupNext
<1>4. CASE Store(k, None) /\ UNCHANGED <<pc, call>>
    <2>1. /\ managed' \in [Keys -> Record \cup {None}] /\ RecordsOK'
          /\ \A j \in Keys : j # k => managed'[j] = managed[j]
        BY <1>3, <1>4, StoreStep DEF IInv, files
    <2>2. TypeOK' /\ ValuesOK'
        BY <1>2, <1>3, <1>4, <2>1 DEF IInv, TypeOK, ValuesOK, world, files
    <2>3. VisitOK' /\ CallOK'
        BY <1>3, <1>4 DEF IInv, VisitOK, CallOK, Phase, Visiting, Transacting,
               Restoring
    <2>4. CleanupOK'
        BY <1>3, <1>4, <2>1 DEF IInv, CleanupOK, Restoring, Managed
    <2> QED BY <2>1, <2>2, <2>3, <2>4 DEF IInv
<1>5. CASE AskRestore(r, r.pending, "cleanup") /\ UNCHANGED managed
    <2>1. /\ call' \in Call /\ pc' = "open" /\ pc' \in Labels
          /\ call'.then = "cleanup" /\ call'.own = r.own
          /\ call'.original \in State /\ call'.applied \in State
          /\ call'.unrestored = {} /\ call'.external = {}
        BY <1>1, <1>5, AskRestoreCall DEF Record
    <2>2. TypeOK' /\ ValuesOK' /\ RecordsOK'
        BY <1>2, <1>3, <1>5, <2>1
           DEF IInv, TypeOK, ValuesOK, RecordsOK, world, files
    <2>3. VisitOK'
        BY <1>1, <1>2, <1>3, <1>5, <2>1, JournalAssumption
           DEF IInv, VisitOK, Phase, Visiting, Transacting, Restoring
    <2>4. CallOK'
        BY <1>2, <1>5, <2>1 DEF CallOK, Restoring
    <2>5. CleanupOK'
        BY <1>2, <1>3, <1>5, <2>1 DEF IInv, CleanupOK, Restoring, Managed
    <2> QED BY <2>2, <2>3, <2>4, <2>5 DEF IInv
<1> QED BY <1>4, <1>5 DEF CleanupNext

-----------------------------------------------------------------------------
\* The service starts stopped, without records.
LEMMA InitHolds == Init => IInv
<1> SUFFICES ASSUME Init PROVE IInv
    OBVIOUS
<1>1. /\ disk \in [Keys -> Record \cup {None}]
      /\ managed \in [Keys -> Record \cup {None}]
      /\ cur \in [Keys -> State \cup {None}]
      /\ base \in [Keys -> State \cup {None}]
      /\ streak \in [Keys -> 0 .. ClearSamples]
    BY DEF Init, ClearSamples
<1>2. budget \in 0 .. MaxMutations
    BY JournalAssumption DEF Init
<1>3. spent \in [faults : 0 .. MaxFaults, crashes : 0 .. MaxCrashes,
                 writes : 0 .. MaxWrites]
    BY JournalAssumption DEF Init
<1>4. TypeOK
    BY <1>1, <1>2, <1>3, IdleTypes DEF Init, TypeOK, Labels
<1>5. ValuesOK /\ RecordsOK
    BY DEF Init, ValuesOK, RecordsOK
<1>6. VisitOK /\ CallOK /\ CleanupOK
    BY DEF Init, VisitOK, CallOK, CleanupOK, Phase, Visiting, Transacting,
           Restoring
<1> QED BY <1>4, <1>5, <1>6 DEF IInv

\* Every step of the environment and of the controller thread preserves it.
LEMMA NextPreserves == IInv /\ [Next]_vars => IInv'
<1> SUFFICES ASSUME IInv, [Next]_vars PROVE IInv'
    OBVIOUS
<1>1. CASE Environment
    BY <1>1, BirthStep, ExitStep, OutsiderWritesStep, CrashStep, StopStep,
           EnableStep, DisableStep
       DEF Environment
<1>2. CASE Reconcile
    BY <1>2, VisitStep, EndTickStep, QueryFailsStep, RequeryFailsStep,
       ResolveStep,
           ExamineStep, LetGoStep, UpdateStep, AdoptStep, DeclineStep,
           RefusedStep, LostStep, LostQueryFailsStep
       DEF Reconcile
<1>3. CASE PlatformCall
    BY <1>3, OpenApplyStep, ApplyRefusedStep, SetPropertyStep, VerifyStep,
           MismatchStep, BeginRollbackStep, OpenRestoreStep,
           RestoreRefusedStep, QueryMemoryStep, QueryMemoryFailsStep,
           SkipPropertyStep, RestorePropertyStep,
           RestorePropertyFailsStep, RestorePropertyGoneStep,
           RestoreRaceStep, EndRestoreStep
       DEF PlatformCall
<1>4. CASE Start \/ TickInactive \/ Tick \/ Cleanup \/ Persist \/ PersistFails
    BY <1>4, StartStep, TickInactiveStep, TickStep, CleanupNextStep,
           EndCleanupStep, PersistStep, PersistFailsStep
       DEF Cleanup
<1>5. CASE UNCHANGED vars
    <2>1. TypeOK' /\ ValuesOK'
        BY <1>5 DEF IInv, TypeOK, ValuesOK, vars, world, files, thread
    <2>2. RecordsOK' /\ VisitOK'
        BY <1>5 DEF IInv, RecordsOK, VisitOK, Phase, vars, world, files, thread
    <2>3. CallOK' /\ CleanupOK'
        BY <1>5 DEF IInv, CallOK, CleanupOK, Managed, vars, world, files,
                    thread
    <2> QED BY <2>1, <2>2, <2>3 DEF IInv
<1> QED BY <1>1, <1>2, <1>3, <1>4, <1>5 DEF Next, Controller

\* The invariant holds in every reachable state of the service.
THEOREM InvariantHolds == Spec => []IInv
<1>1. Init => IInv
    BY InitHolds
<1>2. IInv /\ [Next]_vars => IInv'
    BY NextPreserves
<1> QED BY <1>1, <1>2, PTL DEF Spec

\* The variables of the controller keep their types.
THEOREM TypeCorrect == Spec => []TypeOK
<1>1. IInv => TypeOK
    BY DEF IInv
<1> QED BY <1>1, InvariantHolds, PTL

\* Whatever crashes, fails, exits or is written by others in between, the
\* journal on disk is one load_background_state accepts, so the service can
\* always be started again and restore what it owns.
THEOREM AlwaysLoadable == Spec => []JournalLoadable
<1>1. IInv => JournalLoadable
    BY DEF IInv, RecordsOK, JournalLoadable, Managed
<1> QED BY <1>1, InvariantHolds, PTL
-----------------------------------------------------------------------------
(***************************************************************************)
(* What is blocked stays untouched and blocked, by FocusOK.                *)
(***************************************************************************)

\* Where the thread relies on nothing but the records.
CalmPhases == {"stopped", "idle", "scan", "resolve", "examine", "reexamine",
               "refused", "cleanup"}

\* A step to such a place, except for the handling of a failure, or to the
\* decision about a process.
LEMMA CalmFocus ==
    ASSUME Phase' \in (CalmPhases \ {"refused"}) \cup {"decide"}
    PROVE  FocusOK'
<1>1. /\ Phase' \notin Transacting
      /\ pc' \notin {"adopt", "set", "verify", "rollback"}
      /\ pc' \notin Restoring
    BY DEF CalmPhases, Phase, Restoring, Transacting
<1> QED BY <1>1 DEF FocusOK, Undoing, GivingBack, Asked, Restoring

\* A step of somebody else.
LEMMA SameFocus ==
    ASSUME FocusOK, UNCHANGED <<pc, after, managed, job, call>>
    PROVE  FocusOK'
BY DEF FocusOK, Phase, Visited, Undoing, GivingBack, Asked

\* A step within a transaction, before or after its platform calls.
LEMMA TransactFocus ==
    ASSUME FocusOK, Phase \in Transacting \/ Undoing,
           pc' \in {"apply", "lost", "refused"},
           UNCHANGED <<managed, job>>
    PROVE  FocusOK'
BY DEF FocusOK, Phase, Visited, Undoing, GivingBack, Asked, Restoring

\* A step within an application.
LEMMA ApplyFocus ==
    ASSUME FocusOK, pc \in {"set", "verify"},
           pc' \in {"set", "verify", "rollback"},
           call'.target = call.target, call'.left \subseteq call.left,
           pc' = "set" => pc = "set",
           UNCHANGED <<managed, job>>
    PROVE  FocusOK'
BY DEF FocusOK, Phase, Visited, Undoing, GivingBack, Asked, Restoring,
       Transacting

\* A step within a restore.
LEMMA RestoreFocusStep ==
    ASSUME FocusOK, pc \in Asked, pc' \in Asked,
           call'.target = call.target, call'.then = call.then,
           UNCHANGED <<managed, job>>
    PROVE  FocusOK'
BY DEF FocusOK, Phase, Visited, Undoing, GivingBack, Asked, Restoring,
       Transacting

\* The request for a restore.
LEMMA AskRestoreFocus ==
    ASSUME NEW r, NEW pending, NEW then, AskRestore(r, pending, then),
           then # "rollback", then = "veto" => job'.verdict # "clear"
    PROVE  FocusOK'
<1>1. pc' = "open" /\ call'.then = then
    BY DEF AskRestore, NoCall, Goto
<1> QED BY <1>1 DEF FocusOK, Phase, Undoing, GivingBack, Asked, Transacting

\* The loop takes up a process: only one without a record is adopted.
LEMMA VisitFocus ==
    ASSUME NEW k \in Keys, NEW verdict \in Verdicts, NEW policy \in Policies,
           Visit(k, verdict, policy)
    PROVE  FocusOK'
<1>1. /\ managed' = managed /\ job'.key = k
      /\ pc' = IF managed[k] = None THEN "adopt"
               ELSE IF managed[k].pending # None THEN "resolve" ELSE "examine"
    BY DEF Visit, Goto, NoJob
<1> QED BY <1>1 DEF FocusOK, Phase, Visited, Undoing, GivingBack, Asked,
                    Restoring, Transacting

\* The transaction that enters the records is not fresh or has no blocks.
LEMMA IntendFocus ==
    ASSUME TypeOK, job.key \in Keys, NEW r \in Record, NEW desired, NEW mask,
           NEW fresh, Intend(r, desired, mask, fresh),
           fresh => r.blocked = {}
    PROVE  FocusOK'
<1> DEFINE q == Pending(r, desired, mask)
<1>1. q.blocked = r.blocked
    BY DEF Pending, Record
<1> HIDE DEF q
<1>2. /\ managed' = [managed EXCEPT ![job.key] = q] /\ job'.key = job.key
      /\ job'.fresh = fresh /\ pc' = "persist" /\ after' = "apply"
    BY DEF Intend, Store, PersistThen, TypeOK, Job, q
<1>3. Visited' = q
    BY <1>2 DEF Visited, TypeOK
<1> QED BY <1>1, <1>2, <1>3 DEF FocusOK, Phase, Undoing, GivingBack, Asked,
                    Restoring, Transacting

\* An update of a record keeps it or starts a transaction that is not fresh.
LEMMA UpdateFocus ==
    ASSUME IInv, Update
    PROVE  FocusOK'
<1> DEFINE r == Rebase(managed[job.key], job.seen)
<1>1. /\ job.key \in Keys /\ r \in Record
    <2>1. Phase = "decide"
        BY DEF Update, Phase
    <2> QED BY <2>1, VisitedRecord, RebaseKeeps DEF Visiting, IInv, VisitOK
<1>2. CASE Goto("scan")
    BY <1>2, CalmFocus DEF Goto, Phase, CalmPhases
<1>3. CASE \E desired, mask : Intend(r, desired, mask, FALSE)
    <2> HIDE DEF r
    <2> QED BY <1>1, <1>3, IntendFocus DEF IInv
<1> QED BY <1>2, <1>3 DEF Update

\* A fresh transaction is one of a record without blocks.
LEMMA AdoptFocus ==
    ASSUME IInv, Adopt
    PROVE  FocusOK'
<1>1. job.key \in Keys
    BY DEF Adopt, IInv, VisitOK
<1>2. CASE Goto("scan")
    BY <1>2, CalmFocus DEF Goto, Phase, CalmPhases
<1>3. CASE \E holder \in Keys : \E desired, mask :
              /\ Opens(job.key, holder)
              /\ Intend(NewRecord(cur[holder]), desired, mask, TRUE)
    <2>1. PICK holder \in Keys : \E desired, mask :
              /\ Opens(job.key, holder)
              /\ Intend(NewRecord(cur[holder]), desired, mask, TRUE)
        BY <1>3
    <2>2. NewRecord(cur[holder]) \in Record
          /\ NewRecord(cur[holder]).blocked = {}
        BY <2>1, OpensBorn, NewRecordType DEF IInv
    <2> DEFINE r == NewRecord(cur[holder])
    <2>3. r \in Record /\ r.blocked = {}
        BY <2>2
    <2>4. PICK desired, mask : Intend(r, desired, mask, TRUE)
        BY <2>1
    <2> HIDE DEF r
    <2> QED BY <1>1, <2>3, <2>4, IntendFocus DEF IInv
<1> QED BY <1>2, <1>3 DEF Adopt

\* The application is opened for the process visited, with what it owns.
LEMMA OpenApplyFocus ==
    ASSUME IInv, FocusOK, OpenApply
    PROVE  FocusOK'
<1>1. /\ pc = "apply" /\ Phase \in Transacting /\ UNCHANGED <<managed, job>>
    BY DEF OpenApply, Phase, Transacting
<1>2. CASE Goto("lost")
    BY <1>1, <1>2, TransactFocus DEF Goto
<1>3. CASE /\ \E holder \in Keys :
                 /\ Opens(job.key, holder)
                 /\ call'.target = holder /\ call'.left = Visited.own
           /\ Goto("set")
    <2>1. call'.target = job.key /\ call'.left = Visited.own /\ pc' = "set"
        BY <1>3 DEF Opens, Verified, Goto
    <2> QED BY <1>1, <2>1 DEF FocusOK, Phase, Visited, Undoing, GivingBack,
               Asked, Restoring
<1> QED BY <1>2, <1>3 DEF OpenApply, NoCall, Visited

\* The properties left to set become fewer.
LEMMA SetPropertyFocus ==
    ASSUME IInv, FocusOK, SetProperty
    PROVE  FocusOK'
<1>1. /\ pc = "set" /\ pc' \in {"set", "verify", "rollback"}
      /\ UNCHANGED <<managed, job>>
      /\ call'.target = call.target /\ call'.left \subseteq call.left
    BY DEF SetProperty, Goto, IInv, TypeOK, Call
<1> QED BY <1>1, ApplyFocus

\* A mismatch changes nothing but where the thread goes.
LEMMA MismatchFocus ==
    ASSUME FocusOK, Mismatch
    PROVE  FocusOK'
<1>1. /\ pc = "verify" /\ pc' = "rollback" /\ UNCHANGED <<managed, job, call>>
    BY DEF Mismatch, Goto
<1> QED BY <1>1, ApplyFocus

\* A rollback restores the process the application was opened for.
LEMMA BeginRollbackFocus ==
    ASSUME IInv, FocusOK, BeginRollback
    PROVE  FocusOK'
<1>1. pc = "rollback" /\ Phase \in Transacting /\ UNCHANGED <<managed, job>>
    BY DEF BeginRollback, Phase, Transacting
<1>2. CASE Observing(call.target, "rollback")
    <2>1. /\ call'.target = call.target /\ call'.then = "rollback"
          /\ pc' \in {"restore", "requery"}
        BY <1>2 DEF Observing, Goto, IInv, TypeOK, Call
    <2> QED BY <1>1, <2>1 DEF FocusOK, Phase, Visited, Undoing, GivingBack,
               Asked, Restoring, Transacting
<1>3. CASE Goto("refused")
    BY <1>1, <1>3, TransactFocus DEF Goto
<1> QED BY <1>2, <1>3 DEF BeginRollback

\* A restore is opened for the process visited.
LEMMA OpenRestoreFocus ==
    ASSUME IInv, FocusOK, OpenRestore
    PROVE  FocusOK'
<1>1. /\ pc = "open" /\ UNCHANGED <<managed, job>>
      /\ call'.target = job.key /\ call'.then = call.then
      /\ pc' \in {"restore", "requery"}
    BY DEF OpenRestore, Observing, Opens, Verified, Goto, IInv, TypeOK, Call
<1> QED BY <1>1 DEF FocusOK, Phase, Visited, Undoing, GivingBack, Asked,
                    Restoring, Transacting

\* A note on one property leaves the call at the same process.
LEMMA NoteFocus ==
    ASSUME IInv, FocusOK, pc \in {"restore", "requery"},
           NEW p, NEW seen, NEW unrestored, NEW external,
           Note(p, seen, unrestored, external), UNCHANGED <<managed, job>>
    PROVE  FocusOK'
<1>1. /\ call'.target = call.target /\ call'.then = call.then
      /\ pc' \in {"report", "requery"}
    BY DEF Note, Goto, IInv, TypeOK, Call
<1> QED BY <1>1, RestoreFocusStep DEF Asked

\* The steps of a restore keep to what the thread works on.
LEMMA RestoringFocus ==
    ASSUME IInv, FocusOK,
           \/ QueryMemory \/ QueryMemoryFails \/ SkipProperty
           \/ RestoreProperty \/ RestorePropertyFails \/ RestorePropertyGone
           \/ RestoreRace
    PROVE  FocusOK'
<1>1. CASE QueryMemory
    <2>1. /\ pc = "requery" /\ pc' = "restore"
          /\ call'.target = call.target /\ call'.then = call.then
          /\ UNCHANGED <<managed, job>>
        BY <1>1 DEF QueryMemory, Goto, IInv, TypeOK, Call
    <2> QED BY <2>1, RestoreFocusStep DEF Asked
<1>2. CASE QueryMemoryFails
    <2>1. /\ pc \in {"restore", "requery"} /\ UNCHANGED <<managed, job>>
          /\ \E p, seen, u, x : Note(p, seen, u, x)
        BY <1>2 DEF QueryMemoryFails
    <2> QED BY <2>1, NoteFocus
<1>3. CASE SkipProperty
    <2>1. /\ pc \in {"restore", "requery"} /\ UNCHANGED <<managed, job>>
          /\ \E p, seen, u, x : Note(p, seen, u, x)
        BY <1>3 DEF SkipProperty
    <2> QED BY <2>1, NoteFocus
<1>4. CASE RestoreProperty
    <2>1. /\ pc \in {"restore", "requery"} /\ UNCHANGED <<managed, job>>
          /\ \E p, seen, u, x : Note(p, seen, u, x)
        BY <1>4 DEF RestoreProperty, Due
    <2> QED BY <2>1, NoteFocus
<1>5. CASE RestorePropertyFails
    <2>1. /\ pc \in {"restore", "requery"} /\ UNCHANGED <<managed, job>>
          /\ \E p, seen, u, x : Note(p, seen, u, x)
        BY <1>5 DEF RestorePropertyFails, Due
    <2> QED BY <2>1, NoteFocus
<1>6. CASE RestorePropertyGone
    <2>1. /\ pc \in {"restore", "requery"} /\ UNCHANGED <<managed, job>>
          /\ \E p, seen, u, x : Note(p, seen, u, x)
        BY <1>6 DEF RestorePropertyGone, Due
    <2> QED BY <2>1, NoteFocus
<1>7. CASE RestoreRace
    <2>1. /\ pc \in {"restore", "requery"} /\ UNCHANGED <<managed, job>>
          /\ \E p, seen, u, x : Note(p, seen, u, x)
        BY <1>7 DEF RestoreRace, Due
    <2> QED BY <2>1, NoteFocus
<1> QED BY <1>1, <1>2, <1>3, <1>4, <1>5, <1>6, <1>7

\* The steps that ask for a restore, or take up the next process.
LEMMA AskingFocus ==
    ASSUME IInv, Resolve \/ LetGo \/ \E k \in Keys : CleanupNext(k)
    PROVE  FocusOK'
<1>1. CASE Resolve
    <2>1. CASE \E r, pending : AskRestore(r, pending, "recover")
        BY <2>1, AskRestoreFocus
    <2>2. CASE pc' = "persist" /\ after' \in {"scan", "reexamine"}
        BY <2>2, CalmFocus DEF Phase, CalmPhases
    <2> QED BY <1>1, <2>1, <2>2 DEF Resolve, PersistThen
<1>2. CASE LetGo
    <2>1. CASE \E r : AskRestore(r, None, "veto")
        <3>1. job'.verdict # "clear"
            BY <1>2 DEF LetGo
        <3> QED BY <2>1, <3>1, AskRestoreFocus
    <2>2. CASE PersistThen("scan")
        BY <2>2, CalmFocus DEF PersistThen, Phase, CalmPhases
    <2> QED BY <1>2, <2>1, <2>2 DEF LetGo
<1>3. ASSUME NEW k \in Keys, CleanupNext(k) PROVE FocusOK'
    <2>1. CASE \E r, pending : AskRestore(r, pending, "cleanup")
        BY <2>1, AskRestoreFocus
    <2>2. CASE UNCHANGED pc
        BY <1>3, <2>2, CalmFocus DEF CleanupNext, Phase, CalmPhases
    <2> QED BY <1>3, <2>1, <2>2 DEF CleanupNext
<1> QED BY <1>1, <1>2, <1>3

\* The steps after which the thread relies on the records alone.
LEMMA CalmActions ==
    ASSUME \/ Crash \/ Stop \/ Enable \/ Disable \/ Start \/ TickInactive
           \/ Tick \/ EndTick \/ QueryFails \/ RequeryFails \/ Examine
           \/ Decline \/ Verify \/ RestoreRefused \/ Refused \/ Lost
           \/ LostQueryFails \/ EndCleanup \/ PersistFails
    PROVE  Phase' \in (CalmPhases \ {"refused"}) \cup {"decide"}
<1>1. CASE Crash \/ Start \/ PersistFails
    BY <1>1 DEF Crash, Start, PersistFails, Goto, EnterCleanup, Rest, Phase,
                CalmPhases
<1>2. CASE Stop \/ Enable \/ Disable \/ TickInactive
    BY <1>2 DEF Stop, Enable, Disable, TickInactive, CommandFails,
                EnterCleanup, Rest, Phase, CalmPhases
<1>3. CASE Tick
    BY <1>3 DEF Tick, Goto, PersistThen, Phase, CalmPhases
<1>4. CASE EndTick \/ QueryFails \/ RequeryFails \/ Decline
    BY <1>4 DEF EndTick, QueryFails, RequeryFails, Decline, Goto, PersistThen,
                Phase, CalmPhases
<1>5. CASE Examine \/ Verify \/ RestoreRefused \/ Refused
    BY <1>5 DEF Examine, Verify, RestoreRefused, Refused, Goto, PersistThen,
                Phase, CalmPhases
<1>6. CASE Lost \/ LostQueryFails \/ EndCleanup
    BY <1>6 DEF Lost, LostQueryFails, EndCleanup, Rest, Goto, PersistThen,
                Phase, CalmPhases
<1> QED BY <1>1, <1>2, <1>3, <1>4, <1>5, <1>6

\* The written journal changes nothing the thread works on.
LEMMA PersistFocus ==
    ASSUME IInv, FocusOK, Persist
    PROVE  FocusOK'
<1>1. /\ pc = "persist" /\ pc' = after /\ Phase' = after /\ Phase = after
      /\ UNCHANGED <<managed, job>>
    <2>1. after # "persist"
        BY DEF IInv, VisitOK
    <2> QED BY <2>1 DEF Persist, Goto, Phase
<1>2. CASE after = "apply"
    BY <1>1, <1>2, TransactFocus DEF Transacting
<1>3. CASE after # "apply"
    <2>1. after \in (CalmPhases \ {"refused"}) \cup {"decide"}
        BY <1>3 DEF IInv, VisitOK, CalmPhases
    <2> QED BY <1>1, <2>1, CalmFocus
<1> QED BY <1>2, <1>3

\* After a restore the thread goes on with the failed application it undid,
\* or with the records alone.
LEMMA EndRestoreFocus ==
    ASSUME FocusOK, EndRestore
    PROVE  FocusOK'
<1>1. pc = "report" /\ job' = job
    BY DEF EndRestore
<1>2. CASE call.then = "rollback" /\ Goto("refused") /\ UNCHANGED managed
    BY <1>1, <1>2, TransactFocus DEF Goto, Undoing, Asked
<1>3. CASE PersistThen("scan") \/ Goto("cleanup")
    BY <1>3, CalmFocus DEF PersistThen, Goto, Phase, CalmPhases
<1> QED BY <1>2, <1>3 DEF EndRestore

\* A refused application is left to the handling of its failure.
LEMMA ApplyRefusedFocus ==
    ASSUME FocusOK, ApplyRefused
    PROVE  FocusOK'
<1>1. /\ pc = "apply" /\ pc' = "refused" /\ UNCHANGED <<managed, job>>
    BY DEF ApplyRefused, Goto
<1> QED BY <1>1, TransactFocus DEF Phase, Transacting

\* The service starts with nothing under way.
LEMMA InitFocus == Init => FocusOK
BY DEF Init, FocusOK, Phase, Undoing, GivingBack, Asked, Restoring, Transacting

\* Every step keeps to the process and the properties the thread works on.
LEMMA NextFocus ==
    ASSUME IInv, FocusOK, [Next]_vars
    PROVE  FocusOK'
<1>1. CASE Environment
    <2>1. CASE \/ \E k \in Keys : Birth(k) \/ Exit(k)
               \/ \E k \in Keys, p \in Props : \E v \in Choices[p] :
                     OutsiderWrites(k, p, v)
        BY <2>1, SameFocus DEF Birth, Exit, OutsiderWrites, thread
    <2>2. CASE Crash \/ Stop \/ Enable \/ Disable
        BY <2>2, CalmActions, CalmFocus
    <2> QED BY <1>1, <2>1, <2>2 DEF Environment
<1>2. CASE Reconcile
    <2>1. CASE \/ EndTick \/ QueryFails \/ RequeryFails \/ Examine \/ Decline
               \/ Refused \/ Lost \/ LostQueryFails
        BY <2>1, CalmActions, CalmFocus
    <2>2. CASE \E k \in Keys, verdict \in Verdicts, policy \in Policies :
                  Visit(k, verdict, policy)
        BY <2>2, VisitFocus
    <2> QED BY <1>2, <2>1, <2>2, AskingFocus, UpdateFocus, AdoptFocus
            DEF Reconcile
<1>3. CASE PlatformCall
    <2>1. CASE Verify \/ RestoreRefused
        BY <2>1, CalmActions, CalmFocus
    <2> QED BY <1>3, <2>1, OpenApplyFocus, ApplyRefusedFocus,
               SetPropertyFocus, MismatchFocus, BeginRollbackFocus,
               OpenRestoreFocus, RestoringFocus,
               EndRestoreFocus
            DEF PlatformCall
<1>4. CASE Start \/ TickInactive \/ Tick \/ Cleanup \/ Persist \/ PersistFails
    <2>1. CASE \/ Start \/ TickInactive \/ Tick \/ PersistFails \/ EndCleanup
        BY <2>1, CalmActions, CalmFocus
    <2> QED BY <1>4, <2>1, AskingFocus, PersistFocus DEF Cleanup
<1>5. CASE UNCHANGED vars
    BY <1>5, SameFocus DEF vars, thread
<1> QED BY <1>1, <1>2, <1>3, <1>4, <1>5 DEF Next, Controller

\* The thread keeps to the process it visits and to the properties the record
\* of that process owns, in every reachable state.
THEOREM KeepsFocus == Spec => [](IInv /\ FocusOK)
<1>1. Init => IInv /\ FocusOK
    BY InitHolds, InitFocus
<1>2. (IInv /\ FocusOK) /\ [Next]_vars => (IInv /\ FocusOK)'
    BY NextPreserves, NextFocus
<1> QED BY <1>1, <1>2, PTL DEF Spec

-----------------------------------------------------------------------------
\* The process of a key is found exactly while it runs.
LEMMA OpensItself ==
    ASSUME IInv, NEW k \in Keys
    PROVE  /\ \A holder : Opens(k, holder) => holder = k /\ k \in alive
           /\ Gone(k) => k \notin alive
BY DEF Opens, Gone, Verified, IInv, TypeOK

\* The steps that write no property of a process that runs.
LEMMA NothingWritten ==
    ASSUME IInv, [Next]_vars, ~ SetProperty, ~ RestoreProperty,
           ~ RestorePropertyFails, ~ RestoreRace,
           ~ \E k \in Keys, p \in Props : \E v \in Choices[p] :
                OutsiderWrites(k, p, v)
    PROVE  \A k \in alive : cur'[k] = cur[k]
<1>1. ASSUME NEW k \in Keys, Birth(k) PROVE \A j \in alive : cur'[j] = cur[j]
    BY <1>1 DEF Birth, IInv, TypeOK
<1>2. CASE \/ \E k \in Keys : Exit(k)
           \/ Crash \/ Stop \/ Enable \/ Disable
    BY <1>2 DEF Exit, Crash, Stop, Enable, Disable, world
<1>3. CASE Reconcile
    <2>1. CASE \/ \E k \in Keys, verdict \in Verdicts, policy \in Policies :
                     Visit(k, verdict, policy)
               \/ EndTick \/ QueryFails \/ RequeryFails \/ Resolve \/ Examine
        BY <2>1 DEF Visit, EndTick, QueryFails, RequeryFails, Resolve, Examine,
               world
    <2>2. CASE LetGo \/ Update \/ Adopt \/ Decline \/ Refused \/ Lost
               \/ LostQueryFails
        BY <2>2 DEF LetGo, Update, Adopt, Decline, Refused, Lost,
               LostQueryFails, world
    <2> QED BY <1>3, <2>1, <2>2 DEF Reconcile
<1>4. CASE \/ OpenApply \/ ApplyRefused \/ Verify \/ Mismatch \/ BeginRollback
           \/ OpenRestore \/ RestoreRefused \/ QueryMemory
    BY <1>4 DEF OpenApply, ApplyRefused, Verify, Mismatch, BeginRollback,
           OpenRestore, RestoreRefused, QueryMemory, world
<1>5. CASE \/ QueryMemoryFails \/ SkipProperty \/ RestorePropertyGone
           \/ EndRestore
    BY <1>5 DEF QueryMemoryFails, SkipProperty, RestorePropertyGone,
           EndRestore, world
<1>6. CASE Start \/ TickInactive \/ Tick \/ Cleanup \/ Persist \/ PersistFails
    BY <1>6 DEF Start, TickInactive, Tick, Cleanup, CleanupNext, EndCleanup,
           Persist, PersistFails, world
<1>7. CASE UNCHANGED vars
    BY <1>7 DEF vars, world
<1> QED BY <1>1, <1>2, <1>3, <1>4, <1>5, <1>6, <1>7
        DEF Next, Environment, Controller, PlatformCall

\* A write to a property the record owns touches nothing that is blocked.
LEMMA PutUnblocked ==
    ASSUME IInv, call.target = job.key, Phase \in Visiting,
           NEW p \in managed[job.key].own, NEW v, Put(p, v)
    PROVE  \A k \in alive, q \in Props :
               Blocks(managed, k, q) => cur'[k][q] = cur[k][q]
<1>1. /\ job.key \in Keys
      /\ managed[job.key].own \cap managed[job.key].blocked = {}
    BY VisitedRecord DEF Loadable
<1>2. SUFFICES ASSUME NEW k \in alive, NEW q \in Props, Blocks(managed, k, q)
               PROVE  cur'[k][q] = cur[k][q]
    OBVIOUS
<1>3. k \in Keys /\ cur[k] \in State
    BY DEF IInv, TypeOK, ValuesOK
<1>4. k = job.key => q # p
    BY <1>1, <1>2 DEF Blocks
<1> QED BY <1>1, <1>3, <1>4 DEF Put, IInv, TypeOK, State

\* The writes of the thread go to properties the record owns.
LEMMA WritesOwned ==
    ASSUME IInv, FocusOK,
           SetProperty \/ RestoreProperty \/ RestorePropertyFails
    PROVE  /\ call.target = job.key /\ Phase \in Visiting
           /\ cur' = cur \/ \E p \in managed[job.key].own : \E v : Put(p, v)
<1>1. CASE SetProperty
    <2>1. pc = "set" /\ call.left \in Mask /\ call.left # {}
        BY <1>1 DEF SetProperty, IInv, TypeOK, CallOK, Call
    <2>2. NextProp(call.left) \in managed[job.key].own
        BY <2>1, NextPropLeft DEF FocusOK, Visited
    <2>3. cur' = cur \/ \E v : Put(NextProp(call.left), v)
        BY <1>1 DEF SetProperty
    <2>4. call.target = job.key /\ Phase \in Visiting
        BY <2>1 DEF FocusOK, Phase, Visiting, Transacting
    <2> QED BY <2>2, <2>3, <2>4
<1>2. CASE RestoreProperty \/ RestorePropertyFails
    <2>1. \E p \in Props : /\ Due(p)
                           /\ cur' = cur \/ \E v : Put(p, v)
        BY <1>2 DEF RestoreProperty, RestorePropertyFails
    <2>2. PICK p \in Props : Due(p) /\ (cur' = cur \/ \E v : Put(p, v))
        BY <2>1
    <2>3. pc = "restore" /\ p \in call.own
        BY <2>2 DEF Due, Mine
    <2>4. /\ call.target = job.key /\ Phase \in Visiting
          /\ call.own = managed[job.key].own
        BY <2>3 DEF FocusOK, Asked, Phase, Visiting, Restoring, IInv, CallOK
    <2> QED BY <2>2, <2>3, <2>4
<1> QED BY <1>1, <1>2

\* A property that is blocked is not written by the service: whatever the
\* tick, the policy or the cleanup does to the other property, only an
\* outsider's own write changes its value.
THEOREM BlockedStaysUntouched == Spec => BlockedUntouched
<1>1. ASSUME IInv, FocusOK, [Next]_vars,
             NEW k \in alive, NEW p \in Props,
             Blocks(managed, k, p), spent'.writes = spent.writes
      PROVE  cur'[k][p] = cur[k][p]
    <2>1. CASE SetProperty \/ RestoreProperty \/ RestorePropertyFails
        <3>1. CASE cur' = cur
            BY <3>1
        <3>2. CASE \E q \in managed[job.key].own : \E v : Put(q, v)
            BY <1>1, <2>1, <3>2, WritesOwned, PutUnblocked
        <3> QED BY <1>1, <2>1, <3>1, <3>2, WritesOwned
    <2>2. ~ RestoreRace /\ ~ \E j \in Keys, q \in Props : \E v \in Choices[q] :
                                  OutsiderWrites(j, q, v)
        <3>1. spent.writes \in Nat /\ spent'.writes # spent.writes + 1
            BY <1>1, JournalAssumption DEF IInv, TypeOK
        <3>2. [spent EXCEPT !.writes = @ + 1].writes = spent.writes + 1
            BY <1>1 DEF IInv, TypeOK
        <3> QED BY <3>1, <3>2 DEF RestoreRace, OutsiderWrites
    <2> QED BY <1>1, <2>1, <2>2, NothingWritten
<1>2. IInv /\ FocusOK /\ [Next]_vars =>
          [\A k \in alive, p \in Props :
              /\ pc # "stopped" /\ Blocks(managed, k, p)
              /\ spent'.writes = spent.writes
              => cur'[k][p] = cur[k][p]]_vars
    BY <1>1
<1> QED BY <1>2, KeepsFocus, PTL DEF Spec, BlockedUntouched

\* What the service does to a record of a running process keeps its blocks.
KeepsBlocks(k) ==
    \A p \in Props : Blocks(managed, k, p) => Blocks(managed', k, p)

\* Storing a record that blocks no less keeps every block.
LEMMA StoreBlocks ==
    ASSUME TypeOK, NEW k \in Keys, NEW n, Store(k, n),
           managed[k] # None /\ managed[k].blocked # {} =>
               n # None /\ managed[k].blocked \subseteq n.blocked
    PROVE  \A j \in Keys : KeepsBlocks(j)
<1>1. /\ managed'[k] = n
      /\ \A j \in Keys : j # k => managed'[j] = managed[j]
    BY DEF Store, TypeOK
<1> QED BY <1>1 DEF KeepsBlocks, Blocks

\* Forgetting a process that does not run keeps the blocks of those that do.
LEMMA ForgetBlocks ==
    ASSUME IInv, NEW k \in Keys, Gone(k), Store(k, None)
    PROVE  \A j \in alive : KeepsBlocks(j)
<1>1. k \notin alive /\ alive \subseteq Keys
    BY OpensItself DEF IInv, TypeOK
<1>2. \A j \in Keys : j # k => managed'[j] = managed[j]
    BY DEF Store, IInv, TypeOK
<1> QED BY <1>1, <1>2 DEF KeepsBlocks, Blocks

\* The updates of a record that block no less than it did.
LEMMA UpdatesBlock ==
    ASSUME NEW r \in Record, NEW s \in State
    PROVE  /\ Rebase(r, s).blocked = r.blocked
           /\ Resolved(r, s).blocked = r.blocked
           /\ Applied(r, s).blocked = r.blocked
           /\ \A desired, mask : Pending(r, desired, mask).blocked = r.blocked
           /\ \A changed \in SUBSET Props :
                 r.blocked \subseteq Relinquish(r, s, changed).blocked
           /\ \A report : r.blocked \subseteq Reported(r, report).blocked
<1>1. Rebase(r, s).blocked = r.blocked
    BY RebaseKeeps
<1>2. Resolved(r, s).blocked = r.blocked
    BY DEF Resolved, Rebase, Quiet, Record
<1>3. Applied(r, s).blocked = r.blocked
    BY DEF Applied, Rebase, Quiet, Record
<1>4. \A desired, mask : Pending(r, desired, mask).blocked = r.blocked
    BY DEF Pending, Record
<1>5. \A changed \in SUBSET Props :
          r.blocked \subseteq Relinquish(r, s, changed).blocked
    BY DEF Relinquish, Record
<1>6. \A report : r.blocked \subseteq Reported(r, report).blocked
    BY DEF Reported
<1> QED BY <1>1, <1>2, <1>3, <1>4, <1>5, <1>6

\* A tick forgets only processes that have exited.
LEMMA TickBlocks ==
    ASSUME IInv, Tick
    PROVE  \A j \in alive : KeepsBlocks(j)
<1>1. PICK opaque \in SUBSET alive :
          LET live == alive \ opaque
              dead == {k \in Managed(managed) \ live :
                          \A j \in opaque : PidOf[j] # PidOf[k]}
          IN  managed' = [k \in Keys |-> IF k \in dead THEN None
                                         ELSE managed[k]]
    BY DEF Tick
<1>2. \A j \in alive : managed'[j] = managed[j]
    BY <1>1 DEF IInv, TypeOK
<1> QED BY <1>2 DEF KeepsBlocks, Blocks

\* A resolved transaction keeps the blocks of its record.
LEMMA ResolveBlocks ==
    ASSUME IInv, Resolve
    PROVE  \A j \in alive : KeepsBlocks(j)
<1> DEFINE r == managed[job.key]
<1>1. job.key \in Keys /\ r \in Record /\ alive \subseteq Keys
    <2>1. Phase \in Visiting
        BY DEF Resolve, Phase, Visiting
    <2> QED BY <2>1, VisitedRecord DEF IInv, TypeOK
<1>2. CASE managed' = managed
    BY <1>2 DEF KeepsBlocks, Blocks
<1>3. ASSUME NEW holder \in Keys, Opens(job.key, holder),
             Store(job.key, Resolved(r, cur[holder]))
      PROVE  \A j \in alive : KeepsBlocks(j)
    <2>1. Resolved(r, cur[holder]).blocked = r.blocked
        BY <1>1, <1>3, OpensBorn, UpdatesBlock DEF IInv
    <2>2. Resolved(r, cur[holder]) # None
        <3>1. Phase = "resolve" /\ pc = "resolve"
            BY DEF Resolve, Phase
        <3>2. Resolved(r, cur[holder]) \in Record
            BY <1>1, <1>3, <3>1, OpensBorn, VisitedRecord, ResolvedLoadable
               DEF IInv, VisitOK, Visiting
        <3> QED BY <3>2, JournalAssumption
    <2> DEFINE n == Resolved(r, cur[holder])
    <2>3. n # None /\ n.blocked = r.blocked /\ Store(job.key, n)
        BY <1>3, <2>1, <2>2
    <2> HIDE DEF n
    <2> QED BY <1>1, <2>3, StoreBlocks DEF IInv
<1> QED BY <1>2, <1>3 DEF Resolve

\* Giving up a property adds a block.
LEMMA ExamineBlocks ==
    ASSUME IInv, Examine
    PROVE  \A j \in alive : KeepsBlocks(j)
<1> DEFINE r == managed[job.key]
<1>1. /\ job.key \in Keys /\ r \in Record /\ alive \subseteq Keys
      /\ Loadable(r) /\ r.pending = None
    <2>1. Phase \in Visiting /\ Phase \in {"examine", "reexamine"}
        BY DEF Examine, Phase, Visiting
    <2> QED BY <2>1, VisitedRecord DEF IInv, TypeOK, VisitOK
<1>2. CASE managed' = managed
    BY <1>2 DEF KeepsBlocks, Blocks
<1>3. ASSUME NEW holder \in Keys, Opens(job.key, holder),
             Store(job.key, Relinquish(r, cur[holder],
                               OverrideMask(r.applied, cur[holder], r.own)))
      PROVE  \A j \in alive : KeepsBlocks(j)
    <2> DEFINE changed == OverrideMask(r.applied, cur[holder], r.own)
               n == Relinquish(r, cur[holder], changed)
    <2>1. cur[holder] \in State /\ changed \in SUBSET Props
        BY <1>1, <1>3, OpensBorn DEF IInv, OverrideMask, Record, Mask
    <2>2. Store(job.key, n)
        BY <1>3
    <2> HIDE DEF changed
    <2>3. r.blocked \subseteq n.blocked
        BY <1>1, <2>1, UpdatesBlock
    <2>4. n # None
        <3>1. n \in Record
            BY <1>1, <2>1, RelinquishLoadable DEF Loadable
        <3> QED BY <3>1, JournalAssumption
    <2> HIDE DEF n
    <2> QED BY <1>1, <2>2, <2>3, <2>4, StoreBlocks DEF IInv
<1> QED BY <1>2, <1>3 DEF Examine

\* Letting go of a process forgets its blocks only when no rule applies.
LEMMA KeptBlocks ==
    ASSUME IInv, job.key \in Keys, NEW n, n # None, Store(job.key, Kept(n)),
           managed[job.key] # None =>
               managed[job.key].blocked \subseteq n.blocked,
           job.verdict = "veto"
    PROVE  \A j \in Keys : KeepsBlocks(j)
<1>1. n.blocked # {} => Kept(n) = n
    BY DEF Kept, Retained
<1> QED BY <1>1, StoreBlocks DEF IInv

\* The record of a process that may not be managed keeps its blocks, unless
\* no rule applies any more.
LEMMA LetGoBlocks ==
    ASSUME IInv, LetGo
    PROVE  \A j \in alive :
              KeepsBlocks(j) \/ (job.key = j /\ job.verdict = "off")
<1>1. /\ job.key \in Keys /\ managed[job.key] # None /\ alive \subseteq Keys
      /\ job.verdict \in {"veto", "off"}
    <2>1. Phase \in Visiting
        BY DEF LetGo, Phase, Visiting
    <2> QED BY <2>1, VisitedRecord DEF IInv, TypeOK, Job, Verdicts, LetGo
<1>2. CASE managed' = managed
    BY <1>2 DEF KeepsBlocks, Blocks
<1>3. CASE Store(job.key, Kept(managed[job.key]))
    <2>1. CASE job.verdict = "veto"
        BY <1>1, <1>3, <2>1, KeptBlocks
    <2>2. CASE job.verdict = "off"
        <3>1. \A j \in Keys : j # job.key => managed'[j] = managed[j]
            BY <1>3 DEF Store, IInv, TypeOK
        <3> QED BY <1>1, <2>2, <3>1 DEF KeepsBlocks, Blocks
    <2> QED BY <1>1, <2>1, <2>2
<1> QED BY <1>2, <1>3 DEF LetGo

\* An update keeps the blocks.
LEMMA UpdateBlocks ==
    ASSUME IInv, Update
    PROVE  \A j \in alive : KeepsBlocks(j)
<1> DEFINE r == managed[job.key]
           m == Rebase(r, job.seen)
<1>1. /\ job.key \in Keys /\ r \in Record /\ alive \subseteq Keys
      /\ job.seen \in State
    <2>1. Phase \in Visiting /\ Phase = "decide"
        BY DEF Update, Phase, Visiting
    <2> QED BY <2>1, VisitedRecord DEF IInv, TypeOK, VisitOK
<1>2. m \in Record /\ m # None /\ m.blocked = r.blocked
    <2>1. m \in Record /\ m.blocked = r.blocked
        BY <1>1, RebaseKeeps
    <2> QED BY <2>1, JournalAssumption
<1>3. CASE managed' = managed
    BY <1>3 DEF KeepsBlocks, Blocks
<1>4. CASE Store(job.key, m)
    <2> HIDE DEF m
    <2> QED BY <1>1, <1>2, <1>4, StoreBlocks DEF IInv
<1>5. CASE \E desired, mask : Intend(m, desired, mask, FALSE)
    <2> HIDE DEF m
    <2>1. PICK desired, mask : Intend(m, desired, mask, FALSE)
        BY <1>5
    <2> DEFINE n == Pending(m, desired, mask)
    <2>2. Store(job.key, n) /\ n.blocked = r.blocked
        BY <1>1, <1>2, <2>1, UpdatesBlock DEF Intend
    <2> HIDE DEF n
    <2>3. n # None
        <3>1. managed'[job'.key] # None /\ job'.key = job.key
            <4>1. /\ Phase' = "apply" /\ IInv'
                  /\ job' = [job EXCEPT !.prior = m.own, !.fresh = FALSE]
                BY <2>1, UpdateStep DEF Intend, PersistThen, Phase
            <4> QED BY <4>1 DEF IInv, TypeOK, Job, VisitOK, Visiting,
                       Transacting
        <3>2. managed'[job.key] = n
            BY <1>1, <2>2 DEF Store, IInv, TypeOK
        <3> QED BY <3>1, <3>2
    <2> QED BY <1>1, <2>2, <2>3, StoreBlocks DEF IInv
<1> QED BY <1>3, <1>4, <1>5 DEF Update

\* A process that is adopted had no record.
LEMMA AdoptBlocks ==
    ASSUME IInv, FocusOK, Adopt
    PROVE  \A j \in alive : KeepsBlocks(j)
<1>1. pc = "adopt" /\ managed[job.key] = None /\ alive \subseteq Keys
    BY DEF Adopt, FocusOK, Visited, IInv, TypeOK
<1>2. \A j \in Keys : j # job.key => managed'[j] = managed[j]
    BY DEF Adopt, Intend, Store, IInv, TypeOK
<1> QED BY <1>1, <1>2 DEF KeepsBlocks, Blocks

\* A verified transaction keeps the blocks.
LEMMA VerifyBlocks ==
    ASSUME IInv, Verify
    PROVE  \A j \in alive : KeepsBlocks(j)
<1> DEFINE r == managed[job.key]
           n == Applied(r, cur[call.target])
<1>1. /\ job.key \in Keys /\ r \in Record /\ Loadable(r) /\ r.pending # None
      /\ cur[call.target] \in State /\ alive \subseteq Keys
    <2>1. Phase \in Visiting /\ Phase = "verify" /\ pc = "verify"
        BY DEF Verify, Phase, Visiting, Transacting
    <2> QED BY <2>1, VisitedRecord DEF IInv, TypeOK, ValuesOK, VisitOK, CallOK,
               Transacting
<1>2. n.blocked = r.blocked /\ n # None /\ Store(job.key, n)
    <2>1. n \in Record
        BY <1>1, AppliedLoadable
    <2>2. n.blocked = r.blocked /\ Store(job.key, n)
        BY <1>1, UpdatesBlock DEF Verify
    <2> QED BY <2>1, <2>2, JournalAssumption
<1> HIDE DEF n
<1> QED BY <1>1, <1>2, StoreBlocks DEF IInv

\* A report adds blocks; the record goes with a cleanup or when no rule
\* applies any more.
LEMMA EndRestoreBlocks ==
    ASSUME IInv, FocusOK, EndRestore
    PROVE  \A j \in alive :
              \/ KeepsBlocks(j)
              \/ call.then = "cleanup"
              \/ job.key = j /\ job.verdict = "off"
<1> DEFINE r == managed[job.key]
           q == Reported(r, call)
<1>1. /\ pc = "report" /\ job.key \in Keys /\ r \in Record
      /\ alive \subseteq Keys /\ job.verdict \in {"clear", "veto", "off"}
    <2>1. pc = "report" /\ Phase \in Visiting
        BY DEF EndRestore, Phase, Visiting, Restoring
    <2> QED BY <2>1, VisitedRecord DEF IInv, TypeOK, Job, Verdicts
<1>2. r.blocked \subseteq q.blocked
    BY DEF Reported
<1>3. q # None
    <2>1. q \in Record
        BY <1>1, VisitedRecord, ReportedLoadable
           DEF IInv, CallOK, TypeOK, Call, Mask, Restoring, Phase, Visiting
    <2> QED BY <2>1, JournalAssumption
<1> HIDE DEF q
<1>4. CASE managed' = managed
    BY <1>4 DEF KeepsBlocks, Blocks
<1>5. CASE Store(job.key, q)
    BY <1>1, <1>2, <1>3, <1>5, StoreBlocks DEF IInv
<1>6. CASE call.then = "veto" /\ Store(job.key, Kept(q))
    <2>1. job.verdict # "clear"
        BY <1>1, <1>6 DEF FocusOK, GivingBack, Restoring
    <2>2. CASE job.verdict = "veto"
        BY <1>1, <1>2, <1>3, <1>6, <2>2, KeptBlocks
    <2>3. CASE job.verdict = "off"
        <3>1. \A j \in Keys : j # job.key => managed'[j] = managed[j]
            BY <1>6 DEF Store, IInv, TypeOK
        <3> QED BY <1>1, <2>3, <3>1 DEF KeepsBlocks, Blocks
    <2> QED BY <1>1, <2>1, <2>2, <2>3
<1>7. CASE call.then = "cleanup"
    BY <1>7
<1> QED BY <1>4, <1>5, <1>6, <1>7 DEF EndRestore, q

\* A new record that is dropped has no blocks.
LEMMA RefusedBlocks ==
    ASSUME IInv, FocusOK, Refused
    PROVE  \A j \in alive : KeepsBlocks(j)
<1>1. /\ pc = "refused" /\ Phase \in Transacting /\ Phase \in Visiting
      /\ alive \subseteq Keys
    BY DEF Refused, Phase, Transacting, Visiting, IInv, TypeOK
<1>2. CASE managed' = managed
    BY <1>2 DEF KeepsBlocks, Blocks
<1>3. CASE job.fresh /\ Store(job.key, None)
    BY <1>1, <1>3, VisitedRecord, StoreBlocks DEF FocusOK, Visited, IInv
<1> QED BY <1>2, <1>3 DEF Refused

\* What an outsider changed under a transaction adds blocks.
LEMMA LostBlocks ==
    ASSUME IInv, FocusOK, Lost
    PROVE  \A j \in alive : KeepsBlocks(j)
<1> DEFINE r == managed[job.key]
<1>1. /\ pc = "lost" /\ Phase \in Transacting /\ job.key \in Keys
      /\ r \in Record /\ Loadable(r) /\ alive \subseteq Keys
      /\ job.prior \in Mask /\ job.prior \cap r.blocked = {}
    <2>1. Phase = "lost" /\ pc = "lost"
        BY DEF Lost, Phase
    <2> QED BY <2>1, VisitedRecord
            DEF Visiting, Transacting, IInv, VisitOK, TypeOK, Job
<1>2. PICK holder \in Keys :
          Opens(job.key, holder) /\ Store(job.key, AfterLoss(r, cur[holder]))
    BY DEF Lost
<1> DEFINE n == AfterLoss(r, cur[holder])
           changed == OverrideMask(r.applied, cur[holder], r.own)
<1>3. cur[holder] \in State /\ changed \in SUBSET Props
    BY <1>1, <1>2, OpensBorn DEF IInv, OverrideMask, Record, Mask
<1>4. CASE job.fresh
    <2>1. r.blocked = {}
        BY <1>1, <1>4 DEF FocusOK, Visited
    <2>2. Store(job.key, n)
        BY <1>2
    <2> HIDE DEF n
    <2> QED BY <1>1, <2>1, <2>2, StoreBlocks DEF IInv
<1>5. CASE ~ job.fresh
    <2> DEFINE calm == Quiet([r EXCEPT !.own = job.prior])
               m == Relinquish(calm, cur[holder], changed)
    <2>1. /\ calm \in Record /\ Loadable(calm) /\ calm.pending = None
          /\ calm.pendingOwn = NoMask /\ calm.own \cap calm.blocked = {}
          /\ calm.blocked = r.blocked
        <3> DEFINE back == [r EXCEPT !.own = job.prior]
        <3>1. /\ back \in Record /\ back.own \cap back.blocked = {}
              /\ back.blocked = r.blocked
            BY <1>1 DEF Record
        <3> HIDE DEF back
        <3>2. /\ Quiet(back) \in Record /\ Loadable(Quiet(back))
              /\ Quiet(back).pending = None
              /\ Quiet(back).own = back.own
              /\ Quiet(back).blocked = back.blocked
            BY <3>1, QuietLoadable
        <3> QED BY <3>1, <3>2 DEF back, Loadable
    <2> HIDE DEF calm, changed
    <2>2. m \in Record /\ r.blocked \subseteq m.blocked
        BY <1>3, <2>1, RelinquishLoadable, UpdatesBlock
    <2>3. n = Rebase(m, cur[holder])
        BY <1>5 DEF AfterLoss, calm, changed
    <2> HIDE DEF m
    <2>4. n \in Record /\ n.blocked = m.blocked
        BY <1>3, <2>2, <2>3, RebaseKeeps
    <2>5. Store(job.key, n) /\ n # None
        BY <1>2, <2>4, JournalAssumption
    <2> HIDE DEF n
    <2> QED BY <1>1, <2>2, <2>4, <2>5, StoreBlocks DEF IInv
<1> QED BY <1>4, <1>5

\* The steps that change no record of a running process.
LEMMA RecordsKept ==
    ASSUME IInv, FocusOK, [Next]_vars, pc \notin {"stopped", "cleanup"},
           ~ Crash, ~ Tick, ~ QueryFails, ~ Resolve, ~ Examine, ~ LetGo,
           ~ Update, ~ Adopt, ~ Verify, ~ RestoreRefused, ~ EndRestore,
           ~ Refused, ~ Lost
    PROVE  managed' = managed
<1>1. CASE Environment
    <2>1. CASE \/ \E k \in Keys : Birth(k) \/ Exit(k)
               \/ \E k \in Keys, p \in Props : \E v \in Choices[p] :
                     OutsiderWrites(k, p, v)
        BY <2>1 DEF Birth, Exit, OutsiderWrites, thread
    <2>2. CASE Stop \/ Enable \/ Disable
        BY <2>2 DEF Stop, Enable, Disable
    <2> QED BY <1>1, <2>1, <2>2 DEF Environment
<1>2. CASE Reconcile
    <2>1. CASE \E k \in Keys, verdict \in Verdicts, policy \in Policies :
                  Visit(k, verdict, policy)
        BY <2>1 DEF Visit
    <2>2. CASE EndTick \/ RequeryFails \/ Decline \/ LostQueryFails
        BY <2>2 DEF EndTick, RequeryFails, Decline, LostQueryFails
    <2> QED BY <1>2, <2>1, <2>2 DEF Reconcile
<1>3. CASE PlatformCall
    <2>1. CASE \/ OpenApply \/ ApplyRefused \/ SetProperty \/ Mismatch
               \/ BeginRollback \/ OpenRestore \/ QueryMemory
        BY <2>1 DEF OpenApply, ApplyRefused, SetProperty, Mismatch,
               BeginRollback, OpenRestore, QueryMemory
    <2>2. CASE \/ QueryMemoryFails \/ SkipProperty \/ RestoreProperty
               \/ RestorePropertyFails \/ RestorePropertyGone \/ RestoreRace
        BY <2>2 DEF QueryMemoryFails, SkipProperty, RestoreProperty,
               RestorePropertyFails, RestorePropertyGone, RestoreRace
    <2> QED BY <1>3, <2>1, <2>2 DEF PlatformCall
<1>4. CASE Start \/ TickInactive \/ Cleanup \/ Persist \/ PersistFails
    BY <1>4 DEF Start, TickInactive, Cleanup, CleanupNext, EndCleanup, Persist,
           PersistFails
<1>5. CASE UNCHANGED vars
    BY <1>5 DEF vars, thread
<1> QED BY <1>1, <1>2, <1>3, <1>4, <1>5 DEF Next, Controller

\* Every step keeps the blocks of a running process, but for the ends the
\* property names.
LEMMA NextBlocks ==
    ASSUME IInv, FocusOK, [Next]_vars, NEW k \in alive
    PROVE  \/ KeepsBlocks(k)
           \/ pc \in {"stopped", "cleanup"} \/ pc' = "stopped"
           \/ pc \in {"open", "report"} /\ call.then = "cleanup"
           \/ job.key = k /\ job.verdict = "off"
<1>1. CASE Crash
    BY <1>1 DEF Crash, Goto
<1>2. CASE Tick
    BY <1>2, TickBlocks
<1>3. CASE QueryFails \/ RestoreRefused
    <2>1. pc \in Visiting /\ Phase \in Visiting
        BY <1>3 DEF QueryFails, RestoreRefused, Phase, Visiting, Restoring
    <2>2. CASE managed' = managed
        BY <2>2 DEF KeepsBlocks, Blocks
    <2>3. CASE Gone(job.key) /\ Store(job.key, None)
        BY <2>1, <2>3, VisitedRecord, ForgetBlocks
    <2> QED BY <1>3, <2>2, <2>3 DEF QueryFails, RestoreRefused, Store
<1>4. CASE Resolve \/ Examine \/ LetGo \/ Update \/ Adopt
    BY <1>4, ResolveBlocks, ExamineBlocks, LetGoBlocks, UpdateBlocks,
       AdoptBlocks
<1>5. CASE Verify \/ Refused \/ Lost
    BY <1>5, VerifyBlocks, RefusedBlocks, LostBlocks
<1>6. CASE EndRestore
    <2>1. pc = "report"
        BY <1>6 DEF EndRestore
    <2> QED BY <1>6, <2>1, EndRestoreBlocks
<1>7. CASE managed' = managed
    BY <1>7 DEF KeepsBlocks, Blocks
<1> QED BY <1>1, <1>2, <1>3, <1>4, <1>5, <1>6, <1>7, RecordsKept

\* A block an outsider's write set up outlives vetoes and clear samples: it
\* ends by a cleanup, with the service, or because no rule applies any more.
THEOREM BlocksOutliveVetoes == Spec => BlockSurvivesVeto
<1>1. IInv /\ FocusOK /\ [Next]_vars =>
          [\A k \in alive, p \in Props :
              /\ Blocks(managed, k, p) /\ ~ Blocks(managed', k, p)
              => \/ pc \in {"stopped", "cleanup"} \/ pc' = "stopped"
                 \/ pc \in {"open", "report"} /\ call.then = "cleanup"
                 \/ job.key = k /\ job.verdict = "off"]_vars
    BY NextBlocks DEF KeepsBlocks
<1> QED BY <1>1, KeepsFocus, PTL DEF Spec, BlockSurvivesVeto


-----------------------------------------------------------------------------
(***************************************************************************)
(* Written ahead, by AheadInv.                                             *)
(***************************************************************************)

\* The values of a record that owns property p, and of one that does not.
LEMMA OwnValuesIs ==
    ASSUME NEW r \in Record, NEW p \in Props
    PROVE  OwnValues(r, p) =
              IF p \notin r.own THEN {}
              ELSE IF r.pending = None THEN {r.applied[p]}
              ELSE {r.applied[p], r.pending[p]}
BY JournalAssumption DEF OwnValues

\* The absent record, and one that owns nothing, are honest exactly about an
\* unchanged process.
LEMMA HonestNone ==
    ASSUME NEW r \in Record, r.own = {}, NEW c, NEW b
    PROVE  /\ Honest(r, c, b) <=> \A p \in Props : c[p] = b[p]
           /\ Honest(None, c, b) <=> \A p \in Props : c[p] = b[p]
BY DEF Honest, OwnValues

\* A first record of an unchanged process is sound and honest.
LEMMA NewRecordAhead ==
    ASSUME NEW c \in State, NEW b, NEW blocked \in Mask,
           \A p \in Props : c[p] = b[p]
    PROVE  LET q == [NewRecord(c) EXCEPT !.blocked = blocked] IN
           q \in Record /\ Sound(q) /\ Honest(q, c, b)
<1> DEFINE q == [NewRecord(c) EXCEPT !.blocked = blocked]
<1>1. /\ q \in Record /\ q.own = {} /\ q.pending = None
      /\ q.original = c /\ q.applied = c
    BY NewRecordType DEF NewRecord, Record
<1> HIDE DEF q
<1>2. Honest(q, c, b)
    BY <1>1, HonestNone
<1>3. Sound(q)
    BY <1>1 DEF Sound
<1> QED BY <1>1, <1>2, <1>3 DEF q

\* The fields of a rebased record.
LEMMA RebaseFields ==
    ASSUME NEW r \in Record, NEW seen \in State
    PROVE  LET q == Rebase(r, seen) IN
           /\ q \in Record
           /\ q.own = r.own /\ q.pending = r.pending
           /\ q.pendingOwn = r.pendingOwn /\ q.blocked = r.blocked
           /\ \A p \in Props :
                 /\ q.original[p] = IF p \in r.own THEN r.original[p]
                                    ELSE seen[p]
                 /\ q.applied[p] = IF p \in r.own THEN r.applied[p]
                                   ELSE seen[p]
<1> DEFINE q == Rebase(r, seen)
           o == Overlay(r.original, Props \ r.own, seen)
           a == Overlay(r.applied, Props \ r.own, seen)
<1>1. q.original = o /\ q.applied = a
    BY DEF Rebase, Record
<1>2. \A p \in Props :
          /\ o[p] = IF p \in r.own THEN r.original[p] ELSE seen[p]
          /\ a[p] = IF p \in r.own THEN r.applied[p] ELSE seen[p]
    BY DEF Overlay
<1> HIDE DEF o, a
<1> QED BY <1>1, <1>2, RebaseKeeps

\* Rebasing changes nothing the records say of the processes.
LEMMA RebaseAhead ==
    ASSUME NEW r \in Record, NEW seen \in State, Sound(r) \/ r.pending = None
    PROVE  /\ Rebase(r, seen) \in Record
           /\ Sound(Rebase(r, seen))
           /\ \A c, b : Honest(r, c, b) => Honest(Rebase(r, seen), c, b)
<1> DEFINE q == Rebase(r, seen)
<1>1. /\ q \in Record
      /\ q.own = r.own /\ q.pending = r.pending
      /\ q.pendingOwn = r.pendingOwn
      /\ \A p \in Props :
            /\ q.original[p] = IF p \in r.own THEN r.original[p] ELSE seen[p]
            /\ q.applied[p] = IF p \in r.own THEN r.applied[p] ELSE seen[p]
    BY RebaseFields
<1> HIDE DEF q
<1>2. Sound(q)
    BY <1>1 DEF Sound, Record, Mask
<1>3. ASSUME NEW c, NEW b, Honest(r, c, b) PROVE Honest(q, c, b)
    <2>1. ASSUME NEW p \in Props
          PROVE  /\ OwnValues(q, p) = OwnValues(r, p)
                 /\ p \in r.own => q.original[p] = r.original[p]
                 /\ p \notin r.own => OwnValues(q, p) = {}
        <3>1. OwnValues(q, p) =
                  IF p \notin q.own THEN {}
                  ELSE IF q.pending = None THEN {q.applied[p]}
                  ELSE {q.applied[p], q.pending[p]}
            BY <1>1, OwnValuesIs
        <3>2. OwnValues(r, p) =
                  IF p \notin r.own THEN {}
                  ELSE IF r.pending = None THEN {r.applied[p]}
                  ELSE {r.applied[p], r.pending[p]}
            BY OwnValuesIs
        <3> QED BY <1>1, <3>1, <3>2
    <2> QED BY <1>3, <2>1 DEF Honest
<1> QED BY <1>1, <1>2, <1>3 DEF q

\* The record of a transaction that took effect is sound and honest.
LEMMA AppliedAhead ==
    ASSUME NEW r \in Record, Loadable(r), r.pending # None, Sound(r),
           NEW c \in State, NEW b, Honest(r, c, b),
           Matches(r.own, r.pending, c),
           NEW q \in Record, q.own = r.pendingOwn, q.pending = None,
           q.original = r.original, q.applied = c
    PROVE  /\ Rebase(q, c) \in Record /\ Sound(Rebase(q, c))
           /\ Honest(Rebase(q, c), c, b)
<1> DEFINE n == Rebase(q, c)
<1>1. /\ n \in Record
      /\ n.own = r.pendingOwn /\ n.pending = None
      /\ \A p \in Props :
            /\ n.original[p] = IF p \in q.own THEN r.original[p] ELSE c[p]
            /\ n.applied[p] = IF p \in q.own THEN c[p] ELSE c[p]
    BY RebaseFields
<1> HIDE DEF n
<1>2. r.pendingOwn \subseteq r.own
    BY DEF Sound
<1>3. Sound(n)
    BY <1>1 DEF Sound
<1>4. ASSUME NEW p \in Props
      PROVE  /\ c[p] # b[p] => c[p] \in OwnValues(n, p)
             /\ c[p] \in OwnValues(n, p) => n.original[p] = b[p]
    <2>1. p \in r.own => c[p] = r.pending[p]
        BY DEF Matches
    <2>2. p \in r.own => c[p] \in OwnValues(r, p) /\ r.original[p] = b[p]
        BY <2>1, OwnValuesIs DEF Honest
    <2>3. p \notin r.own => c[p] = b[p]
        BY OwnValuesIs DEF Honest
    <2>4. p \in r.own \ r.pendingOwn => c[p] = b[p]
        BY <2>1, <2>2 DEF Sound
    <2>5. OwnValues(n, p) = IF p \notin r.pendingOwn THEN {} ELSE {c[p]}
        BY <1>1, OwnValuesIs
    <2> QED BY <1>1, <1>2, <2>2, <2>3, <2>4, <2>5
<1>5. Honest(n, c, b)
    BY <1>4 DEF Honest
<1> QED BY <1>1, <1>3, <1>5 DEF n

\* The record of a verified transaction is sound and honest.
LEMMA VerifiedAhead ==
    ASSUME NEW r \in Record, Loadable(r), r.pending # None, Sound(r),
           NEW c \in State, NEW b, Honest(r, c, b),
           Matches(r.own, r.pending, c)
    PROVE  /\ Applied(r, c) \in Record /\ Sound(Applied(r, c))
           /\ Honest(Applied(r, c), c, b)
<1> DEFINE e == [r EXCEPT !.applied = c, !.own = r.pendingOwn]
           q == Quiet(e)
<1>1. /\ e \in Record /\ e.own \cap e.blocked = {} /\ e.own = r.pendingOwn
      /\ e.original = r.original /\ e.applied = c
    BY DEF Record, Loadable
<1> HIDE DEF e
<1>2. /\ q \in Record /\ q.pending = None
      /\ q.own = r.pendingOwn /\ q.original = r.original /\ q.applied = c
    BY <1>1, QuietLoadable
<1>3. Applied(r, c) = Rebase(q, c)
    BY DEF Applied, e
<1> HIDE DEF q
<1> QED BY <1>2, <1>3, AppliedAhead

\* The record of a transaction that a query settles is sound and honest.
LEMMA ResolvedAhead ==
    ASSUME NEW r \in Record, Loadable(r), r.pending # None, Sound(r),
           NEW c \in State, NEW b, Honest(r, c, b),
           ~ InDoubt(r, c)
    PROVE  /\ Resolved(r, c) \in Record /\ Sound(Resolved(r, c))
           /\ Honest(Resolved(r, c), c, b)
<1>1. CASE r.own = {}
    <2>1. Resolved(r, c) = Rebase(Quiet(r), c)
        BY <1>1 DEF Resolved
    <2>2. /\ Quiet(r) \in Record /\ Quiet(r).own = {}
          /\ Quiet(r).pending = None
          /\ Quiet(r).original = r.original /\ Quiet(r).applied = r.applied
        BY <1>1, QuietLoadable DEF Loadable
    <2> DEFINE q == Quiet(r)
    <2> HIDE DEF q
    <2>3. Sound(q) /\ Honest(q, c, b)
        BY <1>1, <2>2, HonestNone DEF Sound, q
    <2> QED BY <2>1, <2>2, <2>3, RebaseAhead DEF q
<1>2. CASE r.own # {} /\ Matches(r.own, r.pending, c)
    <2> DEFINE e == [r EXCEPT !.applied = c, !.own = r.pendingOwn]
    <2>1. Resolved(r, c) = Rebase(Quiet(e), c)
        BY <1>2 DEF Resolved
    <2>2. Resolved(r, c) = Applied(r, c)
        BY <2>1 DEF Applied
    <2> QED BY <1>2, <2>2, VerifiedAhead
<1>3. CASE r.own # {} /\ ~ Matches(r.own, r.pending, c)
    <2> DEFINE e == [r EXCEPT
                       !.own = Between(r.original, r.applied) \ r.blocked]
               q == Quiet(e)
    <2>1. Resolved(r, c) = Rebase(q, c)
        BY <1>3 DEF Resolved
    <2>2. /\ e \in Record /\ e.own \cap e.blocked = {}
          /\ e.own = Between(r.original, r.applied) \ r.blocked
          /\ e.original = r.original /\ e.applied = r.applied
        BY DEF Record, Mask, Between
    <2> HIDE DEF e
    <2>3. /\ q \in Record /\ q.pending = None
          /\ q.own = Between(r.original, r.applied) \ r.blocked
          /\ q.original = r.original /\ q.applied = r.applied
        BY <2>2, QuietLoadable
    <2> HIDE DEF q
    <2>4. Matches(r.own, r.applied, c)
        BY <1>3 DEF InDoubt
    <2>5. ASSUME NEW p \in Props
          PROVE  /\ p \in q.own <=> p \in r.own /\ r.original[p] # r.applied[p]
                 /\ p \in r.own => c[p] = r.applied[p] /\ r.original[p] = b[p]
                 /\ p \notin r.own => c[p] = b[p]
        <3>1. p \notin r.own => r.original[p] = r.applied[p]
            BY DEF Sound
        <3>2. p \in r.own => p \notin r.blocked /\ c[p] = r.applied[p]
            BY <2>4 DEF Loadable, Matches
        <3>3. p \in r.own => r.original[p] = b[p]
            BY <3>2, OwnValuesIs DEF Honest
        <3>4. p \notin r.own => c[p] = b[p]
            BY OwnValuesIs DEF Honest
        <3> QED BY <2>3, <3>1, <3>2, <3>3, <3>4 DEF Between
    <2>6. Sound(q)
        BY <2>3, <2>5 DEF Sound
    <2>7. ASSUME NEW p \in Props
          PROVE  /\ c[p] # b[p] => c[p] \in OwnValues(q, p)
                 /\ c[p] \in OwnValues(q, p) => q.original[p] = b[p]
        BY <2>3, <2>5, OwnValuesIs
    <2>8. Honest(q, c, b)
        BY <2>7 DEF Honest
    <2> QED BY <2>1, <2>3, <2>6, <2>8, RebaseAhead
<1> QED BY <1>1, <1>2, <1>3

\* Giving up what an outsider changed leaves the record honest, and what it
\* still owns has the applied value.
LEMMA GivenUpAhead ==
    ASSUME NEW r \in Record, r.pending = None, r.pendingOwn = NoMask,
           r.own \cap r.blocked = {},
           NEW c \in State, NEW b, NEW changed \in Mask,
           \A p \in Props :
              /\ p \in r.own => p \in changed \/ c[p] = r.applied[p]
              /\ c[p] # b[p] => p \in r.own /\ p \notin changed
              /\ p \in r.own \ changed => r.original[p] = b[p]
    PROVE  LET n == Relinquish(r, c, changed) IN
           /\ n \in Record /\ n.pending = None /\ n.own = r.own \ changed
           /\ \A p \in Props : p \in n.own => n.original[p] = b[p]
           /\ Honest(n, c, b)
<1> DEFINE n == Relinquish(r, c, changed)
           o == Overlay(r.original, changed, c)
           a == Overlay(r.applied, changed, c)
<1>1. n \in Record /\ n.pending = None
    BY RelinquishLoadable DEF Mask
<1>2. n.own = r.own \ changed /\ n.original = o /\ n.applied = a
    BY DEF Relinquish, Record
<1>3. \A p \in Props : p \notin changed =>
          o[p] = r.original[p] /\ a[p] = r.applied[p]
    BY DEF Overlay
<1> HIDE DEF n, o, a
<1>4. ASSUME NEW p \in Props
      PROVE  /\ p \in n.own => n.applied[p] = c[p] /\ n.original[p] = b[p]
             /\ p \notin n.own => c[p] = b[p]
    BY <1>2, <1>3
<1>5. ASSUME NEW p \in Props
      PROVE  OwnValues(n, p) = IF p \in n.own THEN {c[p]} ELSE {}
    BY <1>1, <1>4, OwnValuesIs
<1>6. Honest(n, c, b)
    BY <1>4, <1>5 DEF Honest
<1> QED BY <1>1, <1>2, <1>4, <1>6 DEF n

\* The same for a record that is examined.
LEMMA ExaminedAhead ==
    ASSUME NEW r \in Record, Loadable(r), r.pending = None, Sound(r),
           NEW c \in State, NEW b, Honest(r, c, b),
           NEW changed, changed = OverrideMask(r.applied, c, r.own)
    PROVE  LET n == Relinquish(r, c, changed) IN
           /\ n \in Record /\ n.pending = None /\ Sound(n) /\ Honest(n, c, b)
           /\ n.own = r.own \ changed
           /\ \A p \in Props : p \in n.own => n.original[p] = b[p]
<1> DEFINE n == Relinquish(r, c, changed)
<1>1. r.own \in Mask /\ changed \in Mask /\ r.pendingOwn = NoMask
    BY DEF OverrideMask, Record, Mask, Loadable
<1>2. ASSUME NEW p \in Props
      PROVE  /\ p \in r.own => p \in changed \/ c[p] = r.applied[p]
             /\ c[p] # b[p] => p \in r.own /\ p \notin changed
             /\ p \in r.own \ changed => r.original[p] = b[p]
    BY OwnValuesIs DEF OverrideMask, Honest
<1>3. /\ n \in Record /\ n.pending = None /\ n.own = r.own \ changed
      /\ \A p \in Props : p \in n.own => n.original[p] = b[p]
      /\ Honest(n, c, b)
    BY <1>1, <1>2, GivenUpAhead DEF Loadable
<1>4. /\ n.original = Overlay(r.original, changed, c)
      /\ n.applied = Overlay(r.applied, changed, c)
    BY DEF Relinquish, Record
<1>5. ASSUME NEW p \in Props \ n.own PROVE n.original[p] = n.applied[p]
    <2>1. p \notin changed => r.original[p] = r.applied[p]
        BY <1>3, <1>5 DEF Sound
    <2> QED BY <1>4, <2>1 DEF Overlay
<1> HIDE DEF n
<1>6. Sound(n)
    BY <1>3, <1>5 DEF Sound
<1> QED BY <1>3, <1>6 DEF n

\* What the policy does not want to own keeps its original value.
LEMMA DesiredKeeps ==
    ASSUME NEW original \in State, NEW policy, NEW blocked, NEW p \in Props,
           p \notin DesiredOwn(original, policy, blocked), p \notin blocked
    PROVE  Desired(original, policy)[p] = original[p]
BY DEF DesiredOwn, Between, Desired, Target

\* The record of an intended transaction is sound and honest, unless the
\* policy wants a value an outsider has left in a managed property.
LEMMA PendingAhead ==
    ASSUME NEW r \in Record, Loadable(r), r.pending = None, Sound(r),
           NEW policy, NEW desired, desired = Desired(r.original, policy),
           NEW mask, mask = DesiredOwn(r.original, policy, r.blocked),
           r.own \cup mask # {}
    PROVE  LET q == Pending(r, desired, mask) IN
           /\ q \in Record /\ q.applied = r.applied /\ q.own = r.own \cup mask
           /\ Sound(q)
           /\ \A c, b :
                 /\ Honest(r, c, b)
                 /\ \A p \in Props : c[p] = desired[p] => r.original[p] = b[p]
                 => Honest(q, c, b)
<1> DEFINE q == Pending(r, desired, mask)
<1>1. r.original \in State /\ r.own \in Mask /\ r.own \cap r.blocked = {}
    BY DEF Record, Loadable
<1>2. /\ desired \in State /\ mask \in SUBSET Props
      /\ mask \cap r.blocked = {}
    BY <1>1, DesiredType, DesiredOwnType
<1>3. q \in Record
    BY <1>1, <1>2, PendingLoadable
<1>4. /\ q.pending = desired /\ q.pendingOwn = mask
      /\ q.own = r.own \cup mask /\ q.original = r.original
      /\ q.applied = r.applied
    BY DEF Pending, Record
<1>5. ASSUME NEW p \in r.own \ mask PROVE desired[p] = r.original[p]
    <2>1. p \in Props /\ p \notin r.blocked
        BY <1>1 DEF Mask
    <2> QED BY <1>1, <2>1, DesiredKeeps
<1> HIDE DEF q
<1>6. Sound(q)
    BY <1>4, <1>5 DEF Sound
<1>7. ASSUME NEW c, NEW b, Honest(r, c, b),
             \A p \in Props : c[p] = desired[p] => r.original[p] = b[p]
      PROVE  Honest(q, c, b)
    <2>1. ASSUME NEW p \in Props
          PROVE  /\ c[p] # b[p] => c[p] \in OwnValues(q, p)
                 /\ c[p] \in OwnValues(q, p) => q.original[p] = b[p]
        <3>1. OwnValues(r, p) = IF p \in r.own THEN {r.applied[p]} ELSE {}
            BY OwnValuesIs
        <3>2. OwnValues(q, p) = IF p \in r.own \cup mask
                                THEN {r.applied[p], desired[p]} ELSE {}
            BY <1>2, <1>3, <1>4, NoneApart, OwnValuesIs
        <3>3. /\ c[p] # b[p] => p \in r.own /\ c[p] = r.applied[p]
              /\ p \in r.own /\ c[p] = r.applied[p] => r.original[p] = b[p]
            BY <1>7, <3>1 DEF Honest
        <3>4. p \notin r.own => r.original[p] = r.applied[p]
            BY DEF Sound
        <3> QED BY <1>4, <1>7, <3>2, <3>3, <3>4
    <2> QED BY <2>1 DEF Honest
<1> QED BY <1>3, <1>4, <1>6, <1>7 DEF q

\* The record after a restore is sound and honest: what was not restored is
\* recorded with the value the restore has seen.
LEMMA ReportedAhead ==
    ASSUME NEW r \in Record, Loadable(r), Sound(r), NEW report,
           report.observed \in State,
           report.unrestored \subseteq r.own, report.external \subseteq Props,
           report.unrestored \cap report.external = {}
    PROVE  /\ Reported(r, report) \in Record /\ Sound(Reported(r, report))
           /\ \A c, b :
                 /\ Honest(r, c, b)
                 /\ \A p \in Props :
                       /\ c[p] # b[p] => /\ c[p] = report.observed[p]
                                         /\ p \in report.unrestored
                       /\ p \in report.unrestored =>
                             report.observed[p] \in OwnValues(r, p)
                                                      \cup {r.original[p]}
                 => Honest(Reported(r, report), c, b)
<1> DEFINE q == Reported(r, report)
<1>1. q \in Record
    BY ReportedLoadable
<1>2. /\ q.own = report.unrestored /\ q.pending = None
      /\ q.original = Overlay(report.observed, report.unrestored, r.original)
      /\ q.applied = report.observed
    BY DEF Reported
<1>3. \A p \in Props : q.original[p] = IF p \in report.unrestored
                                       THEN r.original[p]
                                       ELSE report.observed[p]
    BY <1>2 DEF Overlay
<1> HIDE DEF q
<1>4. Sound(q)
    BY <1>2, <1>3 DEF Sound
<1>5. ASSUME NEW c, NEW b, Honest(r, c, b),
             \A p \in Props :
                /\ c[p] # b[p] => /\ c[p] = report.observed[p]
                                  /\ p \in report.unrestored
                /\ p \in report.unrestored =>
                      report.observed[p] \in OwnValues(r, p)
                                               \cup {r.original[p]}
      PROVE  Honest(q, c, b)
    <2>1. ASSUME NEW p \in Props
          PROVE  /\ c[p] # b[p] => c[p] \in OwnValues(q, p)
                 /\ c[p] \in OwnValues(q, p) => q.original[p] = b[p]
        <3>1. OwnValues(q, p) = IF p \in report.unrestored
                                THEN {report.observed[p]} ELSE {}
            BY <1>1, <1>2, OwnValuesIs
        <3>2. /\ c[p] # b[p] => c[p] \in OwnValues(r, p)
              /\ c[p] \in OwnValues(r, p) => r.original[p] = b[p]
            BY <1>5 DEF Honest
        <3> QED BY <1>3, <1>5, <3>1, <3>2
    <2> QED BY <2>1 DEF Honest
<1> QED BY <1>1, <1>4, <1>5 DEF q

\* The record after a lost ownership is sound and honest: before the first
\* write only what the transaction found owned is changed.
LEMMA AfterLossAhead ==
    ASSUME TypeOK, NEW r \in Record, Loadable(r), r.pending # None,
           NEW c \in State, NEW b, Honest(r, c, b),
           job.prior \subseteq r.own, job.prior \cap r.blocked = {},
           job.fresh => job.prior = {},
           \A p \in Props : c[p] # b[p] =>
               p \in job.prior /\ c[p] = r.applied[p]
    PROVE  /\ AfterLoss(r, c) \in Record /\ Sound(AfterLoss(r, c))
           /\ Honest(AfterLoss(r, c), c, b)
<1> DEFINE changed == OverrideMask(r.applied, c, r.own)
<1>1. changed \in Mask /\ r.own \in Mask /\ job.prior \in Mask
    BY DEF OverrideMask, Record, Mask, TypeOK, Job
<1>2. CASE job.fresh
    <2>1. AfterLoss(r, c) = [NewRecord(c) EXCEPT !.blocked = changed]
        BY <1>2 DEF AfterLoss
    <2>2. \A p \in Props : c[p] = b[p]
        BY <1>2
    <2> HIDE DEF changed
    <2> QED BY <1>1, <2>1, <2>2, NewRecordAhead
<1>3. CASE ~ job.fresh
    <2> DEFINE e == [r EXCEPT !.own = job.prior]
               q == Quiet(e)
               n == Relinquish(q, c, changed)
    <2>1. AfterLoss(r, c) = Rebase(n, c)
        BY <1>3 DEF AfterLoss
    <2>2. /\ e \in Record /\ e.own \cap e.blocked = {} /\ e.own = job.prior
          /\ e.original = r.original /\ e.applied = r.applied
        BY <1>1 DEF Record
    <2> HIDE DEF e
    <2>3. /\ q \in Record /\ q.own = job.prior /\ q.pending = None
          /\ q.pendingOwn = NoMask /\ q.own \cap q.blocked = {}
          /\ q.original = r.original /\ q.applied = r.applied
        BY <2>2, QuietLoadable DEF Loadable
    <2> HIDE DEF q
    <2>4. ASSUME NEW p \in Props
          PROVE  /\ p \in job.prior => p \in changed \/ c[p] = r.applied[p]
                 /\ c[p] # b[p] => p \in job.prior /\ p \notin changed
                 /\ p \in job.prior \ changed => r.original[p] = b[p]
        <3>1. p \in job.prior => p \in changed \/ c[p] = r.applied[p]
            BY DEF OverrideMask
        <3>2. c[p] # b[p] => p \in job.prior /\ p \notin changed
            BY DEF OverrideMask
        <3>3. p \in r.own => r.applied[p] \in OwnValues(r, p)
            BY OwnValuesIs
        <3> QED BY <3>1, <3>2, <3>3 DEF Honest
    <2>5. n \in Record /\ n.pending = None /\ Honest(n, c, b)
        <3>1. \A p \in Props :
                 /\ p \in q.own => p \in changed \/ c[p] = q.applied[p]
                 /\ c[p] # b[p] => p \in q.own /\ p \notin changed
                 /\ p \in q.own \ changed => q.original[p] = b[p]
            BY <2>3, <2>4
        <3> HIDE DEF changed
        <3> QED BY <1>1, <2>3, <3>1, GivenUpAhead
    <2> HIDE DEF n
    <2> QED BY <2>1, <2>5, RebaseAhead
<1> QED BY <1>2, <1>3

\* At such a place nothing is said of the local variables.
LEMMA CalmAhead ==
    ASSUME Phase' \in CalmPhases
    PROVE  ForeseenOK' /\ IntentOK' /\ TransactOK' /\ GivingOK'
<1>1. /\ Phase' # "decide" /\ Phase' # "apply"
      /\ pc' \notin {"adopt", "apply", "lost", "set", "verify", "rollback"}
      /\ pc' \notin Restoring
    BY DEF CalmPhases, Phase, Restoring
<1>2. ForeseenOK' /\ IntentOK'
    BY <1>1 DEF ForeseenOK, IntentOK
<1>3. TransactOK' /\ GivingOK'
    BY <1>1 DEF TransactOK, GivingOK, Undoing, GivingBack, Asked, Restoring
<1> QED BY <1>2, <1>3

\* What is changed in the records stays sound and honest.
LEMMA StoreAhead ==
    ASSUME IInv, AheadInv, UNCHANGED <<world, disk>>, pc # "stopped",
           NEW k \in Keys, NEW r \in Record \cup {None}, Store(k, r),
           r # None => k \in born /\ Sound(r),
           k \in alive => Honest(r, cur[k], base[k])
    PROVE  SoundOK' /\ HonestOK'
<1>1. /\ managed'[k] = r
      /\ \A j \in Keys : j # k => managed'[j] = managed[j]
    BY DEF Store, IInv, TypeOK
<1>2. alive \subseteq Keys /\ UNCHANGED <<born, alive, cur, base, disk>>
    BY DEF IInv, TypeOK, world
<1>3. SoundOK'
    BY <1>1, <1>2 DEF AheadInv, SoundOK
<1>4. HonestOK'
    BY <1>1, <1>2 DEF AheadInv, HonestOK
<1> QED BY <1>3, <1>4

\* Without a change nothing is lost.
LEMMA SameAhead ==
    ASSUME AheadInv, UNCHANGED <<world, disk, managed>>, pc # "stopped"
    PROVE  SoundOK' /\ HonestOK'
BY DEF AheadInv, SoundOK, HonestOK, world

\* A step that changes neither process nor record and leads where the thread
\* relies on nothing else.
LEMMA CalmStepAhead ==
    ASSUME AheadInv, UNCHANGED <<world, disk, managed>>, pc # "stopped",
           Phase' \in CalmPhases
    PROVE  AheadInv'
BY SameAhead, CalmAhead DEF AheadInv

\* A step that changes one record and leads there.
LEMMA StoreStepAhead ==
    ASSUME IInv, AheadInv, UNCHANGED <<world, disk>>, pc # "stopped",
           NEW k \in Keys, NEW r \in Record \cup {None}, Store(k, r),
           r # None => k \in born /\ Sound(r),
           k \in alive => Honest(r, cur[k], base[k]),
           Phase' \in CalmPhases
    PROVE  AheadInv'
BY StoreAhead, CalmAhead DEF AheadInv

\* What is known of a visited process.
LEMMA VisitedAhead ==
    ASSUME IInv, AheadInv, Phase \in Visiting
    PROVE  LET k == job.key
               r == managed[job.key] IN
           /\ k \in Keys /\ k \in born /\ r \in Record /\ r # None
           /\ Loadable(r) /\ Sound(r)
           /\ cur[k] \in State /\ base[k] \in State
           /\ k \in alive => Honest(r, cur[k], base[k])
           /\ k \in alive => Honest(disk[k], cur[k], base[k])
<1>1. pc # "stopped"
    BY DEF Phase, Visiting, Transacting, Restoring
<1> QED BY <1>1, VisitedRecord
        DEF AheadInv, SoundOK, HonestOK, IInv, ValuesOK

\* A step of somebody else, to another process than the one visited.
LEMMA ElsewhereAhead ==
    ASSUME AheadInv, UNCHANGED <<disk, pc, after, managed, job, call>>,
           cur'[job.key] = cur[job.key], base'[job.key] = base[job.key],
           job.key \in alive' => job.key \in alive
    PROVE  ForeseenOK' /\ IntentOK' /\ TransactOK' /\ GivingOK'
<1>1. ForeseenOK'
    BY DEF AheadInv, ForeseenOK, Phase, Visited, Current
<1>2. IntentOK'
    BY DEF AheadInv, IntentOK, Phase, Visited, Current, Changed
<1>3. TransactOK'
    BY DEF AheadInv, TransactOK, Undoing, Asked, Visited, Current
<1>4. GivingOK'
    BY DEF AheadInv, GivingOK, GivingBack, Restoring, Visited, Current,
           Changed
<1> QED BY <1>1, <1>2, <1>3, <1>4

\* The process the thread works on was born.
LEMMA JobBorn ==
    ASSUME IInv, AheadInv, job.key \notin born,
           UNCHANGED <<disk, pc, after, managed, job, call>>
    PROVE  ForeseenOK' /\ IntentOK' /\ TransactOK' /\ GivingOK'
<1>1. Phase \notin Visiting
    BY VisitedAhead
<1>2. pc' = pc /\ Phase' = Phase
    BY DEF Phase
<1>3. ForeseenOK'
    BY <1>1, <1>2 DEF ForeseenOK, Visiting, AheadInv, Visited
<1>4. IntentOK' /\ TransactOK' /\ GivingOK'
    BY <1>1, <1>2 DEF IntentOK, TransactOK, GivingOK, Visiting, Transacting,
           Restoring, Undoing, GivingBack, Asked, Phase
<1> QED BY <1>3, <1>4

-----------------------------------------------------------------------------
\* A new process has no record and was not changed.
LEMMA BirthAhead ==
    ASSUME IInv, AheadInv, NEW k \in Keys, Birth(k)
    PROVE  AheadInv'
<1>1. /\ k \notin born /\ born' = born \cup {k} /\ alive' = alive \cup {k}
      /\ cur'[k] = base'[k]
      /\ \A j \in Keys : j # k => cur'[j] = cur[j] /\ base'[j] = base[j]
      /\ UNCHANGED <<disk, pc, after, managed, job, call>>
    BY DEF Birth, IInv, TypeOK, files, thread
<1>2. disk[k] = None /\ managed[k] = None
    BY <1>1 DEF AheadInv, SoundOK
<1>3. SoundOK'
    BY <1>1 DEF AheadInv, SoundOK
<1>4. HonestOK'
    <2>1. Honest(disk'[k], cur'[k], base'[k])
          /\ Honest(managed'[k], cur'[k], base'[k])
        BY <1>1, <1>2 DEF Honest, OwnValues
    <2>2. alive \subseteq Keys
        BY DEF IInv, TypeOK
    <2> QED BY <1>1, <2>1, <2>2 DEF AheadInv, HonestOK
<1>5. ForeseenOK' /\ IntentOK' /\ TransactOK' /\ GivingOK'
    <2>1. CASE job.key \notin born
        BY <1>1, <2>1, JobBorn
    <2>2. CASE job.key \in born
        <3>1. job.key \in Keys /\ job.key # k
            BY <1>1, <2>2 DEF IInv, TypeOK
        <3> QED BY <1>1, <3>1, ElsewhereAhead
    <2> QED BY <2>1, <2>2
<1> QED BY <1>3, <1>4, <1>5 DEF AheadInv

\* Of a process that has exited nothing is said.
LEMMA ExitAhead ==
    ASSUME IInv, AheadInv, NEW k \in Keys, Exit(k)
    PROVE  AheadInv'
<1>1. /\ alive' \subseteq alive
      /\ UNCHANGED <<born, cur, base, disk, pc, after, managed, job, call>>
    BY DEF Exit, files, thread
<1>2. SoundOK' /\ HonestOK'
    BY <1>1 DEF AheadInv, SoundOK, HonestOK
<1>3. ForeseenOK' /\ IntentOK' /\ TransactOK' /\ GivingOK'
    BY <1>1, ElsewhereAhead
<1> QED BY <1>2, <1>3 DEF AheadInv

\* One property is written: the records stay honest if they are about it.
LEMMA WrittenHonest ==
    ASSUME NEW r, NEW c \in State, NEW b, NEW p \in Props, NEW v,
           NEW d, \A q \in Props : d[q] = IF q = p THEN v ELSE c[q],
           NEW e, \A q \in Props : q # p => e[q] = b[q],
           Honest(r, c, b),
           v # e[p] => v \in OwnValues(r, p),
           v \in OwnValues(r, p) => r.original[p] = e[p]
    PROVE  Honest(r, d, e)
BY DEF Honest

\* An outsider's write is the value to give back from then on: it is none the
\* records take for the service's own and not one that was compared.
LEMMA OutsiderWritesAhead ==
    ASSUME IInv, FocusOK, AheadInv, Perils = {},
           NEW k \in Keys, NEW p \in Props, NEW v \in Choices[p],
           OutsiderWrites(k, p, v)
    PROVE  AheadInv'
<1>1. /\ k \in alive /\ v \notin Claimed(k, p) /\ ~ InCheck(k, p)
      /\ cur' = [cur EXCEPT ![k][p] = v]
      /\ base' = [base EXCEPT ![k][p] = v]
      /\ UNCHANGED <<born, alive, disk, pc, after, managed, job, call>>
    BY DEF OutsiderWrites, files, thread
<1>2. cur[k] \in State /\ base[k] \in State /\ cur[k] # None
    BY <1>1, RecordAssumption DEF IInv, TypeOK, ValuesOK
<1>3. /\ \A j \in Keys : j # k => cur'[j] = cur[j] /\ base'[j] = base[j]
      /\ \A q \in Props :
            /\ cur'[k][q] = IF q = p THEN v ELSE cur[k][q]
            /\ base'[k][q] = IF q = p THEN v ELSE base[k][q]
    BY <1>1, <1>2 DEF IInv, TypeOK, State
<1>4. SoundOK'
    BY <1>1 DEF AheadInv, SoundOK
<1>5. HonestOK'
    <2>1. /\ Honest(disk[k], cur[k], base[k])
          /\ pc # "stopped" => Honest(managed[k], cur[k], base[k])
        BY <1>1 DEF AheadInv, HonestOK
    <2>2. /\ v \notin OwnValues(disk[k], p)
          /\ pc # "stopped" => v \notin OwnValues(managed[k], p)
        BY <1>1 DEF Claimed
    <2>3. /\ \A q \in Props : cur'[k][q] = IF q = p THEN v ELSE cur[k][q]
          /\ \A q \in Props : q # p => base'[k][q] = base[k][q]
          /\ base'[k][p] = v
        BY <1>3
    <2> DEFINE c == cur[k]
               d == cur'[k]
               b == base[k]
               e == base'[k]
    <2> HIDE DEF c, d, b, e
    <2>w. ASSUME NEW r, Honest(r, c, b), v \notin OwnValues(r, p)
          PROVE  Honest(r, d, e)
        <3>1. /\ c \in State /\ e[p] = v
              /\ \A q \in Props : d[q] = IF q = p THEN v ELSE c[q]
              /\ \A q \in Props : q # p => e[q] = b[q]
            BY <1>2, <2>3 DEF c, d, b, e
        <3> QED BY <2>w, <3>1, WrittenHonest
    <2>4. Honest(disk[k], cur'[k], base'[k])
        BY <2>1, <2>2, <2>w DEF c, d, b, e
    <2>5. pc # "stopped" => Honest(managed[k], cur'[k], base'[k])
        BY <2>1, <2>2, <2>w DEF c, d, b, e
    <2>6. alive \subseteq Keys
        BY DEF IInv, TypeOK
    <2> QED BY <1>1, <1>3, <2>1, <2>4, <2>5, <2>6 DEF AheadInv, HonestOK
<1>6. CASE job.key # k
    <2>1. CASE job.key \notin born
        BY <1>1, <1>4, <1>5, <2>1, JobBorn DEF AheadInv
    <2>2. CASE job.key \in born
        <3>1. job.key \in Keys
            BY <2>2 DEF IInv, TypeOK
        <3> QED BY <1>1, <1>3, <1>4, <1>5, <1>6, <3>1, ElsewhereAhead
                DEF AheadInv
    <2> QED BY <2>1, <2>2
<1>7. CASE job.key = k
    <2>1. Phase' = Phase /\ job'.key = k /\ Visited' = Visited
        BY <1>1, <1>7 DEF Phase, Visited
    <2>2. ForeseenOK'
        <3>1. Phase = "decide" => Deciding(k)
            BY <1>7 DEF Phase, Deciding
        <3>2. Phase = "decide" =>
                  v # Desired(Rebase(Visited, job.seen).original,
                              job.policy)[p]
            BY <1>1, <1>7, <3>1 DEF Claimed, Visited
        <3> QED BY <1>1, <1>3, <1>7, <2>1, <3>2
                DEF AheadInv, ForeseenOK, Current, Visited
    <2>3. IntentOK'
        BY <1>1, <1>3, <1>7, <2>1
           DEF AheadInv, IntentOK, Current, Changed
    <2>4. TransactOK'
        <3>1. pc = "set" => p \notin call.left
            BY <1>1, <1>7 DEF InCheck, FocusOK
        <3>2. /\ pc = "set" => call.left \subseteq Props
              /\ call' = call /\ pc' = pc /\ job' = job /\ disk' = disk
            BY <1>1 DEF IInv, TypeOK, Call, Mask
        <3> QED BY <1>1, <1>3, <1>7, <2>1, <3>1, <3>2
                DEF AheadInv, TransactOK, Undoing, Current
    <2>5. GivingOK'
        <3>1. pc = "restore" => call.target = k
            BY <1>7 DEF FocusOK, Asked
        <3>2. pc = "restore" =>
                 NextProp(call.left) # p /\ NextProp(call.left) \in Props
            BY <1>1, <3>1, RestoreFocus DEF InCheck
        <3>3. GivingBack' <=> GivingBack
            BY <1>1 DEF GivingBack
        <3> QED BY <1>1, <1>3, <1>7, <2>1, <3>2, <3>3
                DEF AheadInv, GivingOK, Current, Changed
    <2> QED BY <1>4, <1>5, <2>2, <2>3, <2>4, <2>5 DEF AheadInv
<1> QED BY <1>6, <1>7

\* The steps that change neither process nor record and lead where the thread
\* relies on nothing else.
LEMMA CalmActionsAhead ==
    ASSUME AheadInv,
           \/ Stop \/ Enable \/ Disable \/ TickInactive \/ EndTick
           \/ RequeryFails \/ Decline \/ ApplyRefused \/ LostQueryFails
           \/ EndCleanup \/ PersistFails
    PROVE  AheadInv'
<1> DEFINE calm == /\ pc # "stopped" /\ UNCHANGED <<world, disk, managed>>
                   /\ Phase' \in CalmPhases
<1>1. CASE Stop \/ Enable \/ Disable \/ TickInactive
    <2>1. calm
        BY <1>1 DEF Stop, Enable, Disable, TickInactive, CommandFails,
               EnterCleanup, Rest, Phase, CalmPhases, files
    <2> QED BY <2>1, CalmStepAhead
<1>2. CASE EndTick \/ RequeryFails \/ Decline \/ ApplyRefused
    <2>1. calm
        BY <1>2 DEF EndTick, RequeryFails, Decline, ApplyRefused, Goto, Phase,
               CalmPhases, files
    <2> QED BY <2>1, CalmStepAhead
<1>3. CASE LostQueryFails \/ EndCleanup \/ PersistFails
    <2>1. calm
        BY <1>3 DEF LostQueryFails, EndCleanup, PersistFails, PersistThen,
               EnterCleanup, Rest, Goto, Phase, CalmPhases, files
    <2> QED BY <2>1, CalmStepAhead
<1> QED BY <1>1, <1>2, <1>3

\* The service starts from the journal on disk.
LEMMA StartAhead ==
    ASSUME IInv, AheadInv, Start
    PROVE  AheadInv'
<1>1. /\ pc' \in {"idle", "stopped", "cleanup"} /\ managed' = disk
      /\ UNCHANGED <<world, disk>>
    BY DEF Start, EnterCleanup, Rest, Goto, files
<1>2. Phase' \in CalmPhases
    BY <1>1 DEF Phase, CalmPhases
<1>3. SoundOK' /\ HonestOK'
    BY <1>1 DEF AheadInv, SoundOK, HonestOK, world
<1> QED BY <1>2, <1>3, CalmAhead DEF AheadInv

\* After a crash only the journal on disk counts.
LEMMA CrashAhead ==
    ASSUME IInv, AheadInv, Crash
    PROVE  AheadInv'
<1>1. /\ pc' = "stopped" /\ managed' = [k \in Keys |-> None]
      /\ UNCHANGED <<world, disk>>
    BY DEF Crash, Goto, Forgotten, files
<1>2. Phase' \in CalmPhases
    BY <1>1 DEF Phase, CalmPhases
<1>3. SoundOK' /\ HonestOK'
    BY <1>1 DEF AheadInv, SoundOK, HonestOK, world
<1> QED BY <1>2, <1>3, CalmAhead DEF AheadInv

\* A tick forgets records of processes that exited.
LEMMA TickAhead ==
    ASSUME IInv, AheadInv, Tick
    PROVE  AheadInv'
<1>1. PICK opaque \in SUBSET alive :
          LET live == alive \ opaque
              dead == {k \in Managed(managed) \ live :
                          \A j \in opaque : PidOf[j] # PidOf[k]}
          IN  /\ managed' = [k \in Keys |-> IF k \in dead THEN None
                                            ELSE managed[k]]
              /\ IF dead = {} THEN Goto("scan") /\ UNCHANGED after
                 ELSE PersistThen("scan")
    BY DEF Tick
<1>2. Phase' \in CalmPhases
    BY <1>1 DEF Phase, CalmPhases, Goto, PersistThen
<1>3. pc # "stopped" /\ UNCHANGED <<world, disk>> /\ alive \subseteq Keys
    BY DEF Tick, files, IInv, TypeOK
<1>4. \A k \in Keys : /\ managed'[k] \in {managed[k], None}
                      /\ k \in alive => managed'[k] = managed[k]
    BY <1>1
<1>5. SoundOK'
    BY <1>3, <1>4 DEF AheadInv, SoundOK, world
<1>6. HonestOK'
    BY <1>3, <1>4 DEF AheadInv, HonestOK, world
<1> QED BY <1>2, <1>5, <1>6, CalmAhead DEF AheadInv

\* The loop takes up a process.
LEMMA VisitAhead ==
    ASSUME IInv, AheadInv, NEW k \in Keys, NEW verdict \in Verdicts,
           NEW policy \in Policies, Visit(k, verdict, policy)
    PROVE  AheadInv'
<1>1. /\ pc # "stopped" /\ UNCHANGED <<world, disk, managed>>
      /\ job'.key = k
      /\ pc' = IF managed[k] = None THEN "adopt"
               ELSE IF managed[k].pending # None THEN "resolve" ELSE "examine"
    BY DEF Visit, Goto, files, NoJob
<1>2. CASE managed[k] # None
    <2>1. Phase' \in CalmPhases
        BY <1>1, <1>2 DEF Phase, CalmPhases
    <2> QED BY <1>1, <2>1, CalmStepAhead
<1>3. CASE managed[k] = None
    <2>1. SoundOK' /\ HonestOK'
        BY <1>1, SameAhead
    <2>2. ForeseenOK' /\ IntentOK'
        BY <1>1, <1>3 DEF ForeseenOK, IntentOK, Phase, Visited
    <2>3. TransactOK' /\ GivingOK'
        BY <1>1, <1>3 DEF TransactOK, GivingOK, Undoing, GivingBack, Asked,
               Restoring
    <2> QED BY <2>1, <2>2, <2>3 DEF AheadInv
<1> QED BY <1>2, <1>3

\* The journal on disk says what the records in memory say.
LEMMA PersistAhead ==
    ASSUME IInv, AheadInv, Persist
    PROVE  AheadInv'
<1>1. /\ pc = "persist" /\ pc' = after /\ disk' = managed
      /\ UNCHANGED <<world, after, managed, job, call>>
    BY DEF Persist, Goto
<1>2. after \in {"idle", "scan", "reexamine", "decide", "apply", "stopped"}
    BY DEF IInv, VisitOK
<1>3. SoundOK' /\ HonestOK'
    BY <1>1 DEF AheadInv, SoundOK, HonestOK, world
<1>4. Phase' = Phase
    BY <1>1, <1>2 DEF Phase
<1>5. ForeseenOK'
    BY <1>1, <1>2, <1>4
       DEF AheadInv, ForeseenOK, Visited, Current, world
<1>6. IntentOK'
    BY <1>1, <1>2, <1>4
       DEF AheadInv, IntentOK, Visited, Current, Changed, world
<1>7. TransactOK' /\ GivingOK'
    BY <1>1, <1>2 DEF TransactOK, GivingOK, Undoing, GivingBack, Asked,
           Restoring, Visited
<1> QED BY <1>3, <1>5, <1>6, <1>7 DEF AheadInv

\* A process that is gone is forgotten, and one that fails is left alone.
LEMMA QueryFailsAhead ==
    ASSUME IInv, AheadInv, QueryFails
    PROVE  AheadInv'
<1>1. /\ pc # "stopped" /\ UNCHANGED <<world, disk>> /\ job.key \in Keys
    <2>1. Phase \in Visiting
        BY DEF QueryFails, Phase, Visiting
    <2> QED BY <2>1, VisitedAhead DEF QueryFails, files
<1>2. CASE Gone(job.key) /\ Store(job.key, None) /\ PersistThen("scan")
    <2>1. job.key \notin alive /\ Phase' \in CalmPhases
        BY <1>1, <1>2, OpensItself DEF PersistThen, Phase, CalmPhases
    <2> QED BY <1>1, <1>2, <2>1, StoreStepAhead
<1>3. CASE Goto("scan") /\ UNCHANGED <<managed, after>>
    <2>1. Phase' \in CalmPhases
        BY <1>3 DEF Goto, Phase, CalmPhases
    <2> QED BY <1>1, <1>3, <2>1, CalmStepAhead
<1> QED BY <1>2, <1>3 DEF QueryFails

\* A restore that is asked for goes by the record.
LEMMA AskRestoreAhead ==
    ASSUME IInv, AheadInv, UNCHANGED <<world, disk, managed>>, pc # "stopped",
           NEW r, r = managed[job'.key], NEW pending, pending = r.pending,
           NEW then \in {"recover", "veto", "cleanup"},
           AskRestore(r, pending, then)
    PROVE  AheadInv'
<1>1. /\ pc' = "open" /\ call'.then = then
      /\ call'.original = r.original /\ call'.applied = r.applied
      /\ call'.pending = r.pending
    BY DEF AskRestore, NoCall, Goto
<1>2. SoundOK' /\ HonestOK'
    BY SameAhead
<1>3. ForeseenOK' /\ IntentOK' /\ TransactOK'
    BY <1>1 DEF ForeseenOK, IntentOK, TransactOK, Phase, Undoing, Asked
<1>4. GivingOK'
    BY <1>1 DEF GivingOK, GivingBack, Restoring, Visited
<1> QED BY <1>2, <1>3, <1>4 DEF AheadInv

\* A resolved transaction is recorded as what the query found.
LEMMA ResolveAhead ==
    ASSUME IInv, AheadInv, Resolve
    PROVE  AheadInv'
<1> DEFINE k == job.key
           r == managed[job.key]
<1>1. /\ pc = "resolve" /\ UNCHANGED <<world, disk, job>>
      /\ r.pending # None
    BY DEF Resolve, files, IInv, VisitOK
<1>2. /\ k \in Keys /\ k \in born /\ r \in Record /\ Loadable(r) /\ Sound(r)
      /\ cur[k] \in State
      /\ k \in alive => Honest(r, cur[k], base[k])
    <2>1. Phase \in Visiting
        BY <1>1 DEF Phase, Visiting
    <2> QED BY <2>1, VisitedAhead
<1>3. PICK holder \in Keys :
          /\ Opens(k, holder)
          /\ \/ /\ AskRestore(r, r.pending, "recover")
                /\ UNCHANGED <<managed, after>>
             \/ /\ ~ InDoubt(r, cur[holder])
                /\ Store(k, Resolved(r, cur[holder]))
                /\ PersistThen(IF r.own = {} THEN "scan" ELSE "reexamine")
    BY DEF Resolve
<1>4. holder = k /\ k \in alive
    BY <1>2, <1>3, OpensItself
<1>5. CASE AskRestore(r, r.pending, "recover") /\ UNCHANGED managed
    <2>1. r = managed[job'.key] /\ pc # "stopped"
        BY <1>1
    <2> QED BY <1>1, <1>5, <2>1, AskRestoreAhead
<1>6. CASE /\ ~ InDoubt(r, cur[k]) /\ Store(k, Resolved(r, cur[k]))
           /\ PersistThen(IF r.own = {} THEN "scan" ELSE "reexamine")
    <2>1. /\ Resolved(r, cur[k]) \in Record /\ Sound(Resolved(r, cur[k]))
          /\ Honest(Resolved(r, cur[k]), cur[k], base[k])
        BY <1>1, <1>2, <1>4, <1>6, ResolvedAhead
    <2>2. Phase' \in CalmPhases
        BY <1>6 DEF PersistThen, Phase, CalmPhases
    <2>3. Store(k, Resolved(r, cur[k])) /\ pc # "stopped"
        BY <1>1, <1>6
    <2> HIDE DEF r, k
    <2> QED BY <1>1, <1>2, <2>1, <2>2, <2>3, StoreStepAhead
<1> QED BY <1>3, <1>4, <1>5, <1>6

\* The thread is about to decide about a process it has examined.
LEMMA DecideAhead ==
    ASSUME SoundOK', HonestOK',
           Phase' = "decide", pc' \in {"decide", "persist"},
           job'.key \in alive' =>
              \A p \in Props :
                 IF p \in (managed'[job'.key]).own
                 THEN (managed'[job'.key]).original[p] = base'[job'.key][p]
                 ELSE cur'[job'.key][p] = job'.seen[p]
    PROVE  AheadInv'
<1>1. ForeseenOK'
    BY DEF ForeseenOK, Visited, Current
<1>2. IntentOK' /\ TransactOK' /\ GivingOK'
    BY DEF IntentOK, TransactOK, GivingOK, Undoing, GivingBack, Asked,
           Restoring
<1> QED BY <1>1, <1>2 DEF AheadInv

\* What an outsider changed is given up before the thread decides.
LEMMA ExamineAhead ==
    ASSUME IInv, AheadInv, Examine
    PROVE  AheadInv'
<1> DEFINE k == job.key
           r == managed[job.key]
           c == cur[job.key]
           b == base[job.key]
           changed == OverrideMask(r.applied, c, r.own)
           n == Relinquish(r, c, changed)
<1>1. /\ pc \in {"examine", "reexamine"} /\ pc # "stopped"
      /\ UNCHANGED <<world, disk>> /\ r.pending = None
    <2>1. pc \in {"examine", "reexamine"} /\ Phase = pc
        BY DEF Examine, Phase
    <2> QED BY <2>1 DEF Examine, files, IInv, VisitOK
<1>2. /\ k \in Keys /\ k \in born /\ r \in Record /\ Loadable(r) /\ Sound(r)
      /\ c \in State
      /\ k \in alive => Honest(r, c, b)
    <2>1. Phase \in Visiting
        BY <1>1 DEF Phase, Visiting
    <2> QED BY <2>1, VisitedAhead
<1>3. PICK holder \in Keys :
          /\ Opens(k, holder)
          /\ job' = [job EXCEPT !.seen = cur[holder]]
          /\ IF OverrideMask(r.applied, cur[holder], r.own) = {}
             THEN /\ Goto("decide")
                  /\ UNCHANGED <<managed, streak, after>>
             ELSE /\ Store(k, Relinquish(r, cur[holder],
                              OverrideMask(r.applied, cur[holder], r.own)))
                  /\ PersistThen("decide")
    BY DEF Examine
<1>4. k \in alive /\ holder = k /\ job'.key = k /\ job'.seen = c
    <2>1. holder = k /\ k \in alive
        BY <1>2, <1>3, OpensItself
    <2> QED BY <1>3, <2>1 DEF IInv, TypeOK, Job
<1>5. CASE changed = {}
    <2>1. Goto("decide") /\ UNCHANGED managed
        BY <1>3, <1>4, <1>5
    <2>2. SoundOK' /\ HonestOK'
        BY <1>1, <2>1, SameAhead
    <2>3. ASSUME NEW p \in Props, p \in r.own PROVE r.original[p] = b[p]
        <3>1. c[p] = r.applied[p]
            BY <1>5, <2>3 DEF OverrideMask
        <3>2. c[p] \in OwnValues(r, p)
            BY <1>2, <2>3, <3>1, OwnValuesIs
        <3> QED BY <1>2, <1>4, <3>2 DEF Honest
    <2>4. pc' = "decide" /\ Phase' = "decide"
        BY <2>1 DEF Goto, Phase
    <2>5. job'.key \in alive' =>
              \A p \in Props :
                 IF p \in (managed'[job'.key]).own
                 THEN (managed'[job'.key]).original[p] = base'[job'.key][p]
                 ELSE cur'[job'.key][p] = job'.seen[p]
        BY <1>1, <1>4, <2>1, <2>3 DEF world
    <2> QED BY <2>2, <2>4, <2>5, DecideAhead
<1>6. CASE changed # {}
    <2>1. Store(k, n) /\ PersistThen("decide")
        BY <1>3, <1>4, <1>6
    <2>2. /\ n \in Record /\ n.pending = None /\ Sound(n) /\ Honest(n, c, b)
          /\ \A p \in Props : p \in n.own => n.original[p] = b[p]
        BY <1>1, <1>2, <1>4, ExaminedAhead
    <2> HIDE DEF n, changed
    <2>3. SoundOK' /\ HonestOK'
        BY <1>1, <1>2, <2>1, <2>2, StoreAhead
    <2>4. pc' = "persist" /\ Phase' = "decide"
        BY <2>1 DEF PersistThen, Phase
    <2>5. managed'[k] = n
        BY <1>2, <2>1 DEF Store, IInv, TypeOK
    <2>6. job'.key \in alive' =>
              \A p \in Props :
                 IF p \in (managed'[job'.key]).own
                 THEN (managed'[job'.key]).original[p] = base'[job'.key][p]
                 ELSE cur'[job'.key][p] = job'.seen[p]
        BY <1>1, <1>4, <2>2, <2>5 DEF world
    <2> QED BY <2>3, <2>4, <2>6, DecideAhead
<1> QED BY <1>5, <1>6

\* A record is dropped only when it owns nothing.
LEMMA LetGoAhead ==
    ASSUME IInv, AheadInv, LetGo
    PROVE  AheadInv'
<1> DEFINE k == job.key
           r == managed[job.key]
<1>1. /\ pc = "decide" /\ UNCHANGED <<world, disk, job>>
      /\ r.pending = None
    <2>1. pc = "decide" /\ Phase = "decide"
        BY DEF LetGo, Phase
    <2> QED BY <2>1 DEF LetGo, files, IInv, VisitOK
<1>2. /\ k \in Keys /\ k \in born /\ r \in Record /\ Loadable(r) /\ Sound(r)
      /\ k \in alive => Honest(r, cur[k], base[k])
    <2>1. Phase \in Visiting
        BY <1>1 DEF Phase, Visiting
    <2> QED BY <2>1, VisitedAhead
<1>3. CASE r.own = {} /\ Store(k, Kept(r)) /\ PersistThen("scan")
    <2>1. Kept(r) \in {r, None}
        BY DEF Kept
    <2>2. k \in alive => Honest(None, cur[k], base[k])
        BY <1>2, <1>3, HonestNone
    <2>3. /\ Kept(r) \in Record \cup {None}
          /\ Kept(r) # None => Sound(Kept(r))
          /\ k \in alive => Honest(Kept(r), cur[k], base[k])
        <3>1. CASE Kept(r) = r
            BY <1>2, <3>1
        <3>2. CASE Kept(r) = None
            BY <2>2, <3>2
        <3> QED BY <2>1, <3>1, <3>2
    <2>4. Phase' \in CalmPhases
        BY <1>3 DEF PersistThen, Phase, CalmPhases
    <2> DEFINE n == Kept(r)
    <2>5. /\ n \in Record \cup {None} /\ Store(k, n) /\ pc # "stopped"
          /\ n # None => k \in born /\ Sound(n)
          /\ k \in alive => Honest(n, cur[k], base[k])
        BY <1>1, <1>2, <1>3, <2>3
    <2> HIDE DEF n, r, k
    <2> QED BY <1>1, <1>2, <2>4, <2>5, StoreStepAhead
<1>4. CASE AskRestore(r, None, "veto") /\ UNCHANGED managed
    <2>1. r = managed[job'.key] /\ pc # "stopped"
        BY <1>1
    <2> QED BY <1>1, <1>4, <2>1, AskRestoreAhead
<1> QED BY <1>3, <1>4 DEF LetGo

-----------------------------------------------------------------------------
\* An intended transaction enters the records before anything is written.
LEMMA IntendAhead ==
    ASSUME IInv, AheadInv, UNCHANGED <<world, disk>>,
           pc \in {"decide", "adopt"}, job.key \in Keys, job.key \in born,
           NEW r \in Record, Loadable(r), r.pending = None, Sound(r),
           NEW desired, desired = Desired(r.original, job.policy),
           NEW mask, mask = DesiredOwn(r.original, job.policy, r.blocked),
           r.own \cup mask # {},
           job.key \in alive => Honest(r, cur[job.key], base[job.key]),
           job.key \in alive =>
              \A p \in Props : cur[job.key][p] = desired[p] =>
                  r.original[p] = base[job.key][p],
           NEW fresh \in BOOLEAN, fresh => r.own = {},
           Intend(r, desired, mask, fresh)
    PROVE  AheadInv'
<1> DEFINE k == job.key
           c == cur[job.key]
           b == base[job.key]
           q == Pending(r, desired, mask)
<1>1. /\ q \in Record /\ q.applied = r.applied /\ q.own = r.own \cup mask
      /\ Sound(q)
      /\ k \in alive => Honest(q, c, b)
    BY PendingAhead
<1> HIDE DEF q
<1>2. /\ Store(k, q) /\ job'.prior = r.own /\ job'.fresh = fresh
      /\ job'.key = k /\ pc' = "persist" /\ after' = "apply"
    BY DEF Intend, PersistThen, q, IInv, TypeOK, Job
<1>3. SoundOK' /\ HonestOK'
    BY <1>1, <1>2, StoreAhead
<1>4. managed'[k] = q
    BY <1>2 DEF Store, IInv, TypeOK
<1>5. ForeseenOK' /\ TransactOK' /\ GivingOK'
    BY <1>2 DEF ForeseenOK, TransactOK, GivingOK, Phase, Undoing, GivingBack,
           Asked, Restoring
<1>6. ASSUME k \in alive, NEW p \in Props, c[p] # b[p]
      PROVE  p \in r.own /\ c[p] = r.applied[p]
    BY <1>6, OwnValuesIs DEF Honest
<1>7. IntentOK'
    <2>1. alive' = alive /\ cur' = cur /\ base' = base
        BY DEF world
    <2>2. Visited' = q
        BY <1>2, <1>4 DEF Visited
    <2> HIDE DEF k, c, b
    <2>3. ASSUME k \in alive, NEW p \in Props, c[p] # b[p]
          PROVE  p \in job'.prior /\ c[p] = q.applied[p]
        BY <1>1, <1>2, <1>6, <2>3
    <2>4. job'.prior \subseteq q.own /\ (job'.fresh => job'.prior = {})
        BY <1>1, <1>2
    <2> QED BY <1>2, <2>1, <2>2, <2>3, <2>4
            DEF IntentOK, Current, Changed, k, c, b
<1> QED BY <1>3, <1>5, <1>7 DEF AheadInv

\* An update keeps the record honest; a transaction is recorded before
\* anything is written.
LEMMA UpdateAhead ==
    ASSUME IInv, AheadInv, Update
    PROVE  AheadInv'
<1> DEFINE k == job.key
           r == managed[job.key]
           n == Rebase(r, job.seen)
           desired == Desired(n.original, job.policy)
           mask == DesiredOwn(n.original, job.policy, n.blocked)
<1>1. /\ pc = "decide" /\ Phase = "decide" /\ UNCHANGED <<world, disk>>
      /\ r.pending = None /\ job.seen \in State
    <2>1. pc = "decide" /\ Phase = "decide"
        BY DEF Update, Phase
    <2> QED BY <2>1 DEF Update, files, IInv, VisitOK
<1>2. /\ k \in Keys /\ k \in born /\ r \in Record /\ Loadable(r) /\ Sound(r)
      /\ k \in alive => Honest(r, cur[k], base[k])
    <2>1. Phase \in Visiting
        BY <1>1 DEF Visiting
    <2> QED BY <2>1, VisitedAhead
<1>3. /\ n \in Record /\ Sound(n)
      /\ k \in alive => Honest(n, cur[k], base[k])
      /\ n.own = r.own /\ n.pending = None
      /\ \A p \in Props : n.original[p] = IF p \in r.own THEN r.original[p]
                                         ELSE job.seen[p]
    BY <1>1, <1>2, RebaseFields, RebaseAhead
<1>4. Loadable(n)
    BY <1>1, <1>2, RebaseLoadable
<1>5. \/ Store(k, n) /\ Goto("scan")
      \/ Goto("scan") /\ UNCHANGED managed
      \/ n.own \cup mask # {} /\ Intend(n, desired, mask, FALSE)
    BY DEF Update
<1>6. ASSUME k \in alive, NEW p \in Props, cur[k][p] = desired[p]
      PROVE  n.original[p] = base[k][p]
    <2>1. IF p \in r.own THEN r.original[p] = base[k][p]
          ELSE cur[k][p] = job.seen[p]
        BY <1>1, <1>6 DEF AheadInv, ForeseenOK, Visited, Current
    <2>2. p \notin r.own => cur[k][p] = base[k][p]
        BY <1>2, <1>6, OwnValuesIs DEF Honest
    <2> QED BY <1>3, <2>1, <2>2
<1>7. CASE Store(k, n) /\ Goto("scan")
    <2>1. Phase' \in CalmPhases /\ pc # "stopped"
        BY <1>1, <1>7 DEF Goto, Phase, CalmPhases
    <2> HIDE DEF n, k
    <2> QED BY <1>1, <1>2, <1>3, <1>7, <2>1, StoreStepAhead
<1>8. CASE Goto("scan") /\ UNCHANGED managed
    <2>1. Phase' \in CalmPhases /\ pc # "stopped"
        BY <1>1, <1>8 DEF Goto, Phase, CalmPhases
    <2> QED BY <1>1, <1>8, <2>1, CalmStepAhead
<1>9. CASE n.own \cup mask # {} /\ Intend(n, desired, mask, FALSE)
    <2> DEFINE m == n
    <2>1. /\ m \in Record /\ Sound(m) /\ Loadable(m) /\ m.pending = None
          /\ k \in alive => Honest(m, cur[k], base[k])
          /\ k \in alive => \A p \in Props :
                 cur[k][p] = Desired(m.original, job.policy)[p] =>
                     m.original[p] = base[k][p]
        BY <1>3, <1>4, <1>6
    <2>2. /\ m.own \cup DesiredOwn(m.original, job.policy, m.blocked) # {}
          /\ Intend(m, Desired(m.original, job.policy),
                    DesiredOwn(m.original, job.policy, m.blocked), FALSE)
        BY <1>9
    <2> HIDE DEF m
    <2> QED BY <1>1, <1>2, <2>1, <2>2, IntendAhead
<1> QED BY <1>5, <1>7, <1>8, <1>9

\* A process is adopted as it is, unchanged.
LEMMA AdoptAhead ==
    ASSUME IInv, FocusOK, AheadInv, Adopt
    PROVE  AheadInv'
<1> DEFINE k == job.key
           c == cur[job.key]
           b == base[job.key]
<1>1. /\ pc = "adopt" /\ k \in Keys /\ managed[k] = None
      /\ UNCHANGED <<world, disk>>
    BY DEF Adopt, files, IInv, VisitOK, FocusOK, Visited
<1>2. PICK holder \in Keys :
          /\ Opens(k, holder)
          /\ LET r == NewRecord(cur[holder])
                 desired == Desired(r.original, job.policy)
                 mask == DesiredOwn(r.original, job.policy, {})
             IN  IF mask = {}
                 THEN Goto("scan") /\ UNCHANGED <<managed, after, budget, job>>
                 ELSE Intend(r, desired, mask, TRUE)
    BY DEF Adopt
<1>3. holder = k /\ k \in alive /\ k \in born
    <2>1. holder = k /\ k \in alive
        BY <1>1, <1>2, OpensItself
    <2> QED BY <2>1 DEF IInv, TypeOK
<1>4. c \in State /\ \A p \in Props : c[p] = b[p]
    <2>1. Honest(None, c, b)
        BY <1>1, <1>3 DEF AheadInv, HonestOK
    <2> QED BY <1>3, <2>1 DEF Honest, OwnValues, IInv, ValuesOK
<1> DEFINE r == NewRecord(c)
           desired == Desired(r.original, job.policy)
           mask == DesiredOwn(r.original, job.policy, {})
<1>5. /\ r \in Record /\ r.own = {} /\ r.blocked = {} /\ r.pending = None
      /\ r.pendingOwn = NoMask /\ r.original = c /\ r.applied = c
    BY <1>4, NewRecordType DEF NewRecord
<1>6. CASE mask = {}
    <2>1. Goto("scan") /\ UNCHANGED managed
        BY <1>2, <1>3, <1>6
    <2>2. Phase' \in CalmPhases /\ pc # "stopped"
        BY <1>1, <2>1 DEF Goto, Phase, CalmPhases
    <2> QED BY <1>1, <2>1, <2>2, CalmStepAhead
<1>7. CASE mask # {}
    <2> DEFINE m == NewRecord(c)
    <2>1. /\ m \in Record /\ m.own = {} /\ m.blocked = {}
          /\ m.pending = None /\ m.pendingOwn = NoMask
          /\ m.original = c /\ m.applied = c
        BY <1>5
    <2>2. Intend(m, Desired(m.original, job.policy),
                 DesiredOwn(m.original, job.policy, {}), TRUE)
        BY <1>2, <1>3, <1>7
    <2>3. DesiredOwn(m.original, job.policy, {}) # {}
        BY <1>7
    <2> HIDE DEF m
    <2>4. Loadable(m) /\ Sound(m) /\ Honest(m, c, b)
        BY <1>4, <2>1, HonestNone DEF Loadable, Sound
    <2>5. \A p \in Props : c[p] = Desired(m.original, job.policy)[p] =>
              m.original[p] = b[p]
        BY <1>4, <2>1
    <2> QED BY <1>1, <1>3, <2>1, <2>2, <2>3, <2>4, <2>5, IntendAhead
<1> QED BY <1>6, <1>7

\* The application starts from the applied values, or is lost.
LEMMA OpenApplyAhead ==
    ASSUME IInv, AheadInv, OpenApply
    PROVE  AheadInv'
<1> DEFINE k == job.key
           r == managed[job.key]
<1>1. /\ pc = "apply" /\ Phase = "apply"
      /\ UNCHANGED <<world, disk, managed, after, job>>
    BY DEF OpenApply, Phase, files
<1>2. /\ k \in Keys /\ r \in Record /\ cur[k] \in State
    BY <1>1, VisitedAhead DEF Visiting, Transacting
<1>3. PICK holder \in Keys :
          /\ Opens(k, holder)
          /\ IF Matches(r.own, r.applied, cur[holder])
             THEN /\ call' = [NoCall EXCEPT !.target = holder,
                                            !.original = cur[holder],
                                            !.applied = r.pending,
                                            !.own = r.own, !.left = r.own]
                  /\ Goto("set")
             ELSE Goto("lost") /\ UNCHANGED call
    BY DEF OpenApply
<1>4. holder = k /\ k \in alive
    BY <1>2, <1>3, OpensItself
<1>5. SoundOK' /\ HonestOK'
    BY <1>1, SameAhead
<1>6. Visited' = r /\ disk'[k] = r /\ k = job'.key /\ cur' = cur
    BY <1>1 DEF Visited, AheadInv, TransactOK, world
<1>7. CASE Matches(r.own, r.applied, cur[k])
    <2>1. /\ pc' = "set" /\ call'.target = k /\ call'.original = cur[k]
          /\ call'.applied = r.pending /\ call'.left = r.own
          /\ call'.pending = None
        BY <1>3, <1>4, <1>7 DEF Goto, NoCall
    <2>2. \A p \in r.own : cur[k][p] = r.applied[p]
        BY <1>7 DEF Matches
    <2>3. ForeseenOK' /\ IntentOK' /\ GivingOK'
        BY <2>1 DEF ForeseenOK, IntentOK, GivingOK, Phase, GivingBack,
               Restoring
    <2> HIDE DEF k, r
    <2>4. TransactOK'
        BY <1>6, <2>1, <2>2 DEF TransactOK, Undoing, Asked, Current
    <2> QED BY <1>5, <2>3, <2>4 DEF AheadInv
<1>8. CASE ~ Matches(r.own, r.applied, cur[k])
    <2>1. pc' = "lost" /\ UNCHANGED call
        BY <1>3, <1>4, <1>8 DEF Goto
    <2>2. ForeseenOK' /\ TransactOK' /\ GivingOK'
        BY <2>1 DEF ForeseenOK, TransactOK, GivingOK, Phase, Undoing,
               GivingBack, Asked, Restoring
    <2>3. IntentOK'
        BY <1>1, <2>1 DEF AheadInv, IntentOK, Visited, Current, Changed, world
    <2> QED BY <1>5, <2>2, <2>3 DEF AheadInv
<1> QED BY <1>7, <1>8

\* The process and the record of a platform call.
LEMMA CallAhead ==
    ASSUME IInv, FocusOK, AheadInv,
           pc \in {"set", "verify", "rollback"} \cup Asked
    PROVE  LET k == job.key
               r == managed[job.key] IN
           /\ k \in Keys /\ k \in born /\ r \in Record /\ r # None
           /\ Loadable(r) /\ Sound(r)
           /\ cur[k] \in State /\ base[k] \in State
           /\ k \in alive => Honest(r, cur[k], base[k])
           /\ k \in alive => Honest(disk[k], cur[k], base[k])
           /\ call.target = k /\ call.own = r.own
           /\ pc \in {"set", "verify", "rollback"} => r.pending # None
<1>1. Phase = pc /\ Phase \in Visiting
    BY DEF Phase, Visiting, Transacting, Restoring, Asked
<1>2. call.target = job.key
    BY DEF FocusOK
<1>3. call.own = managed[job.key].own
    BY DEF IInv, CallOK, Asked, Restoring
<1>4. pc \in {"set", "verify", "rollback"} => managed[job.key].pending # None
    BY <1>1 DEF IInv, VisitOK, Transacting
<1> QED BY <1>1, <1>2, <1>3, <1>4, VisitedAhead

\* A write of the thread leaves the records honest if they are about it.
LEMMA PutAhead ==
    ASSUME IInv, AheadInv, pc # "stopped",
           UNCHANGED <<born, alive, base, disk, managed>>,
           NEW k \in alive, k = call.target, NEW p \in Props, NEW v,
           Put(p, v),
           v # base[k][p] => /\ v \in OwnValues(disk[k], p)
                             /\ v \in OwnValues(managed[k], p),
           v \in OwnValues(disk[k], p) => disk[k].original[p] = base[k][p],
           v \in OwnValues(managed[k], p) =>
               managed[k].original[p] = base[k][p]
    PROVE  /\ SoundOK' /\ HonestOK'
           /\ \A q \in Props : cur'[k][q] = IF q = p THEN v ELSE cur[k][q]
<1>1. k \in Keys /\ k \in born /\ cur[k] \in State /\ alive \subseteq Keys
    BY DEF IInv, TypeOK, ValuesOK
<1>2. /\ \A j \in Keys : j # k => cur'[j] = cur[j]
      /\ \A q \in Props : cur'[k][q] = IF q = p THEN v ELSE cur[k][q]
    BY <1>1 DEF Put, IInv, TypeOK, State
<1>3. SoundOK'
    BY DEF AheadInv, SoundOK
<1>4. Honest(disk[k], cur[k], base[k]) /\ Honest(managed[k], cur[k], base[k])
    BY DEF AheadInv, HonestOK
<1> DEFINE c == cur[k]
           d == cur'[k]
           b == base[k]
<1> HIDE DEF c, d, b
<1>5. ASSUME NEW r, Honest(r, c, b), v # b[p] => v \in OwnValues(r, p),
             v \in OwnValues(r, p) => r.original[p] = b[p]
      PROVE  Honest(r, d, b)
    <2>1. /\ c \in State
          /\ \A q \in Props : d[q] = IF q = p THEN v ELSE c[q]
        BY <1>1, <1>2 DEF c, d
    <2> QED BY <1>5, <2>1, WrittenHonest
<1>6. Honest(disk[k], cur'[k], base[k]) /\ Honest(managed[k], cur'[k], base[k])
    BY <1>4, <1>5 DEF c, d, b
<1>7. HonestOK'
    BY <1>1, <1>2, <1>6 DEF AheadInv, HonestOK
<1> QED BY <1>2, <1>3, <1>7

\* A property is set to the pending value of the record on disk.
LEMMA SetPropertyAhead ==
    ASSUME IInv, FocusOK, AheadInv, SetProperty
    PROVE  AheadInv'
<1> DEFINE k == job.key
           r == managed[job.key]
           p == NextProp(call.left)
<1>1. /\ pc = "set" /\ call \in Call /\ call.left \in Mask /\ call.left # {}
      /\ UNCHANGED <<born, alive, base, disk, after, managed, job>>
    BY DEF SetProperty, files, IInv, TypeOK, CallOK, Call, Restoring
<1>2. p \in call.left /\ p \in Props
    BY <1>1, NextPropLeft
<1>3. /\ k \in Keys /\ r \in Record /\ r.pending # None /\ call.target = k
      /\ k \in alive => Honest(r, cur[k], base[k])
    BY <1>1, CallAhead
<1>4. /\ disk[k] = r /\ call.applied = r.pending /\ call.pending = None
      /\ \A q \in r.own : call.original[q] = r.applied[q]
      /\ call.left \subseteq r.own
      /\ k \in alive => \A q \in call.left : cur[k][q] = r.applied[q]
    BY <1>1 DEF FocusOK, AheadInv, TransactOK, Visited, Current
<1>5. Visited' = r /\ job'.key = k /\ disk'[k] = r
    BY <1>1, <1>4 DEF Visited
<1>6. CASE /\ call.target \in alive /\ Put(p, call.applied[p])
           /\ call' = [call EXCEPT !.left = @ \ {p}]
           /\ Goto(IF call.left = {p} THEN "verify" ELSE "set")
    <2>1. k \in alive /\ k = call.target
        BY <1>3, <1>6
    <2>2. /\ r.original[p] = base[k][p]
          /\ call.applied[p] \in OwnValues(r, p)
        <3>1. cur[k][p] \in OwnValues(r, p) /\ r.pending[p] \in OwnValues(r, p)
            BY <1>2, <1>3, <1>4, <2>1, OwnValuesIs
        <3> QED BY <1>2, <1>3, <1>4, <2>1, <3>1 DEF Honest
    <2>3. /\ SoundOK' /\ HonestOK'
          /\ \A q \in Props : cur'[k][q] = IF q = p THEN call.applied[p]
                                           ELSE cur[k][q]
        <3>1. /\ call.applied[p] \in OwnValues(disk[k], p)
              /\ call.applied[p] \in OwnValues(managed[k], p)
              /\ disk[k].original[p] = base[k][p]
              /\ managed[k].original[p] = base[k][p]
            BY <1>4, <2>2
        <3>2. pc # "stopped" /\ Put(p, call.applied[p])
            BY <1>1, <1>6
        <3> HIDE DEF k, p
        <3> QED BY <1>1, <1>2, <2>1, <3>1, <3>2, PutAhead
    <2>4. /\ call'.left = call.left \ {p} /\ call'.target = call.target
          /\ call'.applied = call.applied /\ call'.pending = call.pending
          /\ call'.original = call.original
          /\ pc' \in {"set", "verify"}
        BY <1>1, <1>6 DEF Call, Goto
    <2>5. ForeseenOK' /\ IntentOK' /\ GivingOK'
        BY <2>4 DEF ForeseenOK, IntentOK, GivingOK, Phase, GivingBack,
               Restoring
    <2>6. TransactOK'
        <3>1. /\ call'.applied = Visited'.pending /\ call'.pending = None
              /\ \A q \in Visited'.own : call'.original[q] = Visited'.applied[q]
            BY <1>3, <1>4, <1>5, <2>4
        <3>2. \A q \in call'.left : cur'[k][q] = Visited'.applied[q]
            BY <1>1, <1>4, <1>5, <2>1, <2>3, <2>4 DEF Mask
        <3> HIDE DEF k, r, p
        <3> QED BY <1>5, <2>4, <3>1, <3>2
                DEF TransactOK, Undoing, Asked, Current
    <2> QED BY <2>3, <2>5, <2>6 DEF AheadInv
<1>7. CASE Goto("rollback") /\ UNCHANGED <<cur, call>>
    <2>1. SoundOK' /\ HonestOK'
        BY <1>1, <1>7, SameAhead DEF world
    <2>2. ForeseenOK' /\ IntentOK' /\ GivingOK'
        BY <1>7 DEF ForeseenOK, IntentOK, GivingOK, Phase, GivingBack,
               Restoring, Goto
    <2> HIDE DEF k, r, p
    <2>3. TransactOK'
        BY <1>3, <1>4, <1>5, <1>7 DEF TransactOK, Undoing, Asked, Goto
    <2> QED BY <2>1, <2>2, <2>3 DEF AheadInv
<1> QED BY <1>6, <1>7 DEF SetProperty

\* A verified transaction is recorded as applied.
LEMMA VerifyAhead ==
    ASSUME IInv, FocusOK, AheadInv, Verify
    PROVE  AheadInv'
<1> DEFINE k == job.key
           r == managed[job.key]
           n == Applied(r, cur[k])
<1>1. /\ pc = "verify" /\ call.target \in alive
      /\ Matches(call.own, call.applied, cur[call.target])
      /\ Store(k, Applied(r, cur[call.target])) /\ PersistThen("scan")
      /\ UNCHANGED <<world, disk>>
    BY DEF Verify, files
<1>2. /\ k \in Keys /\ k \in born /\ r \in Record /\ r.pending # None
      /\ Loadable(r) /\ Sound(r) /\ cur[k] \in State
      /\ call.target = k /\ call.own = r.own
      /\ k \in alive => Honest(r, cur[k], base[k])
    BY <1>1, CallAhead
<1>3. call.applied = r.pending
    BY <1>1 DEF AheadInv, TransactOK, Visited
<1>4. n \in Record /\ Sound(n) /\ Honest(n, cur[k], base[k])
    BY <1>1, <1>2, <1>3, VerifiedAhead
<1>5. Store(k, n) /\ Phase' \in CalmPhases /\ pc # "stopped"
    BY <1>1, <1>2 DEF PersistThen, Phase, CalmPhases
<1> HIDE DEF n, k, r
<1> QED BY <1>1, <1>2, <1>4, <1>5, StoreStepAhead

\* A mismatch leaves the transaction to be rolled back.
LEMMA MismatchAhead ==
    ASSUME IInv, AheadInv, Mismatch
    PROVE  AheadInv'
<1>1. /\ pc = "verify" /\ pc' = "rollback"
      /\ UNCHANGED <<world, disk, managed, job, call>>
    BY DEF Mismatch, Goto, files
<1>2. SoundOK' /\ HonestOK'
    BY <1>1, SameAhead
<1>3. ForeseenOK' /\ IntentOK' /\ GivingOK'
    BY <1>1 DEF ForeseenOK, IntentOK, GivingOK, Phase, GivingBack, Restoring
<1>4. TransactOK'
    BY <1>1 DEF AheadInv, TransactOK, Undoing, Asked, Visited
<1> QED BY <1>2, <1>3, <1>4 DEF AheadInv

\* The rollback starts from a query of the process.
LEMMA BeginRollbackAhead ==
    ASSUME IInv, FocusOK, AheadInv, BeginRollback
    PROVE  AheadInv'
<1>1. /\ pc = "rollback" /\ UNCHANGED <<world, disk, managed, job>>
    BY DEF BeginRollback, files
<1>2. SoundOK' /\ HonestOK'
    BY <1>1, SameAhead
<1>3. CASE call.target \in alive /\ Observing(call.target, "rollback")
    <2>1. /\ pc' \in {"restore", "requery"} /\ call'.then = "rollback"
          /\ call'.target = call.target /\ call'.left = Props
          /\ call'.observed = cur[call.target]
          /\ call'.applied = call.applied /\ call'.pending = call.pending
          /\ call'.original = call.original
        BY <1>3 DEF Observing, Goto, IInv, TypeOK, Call
    <2>2. ForeseenOK' /\ IntentOK'
        BY <2>1 DEF ForeseenOK, IntentOK, Phase
    <2>3. TransactOK'
        BY <1>1, <2>1 DEF AheadInv, TransactOK, Undoing, Asked, Visited
    <2>4. GivingOK'
        BY <1>1, <2>1, CallAhead DEF GivingOK, GivingBack, Current, world
    <2> QED BY <1>2, <2>2, <2>3, <2>4 DEF AheadInv
<1>4. CASE Goto("refused")
    <2>1. Phase' \in CalmPhases
        BY <1>4 DEF Goto, Phase, CalmPhases
    <2> QED BY <1>1, <2>1, CalmStepAhead
<1> QED BY <1>3, <1>4 DEF BeginRollback

\* The restore starts from a query of the process.
LEMMA OpenRestoreAhead ==
    ASSUME IInv, FocusOK, AheadInv, OpenRestore
    PROVE  AheadInv'
<1> DEFINE k == job.key
<1>1. /\ pc = "open" /\ UNCHANGED <<world, disk, managed, job>>
    BY DEF OpenRestore, files
<1>2. /\ k \in Keys /\ cur[k] \in State
    <2>1. Phase \in Visiting
        BY <1>1 DEF Phase, Visiting, Restoring
    <2> QED BY <2>1, VisitedAhead
<1>3. k \in alive /\ Observing(k, call.then)
    BY <1>2, OpensItself DEF OpenRestore
<1>4. SoundOK' /\ HonestOK'
    BY <1>1, SameAhead
<1>5. /\ pc' \in {"restore", "requery"} /\ call'.then = call.then
      /\ call'.target = k /\ call'.left = Props
      /\ call'.observed = cur[k]
      /\ call'.applied = call.applied /\ call'.pending = call.pending
      /\ call'.original = call.original
      /\ call'.unrestored = call.unrestored
    BY <1>3 DEF Observing, Goto, IInv, TypeOK, Call
<1>6. /\ call.then # "rollback" /\ call.unrestored = {}
      /\ call.original = managed[k].original
      /\ call.applied = managed[k].applied
      /\ call.pending = managed[k].pending
    BY <1>1 DEF FocusOK, AheadInv, GivingOK, GivingBack, Restoring, IInv,
                CallOK, Visited
<1>7. ForeseenOK' /\ IntentOK' /\ TransactOK'
    BY <1>5, <1>6 DEF ForeseenOK, IntentOK, TransactOK, Phase, Undoing
<1>8. GivingOK'
    <2>1. NextProp(Props) \in Props
        BY RecordAssumption DEF NextProp
    <2> QED BY <1>1, <1>5, <1>6, <2>1
            DEF GivingOK, GivingBack, Current, Changed, Visited, world
<1> QED BY <1>4, <1>7, <1>8 DEF AheadInv

\* A restore that is refused leaves the records, but for a process gone.
LEMMA RestoreRefusedAhead ==
    ASSUME IInv, AheadInv, RestoreRefused
    PROVE  AheadInv'
<1>1. /\ pc = "open" /\ pc # "stopped" /\ UNCHANGED <<world, disk>>
      /\ Phase' \in CalmPhases
    BY DEF RestoreRefused, Goto, Phase, CalmPhases, files
<1>2. job.key \in Keys
    <2>1. Phase \in Visiting
        BY <1>1 DEF Phase, Visiting, Restoring
    <2> QED BY <2>1, VisitedAhead
<1>3. CASE managed' = managed
    BY <1>1, <1>3, CalmStepAhead
<1>4. CASE Gone(job.key) /\ Store(job.key, None)
    <2>1. job.key \notin alive
        BY <1>2, <1>4, OpensItself
    <2> QED BY <1>1, <1>2, <1>4, <2>1, StoreStepAhead
<1> QED BY <1>3, <1>4 DEF RestoreRefused, Store

\* The second query brings what was seen of the rest up to date.
LEMMA QueryMemoryAhead ==
    ASSUME IInv, FocusOK, AheadInv, QueryMemory
    PROVE  AheadInv'
<1> DEFINE k == job.key
           r == managed[job.key]
<1>1. /\ pc = "requery" /\ pc' = "restore" /\ call.target \in alive
      /\ UNCHANGED <<world, disk, managed, job>>
      /\ call' = [call EXCEPT !.observed =
                      Overlay(call.observed, call.left, cur[call.target])]
    BY DEF QueryMemory, Goto, files
<1>2. k \in Keys /\ call.target = k /\ k \in alive
    BY <1>1, CallAhead DEF Asked
<1>3. /\ call' = [call EXCEPT !.observed = call'.observed]
      /\ \A p \in Props : call'.observed[p] = IF p \in call.left THEN cur[k][p]
                                             ELSE call.observed[p]
    BY <1>1, <1>2 DEF IInv, TypeOK, Call, Overlay
<1>4. /\ call'.then = call.then /\ call'.left = call.left
      /\ call'.original = call.original /\ call'.applied = call.applied
      /\ call'.pending = call.pending /\ call'.target = call.target
      /\ call'.unrestored = call.unrestored
    BY <1>1 DEF IInv, TypeOK, Call
<1>5. SoundOK' /\ HonestOK'
    BY <1>1, SameAhead
<1>6. ForeseenOK' /\ IntentOK'
    BY <1>1 DEF ForeseenOK, IntentOK, Phase
<1>7. TransactOK'
    BY <1>1, <1>4 DEF AheadInv, TransactOK, Undoing, Asked, Visited
<1>8. GivingOK'
    <2>1. NextProp(call.left) \in call.left /\ NextProp(call.left) \in Props
        BY <1>1, NextPropLeft DEF IInv, TypeOK, CallOK, Call
    <2>2. call.unrestored \cap call.left = {} /\ call.left \subseteq Props
        BY <1>1 DEF IInv, CallOK, Restoring, TypeOK, Call, Mask
    <2>3. GivingBack' => GivingBack /\ pc # "open"
        BY <1>1, <1>4 DEF GivingBack, Restoring
    <2>4. /\ Visited' = Visited /\ job'.key = k /\ cur' = cur /\ base' = base
          /\ alive' = alive
        BY <1>1 DEF Visited, world
    <2>5. GivingBack' =>
              /\ call'.original = Visited'.original
              /\ call'.applied = Visited'.applied
              /\ call'.pending = Visited'.pending
        BY <1>4, <2>3, <2>4 DEF AheadInv, GivingOK
    <2>6. call'.observed[NextProp(call'.left)] = cur'[k][NextProp(call'.left)]
        BY <1>3, <1>4, <2>1, <2>4
    <2>7. ASSUME GivingBack', NEW p \in Props
          PROVE  /\ Changed(p)' => /\ cur'[k][p] = call'.observed[p]
                                   /\ p \in call'.left \cup call'.unrestored
                 /\ p \in call'.unrestored =>
                       call'.observed[p] \in OwnValues(Visited, p)'
                                               \cup {Visited'.original[p]}
        <3>1. /\ Changed(p) => /\ cur[k][p] = call.observed[p]
                               /\ p \in call.left \cup call.unrestored
              /\ p \in call.unrestored =>
                    call.observed[p] \in OwnValues(Visited, p)
                                            \cup {Visited.original[p]}
            BY <1>2, <2>3, <2>7 DEF AheadInv, GivingOK, Current
        <3>2. Changed(p)' <=> Changed(p)
            BY <2>4 DEF Changed
        <3> QED BY <1>3, <1>4, <2>2, <2>4, <3>1, <3>2
    <2> HIDE DEF k, r
    <2> QED BY <1>1, <2>4, <2>5, <2>6, <2>7 DEF GivingOK, Current, k
<1> QED BY <1>5, <1>6, <1>7, <1>8 DEF AheadInv

\* A note of a restore on property p is right about it.
LEMMA NoteAhead ==
    ASSUME IInv, AheadInv, pc \in {"restore", "requery"},
           NEW p, p = NextProp(call.left), NEW seen \in Value,
           NEW unrestored \in BOOLEAN, NEW external \in BOOLEAN,
           Note(p, seen, unrestored, external),
           UNCHANGED <<alive, base, disk, managed, job>>,
           SoundOK', HonestOK',
           job.key \in alive =>
              \A q \in Props : q # p => cur'[job.key][q] = cur[job.key][q],
           GivingBack /\ job.key \in alive
              /\ cur'[job.key][p] # base[job.key][p]
              => unrestored /\ cur'[job.key][p] = seen,
           GivingBack /\ job.key \in alive /\ unrestored =>
              seen \in OwnValues(Visited, p) \cup {Visited.original[p]}
    PROVE  AheadInv'
<1> DEFINE k == job.key
<1>1. /\ call' \in Call
      /\ call'.target = call.target /\ call'.then = call.then
      /\ call'.own = call.own
      /\ call'.original = call.original /\ call'.applied = call.applied
      /\ call'.observed \in State
      /\ call'.left = call.left \ {p}
      /\ call'.unrestored = IF unrestored THEN call.unrestored \cup {p}
                            ELSE call.unrestored
      /\ call'.external = IF external THEN call.external \cup {p}
                          ELSE call.external
      /\ pc' = IF call.left = {p} THEN "report" ELSE "requery"
      /\ p \in call.left /\ p \in Props
    BY NoteCall DEF IInv
<1>2. /\ call'.pending = call.pending
      /\ \A q \in Props : call'.observed[q] = IF q = p THEN seen
                                             ELSE call.observed[q]
    <2> DEFINE u == IF unrestored THEN call.unrestored \cup {p}
                    ELSE call.unrestored
               x == IF external THEN call.external \cup {p} ELSE call.external
               s == Overlay(call.observed, {p}, [q \in Props |-> seen])
    <2>1. call' = [call EXCEPT !.left = call.left \ {p}, !.observed = s,
                               !.unrestored = u, !.external = x]
        BY DEF Note, IInv, TypeOK, Call
    <2>2. \A q \in Props : s[q] = IF q = p THEN seen ELSE call.observed[q]
        BY DEF Overlay
    <2> HIDE DEF u, x, s
    <2> QED BY <2>1, <2>2 DEF IInv, TypeOK, Call
<1>3. ForeseenOK' /\ IntentOK'
    BY <1>1 DEF ForeseenOK, IntentOK, Phase
<1>4. TransactOK'
    BY <1>1, <1>2 DEF AheadInv, TransactOK, Undoing, Asked, Visited
<1>5. GivingOK'
    <2>1. /\ Visited' = Visited /\ job'.key = k /\ base' = base
          /\ alive' = alive
        BY DEF Visited
    <2>2. GivingBack' => GivingBack /\ pc # "open"
        BY <1>1 DEF GivingBack, Restoring
    <2>3. GivingBack' =>
              /\ call'.original = Visited'.original
              /\ call'.applied = Visited'.applied
              /\ call'.pending = Visited'.pending
        BY <1>1, <1>2, <2>1, <2>2 DEF AheadInv, GivingOK
    <2>4. pc' = "report" => call'.left = {}
        BY <1>1
    <2>5. ASSUME GivingBack', k \in alive, NEW q \in Props
          PROVE  /\ Changed(q)' => /\ cur'[k][q] = call'.observed[q]
                                   /\ q \in call'.left \cup call'.unrestored
                 /\ q \in call'.unrestored =>
                       call'.observed[q] \in OwnValues(Visited, q)'
                                               \cup {Visited'.original[q]}
        <3>1. /\ Changed(q) => /\ cur[k][q] = call.observed[q]
                               /\ q \in call.left \cup call.unrestored
              /\ q \in call.unrestored =>
                    call.observed[q] \in OwnValues(Visited, q)
                                            \cup {Visited.original[q]}
            BY <2>2, <2>5 DEF AheadInv, GivingOK, Current
        <3>2. Changed(q)' <=> cur'[k][q] # base[k][q]
            BY <2>1 DEF Changed
        <3>3. CASE q # p
            <4>1. Changed(q)' <=> Changed(q)
                BY <2>5, <3>2, <3>3 DEF Changed
            <4>2. /\ call'.observed[q] = call.observed[q]
                  /\ cur'[k][q] = cur[k][q]
                  /\ q \in call'.unrestored <=> q \in call.unrestored
                  /\ q \in call'.left <=> q \in call.left
                BY <1>1, <1>2, <2>5, <3>3
            <4> QED BY <2>1, <3>1, <4>1, <4>2
        <3>4. CASE q = p
            <4>1. p \notin call.unrestored
                BY <1>1 DEF IInv, CallOK, Restoring
            <4>2. q \in call'.unrestored <=> unrestored
                BY <1>1, <3>4, <4>1
            <4>3. call'.observed[q] = seen
                BY <1>2, <3>4
            <4>4. Changed(q)' => unrestored /\ cur'[k][q] = seen
                BY <2>2, <2>5, <3>2, <3>4
            <4>5. unrestored => seen \in OwnValues(Visited, q)
                                            \cup {Visited.original[q]}
                BY <2>2, <2>5, <3>4
            <4> QED BY <2>1, <4>2, <4>3, <4>4, <4>5
        <3> QED BY <3>3, <3>4
    <2> HIDE DEF k
    <2> QED BY <1>1, <2>1, <2>3, <2>4, <2>5 DEF GivingOK, Current, k
<1> QED BY <1>3, <1>4, <1>5 DEF AheadInv

\* A value the thread takes for its own is one the record knows.
LEMMA MineAhead ==
    ASSUME IInv, FocusOK, AheadInv, pc \in {"restore", "requery"},
           NEW p \in Props
    PROVE  /\ GivingBack => (Mine(p) <=>
                  call.observed[p] \in OwnValues(managed[job.key], p))
           /\ Mine(p) => /\ p \in managed[job.key].own
                         /\ call.observed[p] \in OwnValues(managed[job.key], p)
<1> DEFINE r == managed[job.key]
<1>1. r \in Record /\ call.own = r.own
    BY CallAhead DEF Asked
<1>2. GivingBack => call.applied = r.applied /\ call.pending = r.pending
    BY DEF AheadInv, GivingOK, Visited
<1>3. Undoing => call.applied = r.pending /\ call.pending = None
    BY DEF AheadInv, TransactOK, Visited
<1>4. GivingBack \/ Undoing
    BY DEF GivingBack, Undoing, Asked, Restoring
<1>5. Undoing => r.pending # None
    BY DEF Undoing, Asked, Restoring, IInv, VisitOK
<1>6. GivingBack => ~ Undoing
    BY DEF GivingBack, Undoing
<1>7. OwnValues(r, p) = IF p \notin r.own THEN {}
                        ELSE IF r.pending = None THEN {r.applied[p]}
                        ELSE {r.applied[p], r.pending[p]}
    BY <1>1, OwnValuesIs
<1> HIDE DEF r
<1> QED BY <1>1, <1>2, <1>3, <1>4, <1>5, <1>6, <1>7 DEF Mine, r

\* When the second query fails the value seen before is one of the record's.
LEMMA QueryMemoryFailsAhead ==
    ASSUME IInv, FocusOK, AheadInv, Perils = {}, QueryMemoryFails
    PROVE  AheadInv'
<1> DEFINE k == job.key
           r == managed[job.key]
           p == NextProp(call.left)
<1>1. /\ pc = "requery" /\ UNCHANGED <<world, disk, managed, job>>
      /\ Note(p, call.observed[p], p \in call.own, FALSE)
      /\ call.target \in alive /\ p \in call.own => Mine(p)
    BY DEF QueryMemoryFails, files
<1>2. p \in Props /\ call.observed[p] \in Value
    BY <1>1, RestoreFocus
<1>3. /\ k \in Keys /\ call.target = k /\ call.own = r.own
      /\ r \in Record
      /\ k \in alive => Honest(r, cur[k], base[k])
    BY <1>1, CallAhead DEF Asked
<1>4. SoundOK' /\ HonestOK'
    BY <1>1, SameAhead
<1>5. ASSUME GivingBack, k \in alive, cur[k][p] # base[k][p]
      PROVE  p \in call.own /\ cur[k][p] = call.observed[p]
    <2>1. p \in call.own
        BY <1>2, <1>3, <1>5, OwnValuesIs DEF Honest
    <2>2. Changed(p)
        BY <1>5 DEF Changed
    <2>3. cur[k][p] = call.observed[p]
        BY <1>1, <1>2, <1>5, <2>2 DEF AheadInv, GivingOK, Current
    <2> QED BY <2>1, <2>3
<1>6. ASSUME GivingBack, k \in alive, p \in call.own
      PROVE  call.observed[p] \in OwnValues(Visited, p)
    BY <1>1, <1>2, <1>3, <1>6, MineAhead DEF Visited
<1>7. /\ p = NextProp(call.left) /\ (p \in call.own) \in BOOLEAN
      /\ pc \in {"restore", "requery"}
      /\ UNCHANGED <<alive, base, cur, disk, managed, job>>
    BY <1>1 DEF world
<1> HIDE DEF p
<1> QED BY <1>1, <1>2, <1>4, <1>5, <1>6, <1>7, NoteAhead

\* What is skipped has the value an outsider left in it.
LEMMA SkipPropertyAhead ==
    ASSUME IInv, FocusOK, AheadInv, SkipProperty
    PROVE  AheadInv'
<1> DEFINE k == job.key
           r == managed[job.key]
           p == NextProp(call.left)
           external == p \in call.own /\ ~ Mine(p)
<1>1. /\ pc = "restore" /\ UNCHANGED <<world, disk, managed, job>>
      /\ Note(p, call.observed[p], FALSE, external)
      /\ Mine(p) => call.observed[p] = call.original[p]
    BY DEF SkipProperty, files
<1>2. p \in Props /\ call.observed[p] \in Value
    BY <1>1, RestoreFocus
<1>3. /\ k \in Keys /\ call.own = r.own /\ r \in Record
      /\ k \in alive => Honest(r, cur[k], base[k])
    BY <1>1, CallAhead DEF Asked
<1>4. SoundOK' /\ HonestOK'
    BY <1>1, SameAhead
<1>5. ASSUME GivingBack, k \in alive
      PROVE  cur[k][p] = base[k][p]
    <2>1. cur[k][p] = call.observed[p]
        BY <1>1, <1>5 DEF AheadInv, GivingOK, Current
    <2>2. call.original = r.original
        BY <1>5 DEF AheadInv, GivingOK, Visited
    <2>3. Mine(p) <=> cur[k][p] \in OwnValues(r, p)
        BY <1>1, <1>2, <1>5, <2>1, MineAhead
    <2> QED BY <1>1, <1>2, <1>3, <1>5, <2>1, <2>2, <2>3 DEF Honest
<1>6. /\ p = NextProp(call.left) /\ external \in BOOLEAN
      /\ pc \in {"restore", "requery"}
      /\ UNCHANGED <<alive, base, cur, disk, managed, job>>
    BY <1>1 DEF world
<1> HIDE DEF p, external
<1> QED BY <1>1, <1>2, <1>4, <1>5, <1>6, NoteAhead

\* A property that is due is one the service changed, or one a rollback has
\* found at its pending value: writing it keeps the records honest.
LEMMA DuePutAhead ==
    ASSUME IInv, FocusOK, AheadInv, NEW p \in Props, Due(p),
           UNCHANGED <<born, alive, base, disk, managed>>,
           call.target \in alive, Put(p, call.original[p])
    PROVE  /\ SoundOK' /\ HonestOK' /\ job.key \in alive
           /\ \A q \in Props : q # p => cur'[job.key][q] = cur[job.key][q]
           /\ GivingBack =>
                 /\ cur'[job.key][p] = base[job.key][p]
                 /\ cur[job.key][p] # base[job.key][p]
<1> DEFINE k == job.key
           r == managed[job.key]
           v == call.original[p]
<1>1. /\ pc = "restore" /\ p = NextProp(call.left) /\ Mine(p)
      /\ call.observed[p] # v
    BY DEF Due
<1>2. /\ k \in alive /\ k = call.target /\ r \in Record
      /\ Honest(r, cur[k], base[k]) /\ Honest(disk[k], cur[k], base[k])
    BY <1>1, CallAhead DEF Asked
<1>3. cur[k][p] = call.observed[p]
    BY <1>1, <1>2 DEF AheadInv, GivingOK, Current
<1>4. p \in r.own /\ cur[k][p] \in OwnValues(r, p)
    BY <1>1, <1>3, MineAhead
<1>5. r.original[p] = base[k][p]
    BY <1>2, <1>4 DEF Honest
<1>6. CASE GivingBack
    <2>1. v = base[k][p] /\ cur[k][p] # base[k][p]
        BY <1>1, <1>3, <1>5, <1>6 DEF AheadInv, GivingOK, Visited
    <2>2. disk[k].original[p] = base[k][p]
        BY <1>2, <2>1 DEF Honest
    <2>3. pc # "stopped" /\ Put(p, v)
        BY <1>1
    <2>4. /\ SoundOK' /\ HonestOK'
          /\ \A q \in Props : cur'[k][q] = IF q = p THEN v ELSE cur[k][q]
        <3>1. k \in alive /\ k = call.target /\ r.original[p] = base[k][p]
            BY <1>2, <1>5
        <3> HIDE DEF k, v
        <3> QED BY <1>5, <2>1, <2>2, <2>3, <3>1, PutAhead DEF k
    <2> QED BY <1>2, <2>1, <2>4
<1>7. CASE ~ GivingBack
    <2>1. Undoing
        BY <1>1, <1>7 DEF GivingBack, Undoing, Asked, Restoring
    <2>2. disk[k] = r /\ v = r.applied[p]
        BY <1>4, <2>1 DEF AheadInv, TransactOK, Visited
    <2>3. v \in OwnValues(r, p)
        BY <1>2, <1>4, <2>2, OwnValuesIs
    <2>4. pc # "stopped" /\ Put(p, v)
        BY <1>1
    <2>5. /\ v \in OwnValues(disk[k], p) /\ v \in OwnValues(managed[k], p)
          /\ disk[k].original[p] = base[k][p]
          /\ managed[k].original[p] = base[k][p]
        BY <1>5, <2>2, <2>3
    <2>6. /\ SoundOK' /\ HonestOK'
          /\ \A q \in Props : cur'[k][q] = IF q = p THEN v ELSE cur[k][q]
        <3>1. k \in alive /\ k = call.target
            BY <1>2
        <3> HIDE DEF k, v
        <3> QED BY <2>4, <2>5, <3>1, PutAhead
    <2> QED BY <1>2, <1>7, <2>6
<1> QED BY <1>6, <1>7

\* What is restored has the value an outsider left in it.
LEMMA RestorePropertyAhead ==
    ASSUME IInv, FocusOK, AheadInv, RestoreProperty
    PROVE  AheadInv'
<1>1. PICK p \in Props : /\ Due(p) /\ Put(p, call.original[p])
                         /\ Note(p, call.original[p], FALSE, FALSE)
    BY DEF RestoreProperty
<1>2. /\ call.target \in alive
      /\ UNCHANGED <<born, alive, base, disk, managed, job>>
    BY DEF RestoreProperty, files
<1>3. /\ SoundOK' /\ HonestOK' /\ job.key \in alive
      /\ \A q \in Props : q # p => cur'[job.key][q] = cur[job.key][q]
      /\ GivingBack => cur'[job.key][p] = base[job.key][p]
    BY <1>1, <1>2, DuePutAhead
<1>4. /\ pc \in {"restore", "requery"} /\ p = NextProp(call.left)
      /\ call.original[p] \in Value
    BY <1>1, RestoreFocus DEF Due
<1> QED BY <1>1, <1>2, <1>3, <1>4, NoteAhead

\* What could not be restored stays owned, with a value of the record.
LEMMA RestorePropertyFailsAhead ==
    ASSUME IInv, FocusOK, AheadInv, RestorePropertyFails
    PROVE  AheadInv'
<1> DEFINE k == job.key
<1>1. PICK p \in Props :
          /\ Due(p)
          /\ \/ /\ UNCHANGED cur
                /\ \E seen \in {call.observed[p], cur[call.target][p]} :
                      Note(p, seen, TRUE, FALSE)
             \/ /\ call.target \in alive
                /\ Put(p, call.original[p])
                /\ \E seen \in {call.observed[p], call.original[p]} :
                      Note(p, seen, TRUE, FALSE)
    BY DEF RestorePropertyFails
<1>2. UNCHANGED <<born, alive, base, disk, managed, job>>
    BY DEF RestorePropertyFails, files
<1>3. /\ pc = "restore" /\ p = NextProp(call.left) /\ Mine(p)
      /\ call.observed[p] \in Value /\ call.original[p] \in Value
      /\ cur[call.target][p] \in Value
    BY <1>1, RestoreFocus DEF Due
<1>4. /\ call.target = k
      /\ k \in alive => cur[k][p] = call.observed[p]
      /\ call.observed[p] \in OwnValues(Visited, p)
      /\ GivingBack => call.original = Visited.original
    BY <1>3, CallAhead, MineAhead
       DEF Asked, AheadInv, GivingOK, Current, Visited
<1>5. CASE /\ UNCHANGED cur
           /\ \E seen \in {call.observed[p], cur[call.target][p]} :
                 Note(p, seen, TRUE, FALSE)
    <2>1. PICK seen \in {call.observed[p], cur[call.target][p]} :
              Note(p, seen, TRUE, FALSE)
        BY <1>5
    <2>2. SoundOK' /\ HonestOK'
        BY <1>2, <1>3, <1>5, SameAhead DEF world
    <2>3. /\ seen \in Value
          /\ k \in alive => cur'[k][p] = seen
          /\ k \in alive => seen \in OwnValues(Visited, p)
        BY <1>3, <1>4, <1>5, <2>1
    <2>4. pc \in {"restore", "requery"}
        BY <1>3
    <2> QED BY <1>2, <1>3, <1>5, <2>1, <2>2, <2>3, <2>4, NoteAhead
<1>6. CASE /\ call.target \in alive /\ Put(p, call.original[p])
           /\ \E seen \in {call.observed[p], call.original[p]} :
                 Note(p, seen, TRUE, FALSE)
    <2>1. PICK seen \in {call.observed[p], call.original[p]} :
              Note(p, seen, TRUE, FALSE)
        BY <1>6
    <2>2. /\ SoundOK' /\ HonestOK' /\ k \in alive
          /\ \A q \in Props : q # p => cur'[k][q] = cur[k][q]
          /\ GivingBack => cur'[k][p] = base[k][p]
        BY <1>1, <1>2, <1>6, DuePutAhead
    <2>3. /\ seen \in Value
          /\ GivingBack => seen \in OwnValues(Visited, p)
                                        \cup {Visited.original[p]}
        BY <1>3, <1>4, <2>1
    <2>4. pc \in {"restore", "requery"}
        BY <1>3
    <2> QED BY <1>2, <1>3, <2>1, <2>2, <2>3, <2>4, NoteAhead
<1> QED BY <1>1, <1>5, <1>6

\* Of a process that exited under the handle nothing is said.
LEMMA RestorePropertyGoneAhead ==
    ASSUME IInv, FocusOK, AheadInv, RestorePropertyGone
    PROVE  AheadInv'
<1>1. PICK p \in Props : Due(p) /\ Note(p, call.observed[p], TRUE, FALSE)
    BY DEF RestorePropertyGone
<1>2. /\ call.target \notin alive
      /\ UNCHANGED <<world, disk, managed, job>>
    BY DEF RestorePropertyGone, files
<1>3. /\ pc = "restore" /\ p = NextProp(call.left)
      /\ call.observed[p] \in Value
    BY <1>1, RestoreFocus DEF Due
<1>4. call.target = job.key
    BY <1>3, CallAhead DEF Asked
<1>5. SoundOK' /\ HonestOK'
    BY <1>2, <1>3, SameAhead
<1>6. /\ pc \in {"restore", "requery"} /\ job.key \notin alive
      /\ UNCHANGED <<alive, base, disk, managed, job>>
    BY <1>2, <1>3, <1>4 DEF world
<1> QED BY <1>1, <1>3, <1>5, <1>6, NoteAhead

\* A report becomes a record that owns what is still changed.
LEMMA EndRestoreAhead ==
    ASSUME IInv, FocusOK, AheadInv, EndRestore
    PROVE  AheadInv'
<1> DEFINE k == job.key
           r == managed[job.key]
           q == Reported(r, call)
<1>1. pc = "report" /\ pc # "stopped" /\ UNCHANGED <<world, disk>>
    BY DEF EndRestore, files
<1>2. /\ k \in Keys /\ k \in born /\ r \in Record /\ Loadable(r) /\ Sound(r)
      /\ k \in alive => Honest(r, cur[k], base[k])
    BY <1>1, CallAhead DEF Asked
<1>3. CASE call.then = "rollback"
    <2>1. managed' = managed /\ Phase' \in CalmPhases
        BY <1>3 DEF EndRestore, Goto, Phase, CalmPhases
    <2> QED BY <1>1, <2>1, CalmStepAhead
<1>4. CASE call.then # "rollback"
    <2>1. GivingBack
        BY <1>1, <1>4 DEF GivingBack, Restoring
    <2>2. /\ call.observed \in State /\ call.external \subseteq Props
          /\ call.unrestored \subseteq r.own
          /\ call.unrestored \cap call.external = {}
        BY <1>1 DEF IInv, CallOK, TypeOK, Call, Mask, Restoring
    <2>3. ASSUME k \in alive, NEW p \in Props
          PROVE  /\ cur[k][p] # base[k][p] => /\ cur[k][p] = call.observed[p]
                                             /\ p \in call.unrestored
                 /\ p \in call.unrestored =>
                       call.observed[p] \in OwnValues(r, p)
                                               \cup {r.original[p]}
        BY <1>1, <2>1, <2>3
           DEF AheadInv, GivingOK, Changed, Current, Visited
    <2>4. /\ q \in Record /\ Sound(q)
          /\ k \in alive => Honest(q, cur[k], base[k])
        BY <1>2, <2>2, <2>3, ReportedAhead
    <2>5. \A n \in {q, None} : q.own = {} =>
              /\ n \in Record \cup {None}
              /\ k \in alive => Honest(n, cur[k], base[k])
        <3>1. q.own = {} /\ k \in alive => Honest(None, cur[k], base[k])
            BY <2>4, HonestNone
        <3> QED BY <2>4, <3>1
    <2>6. PICK n \in {q, None} :
              /\ Store(k, n) /\ Phase' \in CalmPhases
              /\ n # q => q.own = {} \/ r.own = {}
        <3>1. \/ Store(k, q) /\ PersistThen("scan")
              \/ Store(k, Kept(q)) /\ PersistThen("scan")
              \/ /\ Store(k, IF q.own = {} THEN None ELSE q)
                 /\ Goto("cleanup")
            BY <1>4 DEF EndRestore
        <3>2. PersistThen("scan") \/ Goto("cleanup") => Phase' \in CalmPhases
            BY DEF PersistThen, Goto, Phase, CalmPhases
        <3>3. Kept(q) = q \/ (Kept(q) = None /\ q.own = {})
            BY DEF Kept, Retained
        <3> HIDE DEF q
        <3> QED BY <3>1, <3>2, <3>3
    <2>7. n # q => q.own = {}
        <3>1. q.own = call.unrestored
            BY DEF Reported
        <3> HIDE DEF q
        <3> QED BY <2>2, <2>6, <3>1
    <2>8. /\ n \in Record \cup {None}
          /\ n # None => k \in born /\ Sound(n)
          /\ k \in alive => Honest(n, cur[k], base[k])
        <3> HIDE DEF q
        <3> QED BY <1>2, <2>4, <2>5, <2>6, <2>7
    <2> HIDE DEF q, k, r
    <2> QED BY <1>1, <1>2, <2>6, <2>8, StoreStepAhead
<1> QED BY <1>3, <1>4

\* A new record is dropped when the process has its original values.
LEMMA RefusedAhead ==
    ASSUME IInv, AheadInv, Refused
    PROVE  AheadInv'
<1> DEFINE k == job.key
           r == managed[job.key]
<1>1. /\ pc = "refused" /\ pc # "stopped" /\ UNCHANGED <<world, disk>>
    BY DEF Refused, files
<1>2. /\ k \in Keys /\ k \in born /\ r \in Record
      /\ k \in alive => Honest(r, cur[k], base[k])
    <2>1. Phase \in Visiting
        BY <1>1 DEF Phase, Visiting, Transacting
    <2> QED BY <2>1, VisitedAhead
<1>3. CASE /\ \E holder \in Keys : /\ Opens(k, holder)
                                   /\ Matches(r.own, r.original, cur[holder])
           /\ Store(k, None) /\ PersistThen("scan")
    <2>1. k \in alive /\ Matches(r.own, r.original, cur[k])
        BY <1>2, <1>3, OpensItself
    <2>2. ASSUME NEW p \in Props PROVE cur[k][p] = base[k][p]
        <3>1. /\ p \in r.own => cur[k][p] = r.original[p]
              /\ cur[k][p] # base[k][p] => cur[k][p] \in OwnValues(r, p)
              /\ cur[k][p] \in OwnValues(r, p) => r.original[p] = base[k][p]
              /\ p \notin r.own => OwnValues(r, p) = {}
            BY <1>2, <2>1, OwnValuesIs DEF Matches, Honest
        <3> QED BY <3>1
    <2>3. Honest(None, cur[k], base[k]) /\ Phase' \in CalmPhases
        BY <1>3, <2>2 DEF Honest, OwnValues, PersistThen, Phase, CalmPhases
    <2>4. Store(k, None)
        BY <1>3
    <2> HIDE DEF k, r
    <2> QED BY <1>1, <1>2, <2>3, <2>4, StoreStepAhead
<1>4. CASE Goto("scan") /\ UNCHANGED managed
    <2>1. Phase' \in CalmPhases
        BY <1>4 DEF Goto, Phase, CalmPhases
    <2> QED BY <1>1, <1>4, <2>1, CalmStepAhead
<1> QED BY <1>3, <1>4 DEF Refused

\* What is left of a transaction that found other values is what was owned
\* before it.
LEMMA LostAhead ==
    ASSUME IInv, AheadInv, Lost
    PROVE  AheadInv'
<1> DEFINE k == job.key
           r == managed[job.key]
           n == AfterLoss(r, cur[k])
<1>1. /\ pc = "lost" /\ pc # "stopped" /\ UNCHANGED <<world, disk>>
      /\ Phase' \in CalmPhases
    BY DEF Lost, files, PersistThen, Phase, CalmPhases
<1>2. /\ k \in Keys /\ k \in born /\ r \in Record /\ Loadable(r)
      /\ cur[k] \in State /\ r.pending # None
      /\ job.prior \cap r.blocked = {}
      /\ k \in alive => Honest(r, cur[k], base[k])
    <2>1. Phase = "lost"
        BY <1>1 DEF Phase
    <2> QED BY <2>1, VisitedAhead DEF IInv, VisitOK, Visiting, Transacting
<1>3. k \in alive /\ Store(k, n)
    BY <1>2, OpensItself DEF Lost
<1>4. /\ job.prior \subseteq r.own
      /\ job.fresh => job.prior = {}
      /\ \A p \in Props : cur[k][p] # base[k][p] =>
            p \in job.prior /\ cur[k][p] = r.applied[p]
    BY <1>1, <1>3 DEF AheadInv, IntentOK, Changed, Current, Visited
<1>5. n \in Record /\ Sound(n) /\ Honest(n, cur[k], base[k])
    <2>1. TypeOK
        BY DEF IInv
    <2>2. Honest(r, cur[k], base[k])
        BY <1>2, <1>3
    <2> HIDE DEF k, r
    <2> QED BY <1>2, <1>4, <2>1, <2>2, AfterLossAhead
<1> HIDE DEF n, k, r
<1> QED BY <1>1, <1>2, <1>3, <1>5, StoreStepAhead

\* The cleanup drops what owns nothing and asks to restore the rest.
LEMMA CleanupNextAhead ==
    ASSUME IInv, AheadInv, NEW k \in Keys, CleanupNext(k)
    PROVE  AheadInv'
<1> DEFINE r == managed[k]
<1>1. /\ pc = "cleanup" /\ pc # "stopped" /\ UNCHANGED <<world, disk, after>>
      /\ r \in Record
    BY DEF CleanupNext, files, IInv, TypeOK, CleanupOK, Managed
<1>2. k \in alive => Honest(r, cur[k], base[k])
    BY <1>1 DEF AheadInv, HonestOK
<1>3. CASE r.own = {} /\ Store(k, None) /\ UNCHANGED pc
    <2>1. k \in alive => Honest(None, cur[k], base[k])
        BY <1>1, <1>2, <1>3, HonestNone
    <2>2. Phase' \in CalmPhases /\ Store(k, None)
        BY <1>1, <1>3 DEF Phase, CalmPhases
    <2> HIDE DEF r
    <2> QED BY <1>1, <2>1, <2>2, StoreStepAhead
<1>4. CASE AskRestore(r, r.pending, "cleanup") /\ UNCHANGED managed
    <2>1. r = managed[job'.key]
        BY DEF CleanupNext, NoJob
    <2> QED BY <1>1, <1>4, <2>1, AskRestoreAhead
<1> QED BY <1>3, <1>4 DEF CleanupNext

-----------------------------------------------------------------------------
\* The service starts without records.
LEMMA InitAhead == Init => AheadInv
<1> SUFFICES ASSUME Init PROVE AheadInv
    OBVIOUS
<1>1. SoundOK /\ HonestOK
    BY DEF Init, SoundOK, HonestOK
<1>2. ForeseenOK /\ IntentOK
    BY DEF Init, ForeseenOK, IntentOK, Phase
<1>3. TransactOK /\ GivingOK
    BY DEF Init, TransactOK, GivingOK, Undoing, GivingBack, Asked, Restoring
<1> QED BY <1>1, <1>2, <1>3 DEF AheadInv

\* While no outsider writes inside a platform call, every step preserves what
\* the records say of the processes.
LEMMA NextAhead ==
    ASSUME Perils = {}, IInv, FocusOK, AheadInv, [Next]_vars
    PROVE  AheadInv'
<1>1. CASE Environment
    BY <1>1, CalmActionsAhead, BirthAhead, ExitAhead, OutsiderWritesAhead,
           CrashAhead
       DEF Environment
<1>2. CASE Reconcile
    BY <1>2, CalmActionsAhead, VisitAhead, QueryFailsAhead, ResolveAhead,
           ExamineAhead, LetGoAhead, UpdateAhead, AdoptAhead, RefusedAhead,
           LostAhead
       DEF Reconcile
<1>3. CASE PlatformCall
    <2>1. ~ RestoreRace
        BY DEF RestoreRace
    <2> QED BY <1>3, <2>1, CalmActionsAhead, OpenApplyAhead,
           SetPropertyAhead, VerifyAhead, MismatchAhead, BeginRollbackAhead,
           OpenRestoreAhead, RestoreRefusedAhead, QueryMemoryAhead,
           QueryMemoryFailsAhead, SkipPropertyAhead, RestorePropertyAhead,
           RestorePropertyFailsAhead, RestorePropertyGoneAhead,
           EndRestoreAhead
       DEF PlatformCall
<1>4. CASE Start \/ TickInactive \/ Tick \/ Cleanup \/ Persist \/ PersistFails
    BY <1>4, CalmActionsAhead, StartAhead, TickAhead,
           CleanupNextAhead, PersistAhead
       DEF Cleanup
<1>5. CASE UNCHANGED vars
    <2>1. /\ UNCHANGED <<born, alive, cur, base, disk, pc, after, managed, job,
                         call>>
        BY <1>5 DEF vars, world, files, thread
    <2>2. SoundOK' /\ HonestOK'
        BY <2>1 DEF AheadInv, SoundOK, HonestOK
    <2> QED BY <2>1, <2>2, ElsewhereAhead DEF AheadInv
<1> QED BY <1>1, <1>2, <1>3, <1>4, <1>5 DEF Next, Controller

\* The records are sound and honest in every reachable state.
THEOREM RecordsHonest ==
    ASSUME Perils = {}
    PROVE  Spec => [](IInv /\ FocusOK /\ AheadInv)
<1>1. Init => IInv /\ FocusOK /\ AheadInv
    BY InitHolds, InitFocus, InitAhead
<1>2. (IInv /\ FocusOK /\ AheadInv) /\ [Next]_vars
         => (IInv /\ FocusOK /\ AheadInv)'
    BY NextPreserves, NextFocus, NextAhead
<1> QED BY <1>1, <1>2, PTL DEF Spec

\* Whatever the service has changed in a running process, the journal on disk
\* says so and knows what to give back: while no outsider writes inside a
\* platform call and the second query of a restore succeeds.
THEOREM WrittenAhead ==
    ASSUME Perils = {}
    PROVE  Spec => []WriteAhead
<1>1. IInv /\ FocusOK /\ AheadInv => WriteAhead
    BY DEF AheadInv, HonestOK, Honest, WriteAhead, OwnValues
<1> QED BY <1>1, RecordsHonest, PTL

-----------------------------------------------------------------------------
\* While no outsider writes inside a platform call and the second query of a
\* restore (QueryMemory) succeeds, a restore changes only values that differ from what the outsider last left: it gives back, and
\* never overwrites.
THEOREM RestoresGiveBack ==
    ASSUME Perils = {}
    PROVE  Spec => RestoreSparesOutsiders
<1>1. ASSUME IInv, FocusOK, AheadInv, [Next]_vars,
             NEW k \in alive, NEW p \in Props,
             pc = "restore", call.then # "rollback",
             base'[k][p] = base[k][p], cur'[k][p] # cur[k][p]
      PROVE  cur[k][p] # base[k][p]
    <2>1. GivingBack /\ call.target = job.key /\ ~ SetProperty /\ ~ RestoreRace
        BY <1>1 DEF GivingBack, Restoring, FocusOK, Asked, SetProperty,
               RestoreRace
    <2>2. /\ k \in Keys /\ cur[k] \in State /\ base[k] \in State
        BY <1>1 DEF IInv, TypeOK, ValuesOK
    <2>3. ASSUME NEW j \in Keys, NEW q \in Props, NEW v \in Choices[q],
                 OutsiderWrites(j, q, v)
          PROVE  cur[k][p] # base[k][p]
        <3>1. /\ cur' = [cur EXCEPT ![j][q] = v]
              /\ base' = [base EXCEPT ![j][q] = v]
            BY <2>3 DEF OutsiderWrites
        <3>2. j = k /\ q = p
            BY <1>1, <2>2, <3>1 DEF IInv, TypeOK, State
        <3>3. cur'[k][p] = v /\ base'[k][p] = v
            BY <1>1, <2>2, <3>1, <3>2 DEF IInv, TypeOK, State
        <3> QED BY <1>1, <3>3
    <2>4. ASSUME NEW q \in Props, Due(q), Put(q, call.original[q]),
                 call.target \in alive,
                 UNCHANGED <<born, alive, base, disk, managed>>
          PROVE  cur[k][p] # base[k][p]
        <3>1. /\ cur[job.key][q] # base[job.key][q]
            BY <1>1, <2>1, <2>4, DuePutAhead
        <3>2. k = job.key /\ p = q
            BY <1>1, <2>1, <2>2, <2>4 DEF Put, IInv, TypeOK, State
        <3> QED BY <3>1, <3>2
    <2>5. CASE RestoreProperty \/ RestorePropertyFails
        BY <1>1, <2>4, <2>5 DEF RestoreProperty, RestorePropertyFails, files
    <2> QED BY <1>1, <2>1, <2>3, <2>5, NothingWritten
<1>2. (IInv /\ FocusOK /\ AheadInv) /\ [Next]_vars =>
          [\A k \in alive, p \in Props :
              /\ pc = "restore" /\ call.then # "rollback"
              /\ base'[k][p] = base[k][p] /\ cur'[k][p] # cur[k][p]
              => cur[k][p] # base[k][p]]_vars
    BY <1>1
<1> QED BY <1>2, RecordsHonest, PTL DEF Spec, RestoreSparesOutsiders
=============================================================================
