-------------------------- MODULE EfficiencyRecord --------------------------
(***************************************************************************)
(* The data of the background-efficiency journal and the pure functions    *)
(* the service computes on it: ownership masks, the policy's target state  *)
(* and the updates of one ManagedBackgroundProcess record.                 *)
(*                                                                         *)
(* ProcessEfficiencyOwnership, a pair of booleans in the source, is the    *)
(* set of the properties whose flag is TRUE, so that union, intersection,  *)
(* without and is_empty are the set operations.                            *)
(***************************************************************************)
EXTENDS Naturals

CONSTANTS Props,   (* the efficiency properties a record covers            *)
          None     (* the absent pending state or record                   *)

EcoStates == {"Unset", "Disabled", "Enabled"}
MemoryPriorities == {"VeryLow", "Low", "Medium", "BelowNormal", "Normal"}
Value == EcoStates \cup MemoryPriorities

\* ProcessEfficiencyState and ProcessEfficiencyOwnership
State == [Props -> Value]
Mask == SUBSET Props

\* The absent pending mask.
NoMask == {None}

ASSUME RecordAssumption ==
    /\ Props # {} /\ Props \subseteq {"eco_qos", "memory_priority"}
    /\ None \notin State
    /\ None \notin Props

\* ManagedBackgroundProcess, without its key
Record == [original   : State,
           applied    : State,
           own        : Mask,
           pending    : State \cup {None},
           pendingOwn : Mask \cup {NoMask},
           blocked    : Mask]

-----------------------------------------------------------------------------
\* Ownership masks

Between(original, applied) == {p \in Props : original[p] # applied[p]}

Matches(own, expected, observed) ==
    \A p \in own : expected[p] = observed[p]

OverrideMask(expected, observed, own) ==
    {p \in own : expected[p] # observed[p]}

-----------------------------------------------------------------------------
\* The state the policy wants for a process whose original state is given.
\* policy.configured is the set of properties the configuration enables and
\* policy.low is TRUE when the memory-pressure guard sees low memory.

Rank(priority) ==
    CASE priority = "VeryLow"     -> 1
      [] priority = "Low"         -> 2
      [] priority = "Medium"      -> 3
      [] priority = "BelowNormal" -> 4
      [] priority = "Normal"      -> 5

Lower(original, requested) ==
    IF Rank(original) <= Rank(requested) THEN original ELSE requested

Target(p, original, policy) ==
    IF p \notin policy.configured THEN original
    ELSE IF p = "eco_qos" THEN "Enabled"
    ELSE Lower(original, IF policy.low THEN "Low" ELSE "BelowNormal")

Desired(original, policy) ==
    [p \in Props |-> Target(p, original[p], policy)]

\* Mutant: the blocked properties are forgotten.
DesiredOwnUnblocked(original, policy, blocked) ==
    Between(original, Desired(original, policy)) \cap policy.configured

DesiredOwn(original, policy, blocked) ==
    (Between(original, Desired(original, policy)) \cap policy.configured)
        \ blocked

-----------------------------------------------------------------------------
\* Updates of a record

\* The function that takes its values from g on S and from f elsewhere.
Overlay(f, S, g) == [p \in Props |-> IF p \in S THEN g[p] ELSE f[p]]

\* A first record of a process: nothing was applied yet.
NewRecord(original) ==
    [original |-> original, applied |-> original, own |-> {},
     pending |-> None, pendingOwn |-> NoMask, blocked |-> {}]

\* Mutant: only the pending state is cleared.
QuietHalf(r) == [r EXCEPT !.pending = None]

Quiet(r) == [r EXCEPT !.pending = None, !.pendingOwn = NoMask]

Rebase(r, observed) ==
    [r EXCEPT !.original = Overlay(@, Props \ r.own, observed),
              !.applied  = Overlay(@, Props \ r.own, observed)]

Relinquish(r, observed, changed) ==
    [r EXCEPT !.own      = @ \ changed,
              !.blocked  = @ \cup changed,
              !.original = Overlay(@, changed, observed),
              !.applied  = Overlay(@, changed, observed)]

\* Mutant: a restore ends the ownership of what it could not restore too.
ReportedForgetful(r, report) ==
    [NewRecord(report.observed) EXCEPT
        !.blocked = r.blocked \cup report.external]

\* apply_restore_report_to_record: what a finished restore call reports.
Reported(r, report) ==
    [original   |-> Overlay(report.observed, report.unrestored, r.original),
     applied    |-> report.observed,
     own        |-> report.unrestored,
     pending    |-> None,
     pendingOwn |-> NoMask,
     blocked    |-> r.blocked \cup report.external]

\* A pending transaction whose outcome a query settles: it completed, or it
\* never started; a transaction without owned properties is dropped.
Resolved(r, current) ==
    LET settled ==
          IF r.own = {} THEN r
          ELSE IF Matches(r.own, r.pending, current)
          THEN [r EXCEPT !.applied = current, !.own = r.pendingOwn]
          ELSE [r EXCEPT !.own = Between(r.original, r.applied) \ r.blocked]
    IN  Rebase(Quiet(settled), current)

InDoubt(r, current) ==
    /\ r.own # {}
    /\ ~ Matches(r.own, r.pending, current)
    /\ ~ Matches(r.own, r.applied, current)

\* Mutant: the transaction forgets what is owned and no longer desired.
PendingForgetful(r, desired, desiredOwn) ==
    [r EXCEPT !.pending = desired, !.pendingOwn = desiredOwn,
              !.own = desiredOwn]

\* The record the journal holds while the platform is asked for `desired`.
Pending(r, desired, desiredOwn) ==
    [r EXCEPT !.pending    = desired,
              !.pendingOwn = desiredOwn,
              !.own        = @ \cup desiredOwn]

\* Mutant: the pending mask is read after it was cleared.
AppliedLate(r, observed) ==
    LET quiet == Quiet(r) IN
    Rebase([quiet EXCEPT !.applied = observed, !.own = quiet.pendingOwn],
           observed)

\* The platform set and verified the pending state.
Applied(r, observed) ==
    Rebase(Quiet([r EXCEPT !.applied = observed, !.own = r.pendingOwn]),
           observed)

\* What load_background_state accepts.
Loadable(r) ==
    /\ (r.pending = None) <=> (r.pendingOwn = NoMask)
    /\ r.pending # None => r.own # {}
    /\ r.own \cap r.blocked = {}
    /\ r.pendingOwn # NoMask => r.pendingOwn \cap r.blocked = {}
=============================================================================
