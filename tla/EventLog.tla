------------------------------ MODULE EventLog ------------------------------
(***************************************************************************)
(* The service's event log: an active file of bounded size and circular    *)
(* archives, archive 1 the newest. Opening, writing, rotating and pruning  *)
(* are series of file operations, each of which may fail, and the service  *)
(* may crash between any two. Logging is reconfigured while it runs.       *)
(*                                                                         *)
(* A record has size 1, and a limit of 0 stands for one that each record   *)
(* exceeds. files[0] is the active file, files[i] archive i;               *)
(* a file is the sequence of the ages of its records: 0 is the newest one  *)
(* the log has accepted, and what a failed write left is Torn. An          *)
(* operation's outcomes are a set of records: what it leaves, whether it   *)
(* reports success, and how many calls failed on the way.                  *)
(***************************************************************************)
EXTENDS Integers, Sequences, FiniteSets

CONSTANTS
    None,          (* no file; no writer                                    *)
    Torn,
    Top,           (* MAX_RETAINED_LOG_ARCHIVES                             *)
    Configs,       (* logging configurations: level, max, retained          *)
    PruneMayStop,  (* whether a run admits a prune that fails, or that a    *)
                   (* crash ends, half way                                  *)
    MaxAge,        (* bound: records older than this are alike; more than   *)
                   (* the ring of files holds                               *)
    MaxWindow,     (* bound: decisions in a window                          *)
    MaxFaults,     (* bound: failing file operations and crashes            *)
    MaxReloads     (* bound: reconfigurations                               *)

Levels == {"off", "normal", "trace"}

\* RotatingWriter
Writers ==
    [open : BOOLEAN, bytes : Nat, max : Nat, retained : 0 .. Top]

ASSUME EventLogAssumption ==
    /\ Top \in Nat /\ MaxFaults \in Nat /\ MaxReloads \in Nat
    /\ PruneMayStop \in BOOLEAN
    /\ MaxWindow \in Nat \ {0} /\ MaxAge \in Nat \ {0}
    /\ Configs \subseteq [level : Levels, max : Nat, retained : 0 .. Top]
    /\ None \notin Nat /\ Torn \notin Nat /\ Torn # None
    /\ None \notin Configs /\ None \notin Writers
    /\ None \notin Seq(Nat \cup {Torn})

VARIABLES
    files,
    writer,        (* RotatingWriter, None without one                      *)
    applied,       (* the configuration in force, None while stopped        *)
    result,        (* auxiliary: how the last operation ended               *)
    scars,         (* auxiliary: what rejected reconfigurations have left,  *)
                   (* an "archive" beyond the ring, a "writer" without file *)
    window,        (* decisions in the window of DecisionSummaryGate        *)
    unreported,    (* auxiliary: decisions made and in no summary yet       *)
    faults, reloads

vars ==
    <<files, writer, applied, result, scars, window, unreported, faults,
      reloads>>

-----------------------------------------------------------------------------
\* File operations

\* What a file may be.
Files == [0 .. Top -> {None} \cup Seq(0 .. MaxAge \cup {Torn})]

Outcome(F, w, ok, cost) == [files |-> F, writer |-> w, ok |-> ok, cost |-> cost]

\* rotate_files as far as its first steps: the oldest archive is removed,
\* archives and the active file move up one by one, the highest first.
\* Mutant: the lowest first, each onto the next.
RotatedUpwards(F, n, steps) ==
    IF steps = 0 THEN F
    ELSE IF n = 0 THEN [F EXCEPT ![0] = None]
    ELSE [i \in 0 .. Top |->
            IF i = 0 THEN None
            ELSE IF i <= n /\ i <= steps THEN F[0] ELSE F[i]]

Rotated(F, n, steps) ==
    LET Moves(i) == n - steps < i /\ i < n
        Left(i) == IF Moves(i) \/ (i = n /\ steps > 0) THEN None ELSE F[i]
    IN IF n = 0 /\ steps > 0 THEN [F EXCEPT ![0] = None]
       ELSE [i \in 0 .. Top |->
                IF i \in 1 .. n /\ Moves(i - 1) /\ F[i - 1] # None THEN F[i - 1]
                ELSE Left(i)]

RotationSteps(F, n) == IF F[0] = None THEN 0 ELSE n + 1

\* prune_archives as far as its first steps.
Pruned(F, n, steps) ==
    [i \in 0 .. Top |-> IF i > n /\ i <= n + steps THEN None ELSE F[i]]

\* A series of steps ends with the last one or fails before one of them.
Ends(After(_, _, _), F, w, n, last) ==
    {Outcome(After(F, n, last), w, TRUE, 0)}
        \cup {Outcome(After(F, n, i), w, FALSE, 1) : i \in 0 .. last - 1}

RotateFiles(F, w, n) == Ends(Rotated, F, w, n, RotationSteps(F, n))
PruneArchives(F, w, n) ==
    {o \in Ends(Pruned, F, w, n, Top - n) : o.ok \/ PruneMayStop}

\* open_active and the length of what it opened. The file may have been
\* created although its length could not be read.
Opened(F) == IF F[0] = None THEN [F EXCEPT ![0] = <<>>] ELSE F
OpenActive(F, w) ==
    {Outcome(Opened(F), [w EXCEPT !.open = TRUE, !.bytes = Len(Opened(F)[0])],
             TRUE, 0)}
        \cup {Outcome(G, w, FALSE, 1) : G \in {F, Opened(F)}}

\* What an operation leaves if another one, whose outcomes are a function of
\* the first one's, follows when it has succeeded.
Then(S, Op(_)) ==
    UNION {IF ~ o.ok THEN {o}
           ELSE {[p EXCEPT !.cost = @ + o.cost] : p \in Op(o)} : o \in S}

\* RotatingWriter::rotate: the file is reopened whether or not it was moved.
\* Mutant: after a failed rotation it is not.
RotateOrClose(F, w, n) ==
    Then(RotateFiles(F, [w EXCEPT !.open = FALSE, !.bytes = 0], n),
         LAMBDA o : OpenActive(o.files, o.writer))

Rotate(F, w, n) ==
    LET closed == [w EXCEPT !.open = FALSE]
        Reopen(o) ==
            {[p EXCEPT !.ok = @ /\ o.ok, !.cost = @ + o.cost] :
                p \in OpenActive(o.files, closed)}
    IN UNION {Reopen(o) : o \in RotateFiles(F, closed, n)}

\* open_with_limits
Size(F) == IF F[0] = None THEN 0 ELSE Len(F[0])
OpenWithLimits(F, max, n) ==
    LET new == [open |-> FALSE, bytes |-> 0, max |-> max, retained |-> n]
        Shorten(o) == IF Size(o.files) > max THEN RotateFiles(o.files, new, n)
                      ELSE {o}
        Open(o) == OpenActive(o.files, new)
    IN {IF o.ok THEN o ELSE [o EXCEPT !.writer = None] :
            o \in Then(Then(PruneArchives(F, new, n), Shorten), Open)}

-----------------------------------------------------------------------------
\* Reconfiguration

\* reconfigure_limits
ReconfigureLimits(F, w, c) ==
    LET measured == [w EXCEPT !.bytes = Size(F)]
        Prune(o) == IF c.retained < w.retained
                    THEN PruneArchives(o.files, o.writer, c.retained) ELSE {o}
        Shorten(o) == IF o.writer.bytes > c.max
                      THEN Rotate(o.files, o.writer, c.retained) ELSE {o}
        Adopt(o) == {[o EXCEPT !.writer.max = c.max,
                               !.writer.retained = c.retained]}
    IN IF ~ w.open THEN {Outcome(F, w, FALSE, 0)}
       ELSE {Outcome(F, w, FALSE, 1)} \cup
            Then(Then(Then({Outcome(F, measured, TRUE, 0)}, Prune), Shorten),
                 Adopt)

\* RotatingWriter::reconfigure: a failure that cost the file is followed by
\* an attempt to have the old writer again, and is reported in any case.
ReconfigureWriter(F, w, c) ==
    UNION {
        IF o.ok \/ o.writer.open THEN {o}
        ELSE {[files |-> p.files, ok |-> FALSE, cost |-> o.cost + p.cost,
               writer |-> IF p.ok THEN p.writer ELSE o.writer] :
                p \in OpenWithLimits(o.files, w.max, w.retained)} :
        o \in ReconfigureLimits(F, w, c)}

\* EventSink::reconfigure. The same configuration changes nothing, nor does
\* a configuration without logging change a file.
SinkReconfigured(F, w, c) ==
    CASE c = applied -> {Outcome(F, w, TRUE, 0)}
      [] c # applied /\ c.level = "off" -> {Outcome(F, None, TRUE, 0)}
      [] OTHER -> IF w = None THEN OpenWithLimits(F, c.max, c.retained)
                  ELSE ReconfigureWriter(F, w, c)

-----------------------------------------------------------------------------
\* Writing

\* One record more has been accepted.
Aged(age) == IF age \in 0 .. MaxAge - 1 THEN age + 1 ELSE age
Older(F) ==
    [i \in 0 .. Top |->
        IF F[i] = None THEN None ELSE [j \in DOMAIN F[i] |-> Aged(F[i][j])]]

\* The file system takes the whole record, nothing, or a part.
Appended(o) ==
    {Outcome([Older(o.files) EXCEPT ![0] = Append(@, 0)],
             [o.writer EXCEPT !.bytes = @ + 1], TRUE, 0),
     Outcome(o.files, o.writer, FALSE, 1),
     Outcome([o.files EXCEPT ![0] = Append(@, Torn)], o.writer, FALSE, 1)}

\* Mutant: the limit is looked at after the write.
FullLate(w) == w.bytes > w.max

Full(w) == w.bytes # 0 /\ w.bytes + 1 > w.max

\* RotatingWriter::write_line
WriteLine(F, w) ==
    LET Room(o) == IF Full(w) THEN Rotate(o.files, o.writer, w.retained)
                   ELSE {o}
        Put(o) == IF o.writer.open THEN Appended(o)
                  ELSE {[o EXCEPT !.ok = FALSE]}
    IN Then(Then({Outcome(F, w, TRUE, 0)}, Room), Put)

-----------------------------------------------------------------------------
Init ==
    /\ files = [i \in 0 .. Top |-> None]
    /\ writer = None /\ applied = None
    /\ result = "none" /\ scars = {}
    /\ window = 0 /\ unreported = 0
    /\ faults = 0 /\ reloads = 0

\* Some outcome that the bound on faults admits takes place.
Happens(S, good, bad) ==
    \E o \in S :
        /\ faults + o.cost <= MaxFaults
        /\ faults' = faults + o.cost
        /\ files' = o.files /\ writer' = o.writer
        /\ result' = IF o.ok THEN good ELSE bad

Logging == applied # None /\ applied.level # "off"
Counting == applied # None /\ applied.level = "normal"

\* EventLogger::emit, so many times in a row: a record that cannot be written
\* is lost, which the emergency log is told.
Whatever(S, Op(_)) ==
    UNION {{[p EXCEPT !.cost = @ + o.cost] : p \in Op(o)} : o \in S}
Emitted(F, w, count) ==
    CASE count = 0 -> {Outcome(F, w, TRUE, 0)}
      [] count = 1 -> WriteLine(F, w)
      [] count = 2 -> Whatever(WriteLine(F, w),
                               LAMBDA o : WriteLine(o.files, o.writer))

\* EventSink::service: without a log the service does not start. A crash
\* while it opens the log leaves what a failing call leaves.
Start ==
    /\ applied = None
    /\ \E c \in Configs :
        /\ Happens(IF c.level = "off" THEN {Outcome(files, None, TRUE, 0)}
                   ELSE OpenWithLimits(files, c.max, c.retained),
                   "started", "rejected")
        /\ applied' = IF result' = "started" THEN c ELSE None
    /\ scars' = scars \ {"writer"}
    /\ UNCHANGED <<window, unreported, reloads>>

Event ==
    /\ Logging
    /\ Happens(Emitted(files, writer, 1), "accepted", "lost")
    /\ UNCHANGED <<applied, scars, window, unreported, reloads>>

\* EventLogger::decision on the level normal: a window that is due is closed
\* with a summary, the decision counts in the next one, and what is not
\* routine is written as well.
Decision ==
    /\ Counting
    /\ \E due, notable \in BOOLEAN :
        /\ due => window > 0
        /\ due \/ window < MaxWindow
        /\ Happens(Emitted(files, writer,
                      (IF due THEN 1 ELSE 0) + (IF notable THEN 1 ELSE 0)),
                   IF due \/ notable THEN "accepted" ELSE result, "lost")
        /\ window' = IF due THEN 1 ELSE window + 1
        /\ unreported' = IF due THEN unreported - window + 1 ELSE unreported + 1
    /\ UNCHANGED <<applied, scars, reloads>>

\* flush_decision_summary, flush_due_decision_summary: a window that is not
\* empty is summarised.
\* Mutant: only one that is due, as on a tick.
CountedIfDue == IF Counting /\ window = MaxWindow THEN window ELSE 0

Counted == IF Counting THEN window ELSE 0

Summary(F, w) == Emitted(F, w, IF Counted > 0 THEN 1 ELSE 0)

\* At the boundaries that keep the configuration.
Flush ==
    /\ Counting /\ window > 0
    /\ Happens(Summary(files, writer), "accepted", "lost")
    /\ window' = 0 /\ unreported' = unreported - Counted
    /\ UNCHANGED <<applied, scars, reloads>>

Scars(c) ==
    IF result' # "rejected" \/ writer = None THEN {}
    ELSE (IF c.retained > writer.retained THEN {"archive"} ELSE {})
             \cup (IF writer'.open THEN {} ELSE {"writer"})

\* EventLogger::reconfigure: the window is flushed first, and given up with
\* its level.
Reconfigure ==
    /\ applied # None /\ reloads < MaxReloads
    /\ reloads' = reloads + 1
    /\ \E c \in Configs :
        /\ Happens(Whatever(Summary(files, writer),
                      LAMBDA o : SinkReconfigured(o.files, o.writer, c)),
                   "reloaded", "rejected")
        /\ applied' = IF result' = "reloaded" THEN c ELSE applied
        /\ window' = IF \/ Counted > 0
                        \/ result' = "reloaded" /\ c.level # applied.level
                     THEN 0 ELSE window
        /\ scars' = scars \cup Scars(c)
        /\ unreported' = unreported - Counted

\* The end of run_controller: the window, then controller_stopped.
Stop ==
    /\ applied # None
    /\ LET last == IF Logging
                   THEN Whatever(Summary(files, writer),
                            LAMBDA o : Emitted(o.files, o.writer, 1))
                   ELSE {Outcome(files, writer, TRUE, 0)}
       IN Happens({[o EXCEPT !.writer = None] : o \in last},
                  "stopped", "stopped")
    /\ applied' = None
    /\ window' = 0 /\ unreported' = unreported - Counted
    /\ UNCHANGED <<scars, reloads>>

\* What a crash finds done: nothing or a part of up to two records, as of a
\* reconfiguration, its recovery included. An operation that fails at some
\* step leaves what one that is cut off there does.
SinkInterrupted(F, w, c) ==
    SinkReconfigured(F, w, c)
        \cup IF c.level = "off" \/ w = None THEN {}
             ELSE ReconfigureLimits(F, w, c)

Interrupted ==
    (IF Logging THEN UNION {Emitted(files, writer, n) : n \in 0 .. 2}
     ELSE {Outcome(files, writer, TRUE, 0)})
        \cup UNION {Whatever(Summary(files, writer),
                       LAMBDA o : SinkInterrupted(o.files, o.writer, c)) :
                   c \in Configs}

\* The service ends at any point.
Crash ==
    /\ applied # None /\ faults < MaxFaults
    /\ faults' = faults + 1
    /\ \E o \in Interrupted : files' = o.files
    /\ writer' = None /\ applied' = None
    /\ result' = "stopped"
    /\ window' = 0 /\ unreported' = 0
    /\ UNCHANGED <<scars, reloads>>

Next ==
    Start \/ Event \/ Decision \/ Flush \/ Reconfigure \/ Stop \/ Crash

Spec == Init /\ [][Next]_vars

\* The service manager starts a service that failed, and events go on.
FairSpec == Spec /\ WF_vars(Start) /\ WF_vars(Event)

-----------------------------------------------------------------------------
\* Properties

\* The whole records, by file and place, and their order.
Records(F) ==
    UNION {{<<i, j>> : j \in {k \in DOMAIN F[i] : F[i][k] # Torn}} :
              i \in {k \in 0 .. Top : F[k] # None}}
Age(F, r) == F[r[1]][r[2]]
Before(r, s) == r[1] > s[1] \/ (r[1] = s[1] /\ r[2] < s[2])

\* Types; no more decisions in a window than there are, and a writer only
\* while logging is on.
TypeOK ==
    /\ files \in Files /\ applied \in {None} \cup Configs
    /\ writer \in (IF Logging THEN Writers ELSE {None})
    /\ Logging => /\ writer.max = applied.max
                  /\ writer.retained = applied.retained
    /\ window \in 0 .. MaxWindow /\ faults \in 0 .. MaxFaults

\* Through failing renames and crashes in the middle of a rotation, archives
\* keep the order of the records and hold none twice, and the records that
\* are gone are older than all that remain: a log is lost from its old end
\* only (README.md: circular archives, archive .1 newest). An archive that a
\* rejected reconfiguration has moved beyond the ring stays there and goes
\* stale.
Ordered(F) ==
    \A r, s \in Records(F) :
        Before(r, s) => \/ Age(F, s) < Age(F, r)
                        \/ Age(F, s) = MaxAge /\ Age(F, r) = MaxAge
OldestFirst ==
    /\ Ordered(files)
    /\ LET R == Records(files)
       IN \A r, s \in R :
            /\ Before(r, s) /\ ~ \E t \in R : Before(r, t) /\ Before(t, s)
            /\ "archive" \notin scars
            => Age(files, r) = Aged(Age(files, s))

\* What a file may hold: the limit, or one record that exceeds it.
Most(max) == IF max = 0 THEN 1 ELSE max

\* The active file exceeds max_file_size_mib by no more than what failed
\* writes have left in it, or is one record that stays whole, and failed
\* rotations, crashes and changed limits leave no archive beyond
\* retained_archives, but for the one above.
WithinLimits ==
    writer # None =>
        LET F == Opened(files)
            torn == Cardinality({j \in DOMAIN F[0] : F[0][j] = Torn})
        IN /\ Len(F[0]) <= Most(writer.max) + torn
           /\ \A i \in 1 .. Top :
                files[i] # None => i <= writer.retained \/ "archive" \in scars

\* Every decision is counted in a summary handed to the log or is still in the
\* window: whatever changes the level or stops the service, also a rejected
\* reconfiguration, flushes the window before it is given up (README.md:
\* boundaries flush any partial non-empty window).
EveryDecisionCounted == unreported = window

(***************************************************************************)
(* Why they hold                                                           *)
(***************************************************************************)

\* Nothing is missing between a record and the newest one.
Followed(F) ==
    \A r \in Records(F) :
        \/ Age(F, r) = 0
        \/ \E s \in Records(F) :
              Before(r, s) /\ Age(F, r) = Aged(Age(F, s))

\* Unless rejected reconfigurations have left their scar, there is no archive
\* beyond the ring, and a rotation discards the oldest one.
Within(F, n) == \A i \in 1 .. Top : F[i] # None => i <= n
Tidy(F, clean, n) ==
    /\ F \in Files /\ Ordered(F)
    /\ clean => Within(F, n) /\ (~ PruneMayStop => Followed(F))

\* What the writer counts is no less than the whole records of its file.
Whole(F) == IF F[0] = None THEN {} ELSE {j \in DOMAIN F[0] : F[0][j] # Torn}
Fits(F, w) ==
    /\ Cardinality(Whole(F)) <= Most(w.max)
    /\ w.open => F[0] # None /\ Cardinality(Whole(F)) <= w.bytes

LogInv ==
    /\ TypeOK
    /\ unreported = window /\ (window # 0 => Counting)
    /\ Tidy(files, "archive" \notin scars,
            IF Logging THEN writer.retained ELSE Top)
    /\ Logging => Fits(files, writer)

-----------------------------------------------------------------------------
\* Once the disturbances end, the log takes records again: a writer without
\* a file opens it anew (release-notes-v0.3.0.md: a failed reconfiguration
\* retains or restores the previous usable writer).
Resumes == <>[]Logging => []<>(result = "accepted")

\* The code does so unless the recovery of a failed reconfiguration has
\* failed too: then the writer without a file is not full and nothing makes
\* it open one.
ResumesUnlessStranded ==
    <>[](Logging /\ "writer" \notin scars) => []<>(result = "accepted")
=============================================================================
