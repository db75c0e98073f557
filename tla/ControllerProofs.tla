--------------------------- MODULE ControllerProofs ---------------------------
(***************************************************************************)
(* What Settings writes is accepted and means the same; then TypeOK,       *)
(* AppliedIsOwn and OwnsOnlyByConsent for every set of documents and of    *)
(* executables and for every bound, by the inductive invariant             *)
(* ControllerInv, whose parts are treated one after the other.             *)
(***************************************************************************)
EXTENDS Controller, FiniteSetTheorems, TLAPS

-----------------------------------------------------------------------------
\* The profile a rule of an old schema is placed by.
Placed(profile) == IF profile = "background" THEN "balanced" ELSE profile

\* Normalisation changes nothing but the profiles and the background section.
LEMMA NormalizedFields ==
    ASSUME NEW d \in Document
    PROVE  /\ Normalized(d) \in Scope
           /\ Normalized(d).mode = d.scope.mode
           /\ Normalized(d).ruleMode = d.scope.ruleMode
           /\ Schema(d) > 3 => Normalized(d) = d.scope
           /\ Schema(d) <= 3 =>
                /\ Normalized(d).background = FALSE
                /\ Normalized(d).rules =
                      {[r EXCEPT !.profile = Placed(@)] : r \in d.scope.rules}
<1>1. d.scope \in Scope /\ Schema(d) \in Int
    BY DEF Document, Schema, Current, Omitted
<1>2. CASE Schema(d) > 3
    BY <1>1, <1>2 DEF Normalized, Scope
<1>3. CASE ~ (Schema(d) > 3)
    <2> DEFINE rules == {[r EXCEPT !.profile = Placed(@)] : r \in d.scope.rules}
               profile == Placed(d.scope.profile)
    <2>1. Normalized(d) = [d.scope EXCEPT !.profile = profile,
                                          !.background = FALSE,
                                          !.rules = rules]
        BY <1>3 DEF Normalized, Placed
    <2>2. d.scope.rules \subseteq Rule /\ d.scope.profile \in Profiles
        BY <1>1 DEF Scope
    <2>3. \A r \in Rule : [r EXCEPT !.profile = Placed(@)] \in Rule
        BY DEF Rule, Placed, Profiles
    <2>4. rules \in SUBSET Rule
        BY <2>2, <2>3
    <2>5. profile \in Profiles
        BY <2>2 DEF Placed, Profiles
    <2> HIDE DEF rules, profile
    <2>6. /\ [d.scope EXCEPT !.profile = profile, !.background = FALSE,
                             !.rules = rules] \in Scope
          /\ Normalized(d).mode = d.scope.mode
          /\ Normalized(d).ruleMode = d.scope.ruleMode
          /\ Normalized(d).background = FALSE /\ Normalized(d).rules = rules
        BY <1>1, <2>1, <2>4, <2>5 DEF Scope
    <2> QED BY <1>1, <1>3, <2>1, <2>6 DEF rules
<1> QED BY <1>2, <1>3

\* Normalisation keeps a legal scope legal.
LEMMA NormalizedLegal ==
    ASSUME NEW d \in Document, ScopeLegal(d.scope)
    PROVE  ScopeLegal(Normalized(d))
<1>1. d.scope \in Scope /\ Schema(d) \in Int /\ d.scope.rules \subseteq Rule
    BY DEF Document, Schema, Current, Omitted, Scope
<1>2. CASE Schema(d) > 3
    BY <1>2, NormalizedFields
<1>3. CASE Schema(d) <= 3
    <2>1. Normalized(d).ruleMode # "strict"
        BY NormalizedFields DEF ScopeLegal
    <2>2. ASSUME NEW n \in Normalized(d).rules
          PROVE  \E r \in d.scope.rules :
                    /\ n = [r EXCEPT !.profile = Placed(@)]
                    /\ n.image = r.image /\ n.mode = r.mode
                    /\ n.domain = r.domain
        <3>1. PICK r \in d.scope.rules : n = [r EXCEPT !.profile = Placed(@)]
            BY <1>3, NormalizedFields
        <3>2. r \in Rule
            BY <1>1
        <3>3. n.image = r.image /\ n.mode = r.mode /\ n.domain = r.domain
            BY <3>1, <3>2 DEF Rule
        <3> QED BY <3>1, <3>3
    <2>3. \A n \in Normalized(d).rules :
            n.domain = IF n.mode = "strict" THEN "whole" ELSE "none"
        BY <2>2 DEF ScopeLegal
    <2>4. \A n, other \in Normalized(d).rules :
            n.image = other.image => n = other
        BY <2>2 DEF ScopeLegal
    <2> QED BY <2>1, <2>3, <2>4 DEF ScopeLegal
<1> QED BY <1>1, <1>2, <1>3

\* A document that was accepted, as Settings writes it again, is accepted and
\* means what it meant: nobody's configuration changes by being saved, and in
\* particular an old document never becomes one that asks for background
\* efficiency.
THEOREM SaveKeepsMeaning ==
    ASSUME NEW d \in Document, Accepted(d)
    PROVE  /\ FromToml(d) \in Configuration
           /\ ToToml(FromToml(d)) \in Document
           /\ Accepted(ToToml(FromToml(d)))
           /\ FromToml(ToToml(FromToml(d))) = FromToml(d)
<1> DEFINE c == FromToml(d)
           t == ToToml(c)
<1>1. Level(d) \in {"off", "normal", "trace"}
    BY DEF Document, Level
<1>2. c \in Configuration /\ c.level = Level(d) /\ c.scope = Normalized(d)
    BY <1>1, NormalizedFields DEF FromToml, Configuration
<1>3. ScopeLegal(c.scope)
    BY <1>2, NormalizedLegal DEF Accepted
<1> HIDE DEF c
<1>4. /\ t.schema = Current /\ t.enabled = "none" /\ t.level = c.level
      /\ t.inRange = TRUE /\ t.scope = c.scope
    BY DEF ToToml
<1>5. t \in Document
    BY <1>2 DEF ToToml, Document, Configuration, Current
<1> HIDE DEF t
<1>6. Schema(t) = 5 /\ Current = 5
    BY <1>4 DEF Schema, Current, Omitted
<1>7. Accepted(t)
    BY <1>3, <1>4, <1>6 DEF Accepted, LoggingLegal
<1>8. Level(t) = c.level
    BY <1>1, <1>2, <1>4 DEF Level
<1>9. Normalized(t) = c.scope
    BY <1>4, <1>6 DEF Normalized
<1>10. FromToml(t) = [level |-> c.level, scope |-> c.scope]
    BY <1>8, <1>9 DEF FromToml
<1>11. c = [level |-> c.level, scope |-> c.scope]
    BY <1>2 DEF Configuration
<1> QED BY <1>2, <1>5, <1>7, <1>10, <1>11 DEF c, t

-----------------------------------------------------------------------------
\* What is found in the file is a configuration some document means.
LEMMA FoundConfiguration ==
    ASSUME NEW d \in Files
    PROVE  Found[d] = Loaded(d) /\ Found[d] \in Configurations \cup {Bad}
<1>1. Found[d] = Loaded(d)
    BY DEF Found
<1>2. CASE d \in Documents
    BY <1>1, <1>2 DEF Configurations
<1>3. ASSUME NEW c \in Configurations, d = ToToml(c)
      PROVE  Found[d] \in Configurations \cup {Bad}
    <2>1. PICK e \in Documents : c = Loaded(e) /\ c # Bad
        BY DEF Configurations
    <2>2. e \in Document /\ Accepted(e) /\ c = FromToml(e)
        BY <2>1, ControllerAssumption DEF Loaded
    <2>3. Accepted(d) /\ FromToml(d) = c
        BY <1>3, <2>2, SaveKeepsMeaning
    <2> QED BY <1>1, <2>3 DEF Loaded
<1> QED BY <1>1, <1>2, <1>3 DEF Files

\* The configurations there may be.
LEMMA InForceTypes ==
    /\ Configurations \subseteq Configuration
    /\ Configurations \subseteq InForce
    /\ InForce \subseteq Configuration
    /\ \A c \in InForce : [Default EXCEPT !.level = c.level] \in InForce
<1>1. ASSUME NEW c \in Configurations PROVE c \in Configuration
    <2>1. PICK e \in Documents : c = Loaded(e) /\ c # Bad
        BY DEF Configurations
    <2>2. e \in Document /\ Accepted(e) /\ c = FromToml(e)
        BY <2>1, ControllerAssumption DEF Loaded
    <2> QED BY <2>2, SaveKeepsMeaning
<1>2. Default \in Configuration
    BY DEF Default, Configuration, Scope, Modes, RuleModes, Profiles
<1>3. \A c \in Configuration :
        /\ [Default EXCEPT !.level = c.level] \in Configuration
        /\ [Default EXCEPT !.level = c.level].level = c.level
    BY <1>2 DEF Configuration
<1>4. \A c \in Configurations : [Default EXCEPT !.level = c.level] \in InForce
    BY DEF InForce
<1>5. InForce \subseteq Configuration
    BY <1>1, <1>3 DEF InForce
<1>6. ASSUME NEW c \in InForce
      PROVE  [Default EXCEPT !.level = c.level] \in InForce
    <2>1. CASE c \in Configurations
        BY <1>4, <2>1
    <2>2. ASSUME NEW b \in Configurations,
                 c = [Default EXCEPT !.level = b.level]
          PROVE  [Default EXCEPT !.level = c.level] \in InForce
        <3>1. c.level = b.level
            BY <1>1, <1>3, <2>2
        <3> QED BY <1>4, <3>1
    <2> QED BY <2>1, <2>2 DEF InForce
<1> QED BY <1>1, <1>4, <1>5, <1>6 DEF InForce

-----------------------------------------------------------------------------
\* The type of the counts.
CountType == [starts : 0..MaxStarts, saves : 0..MaxSaves,
              commands : 0..MaxCommands, faults : 0..MaxFaults]

\* A count goes up only below its bound, and the others stay.
LEMMA CountTypes ==
    ASSUME TypeOK
    PROVE  /\ Fault => count' \in CountType /\ count'.saves = count.saves
           /\ Counts("saves", MaxSaves) =>
                count' \in CountType /\ count'.saves = count.saves + 1
           /\ Counts("commands", MaxCommands) =>
                count' \in CountType /\ count'.saves = count.saves
<1>1. count \in CountType
    BY DEF TypeOK, CountType
<1>2. ASSUME Fault
      PROVE  count' \in CountType /\ count'.saves = count.saves
    <2>1. /\ count.faults < MaxFaults
          /\ count' = [count EXCEPT !.faults = @ + 1]
        BY <1>2 DEF Fault, Counts
    <2> QED BY <1>1, <2>1, ControllerAssumption DEF CountType
<1>3. ASSUME Counts("saves", MaxSaves)
      PROVE  count' \in CountType /\ count'.saves = count.saves + 1
    <2>1. /\ count.saves < MaxSaves
          /\ count' = [count EXCEPT !.saves = @ + 1]
        BY <1>3 DEF Counts
    <2> QED BY <1>1, <2>1, ControllerAssumption DEF CountType
<1>4. ASSUME Counts("commands", MaxCommands)
      PROVE  count' \in CountType /\ count'.saves = count.saves
    <2>1. /\ count.commands < MaxCommands
          /\ count' = [count EXCEPT !.commands = @ + 1]
        BY <1>4 DEF Counts
    <2> QED BY <1>1, <2>1, ControllerAssumption DEF CountType
<1> QED BY <1>2, <1>3, <1>4

\* The controller goes on to another point.
LEMMA LoopTypes ==
    ASSUME TypeOK, Up
    PROVE  /\ loop \in Looping /\ Configurations \subseteq InForce
           /\ \A pc \in {"publish", "wait", "load", "adopt", "act", "end"} :
                [loop EXCEPT !.pc = pc] \in Looping
           /\ \A next \in {"wait", "act", "end"} : Then(loop, next) \in Looping
<1>1. loop \in Looping
    BY DEF TypeOK, Up, Down
<1>2. \A next \in {"wait", "act", "end"} : Then(loop, next) \in Looping
    BY <1>1 DEF Looping, Then
<1> QED BY <1>1, <1>2, InForceTypes DEF Looping

\* A cleanup only gives back.
LEMMA CleanedTypes ==
    ASSUME TypeOK, NEW kinds, Cleaned(kinds)
    PROVE  /\ owned' \subseteq owned /\ owned' \in SUBSET Kinds
           /\ count' \in CountType /\ count'.saves = count.saves
<1>1. owned' \subseteq owned
    BY DEF Cleaned
<1>2. UNCHANGED count \/ Fault
    BY DEF Cleaned
<1> QED BY <1>1, <1>2, CountTypes DEF TypeOK, CountType

\* A published status says what the controller knows.
LEMMA PublishedTypes ==
    ASSUME TypeOK, Up, Published
    PROVE  /\ disk' \in Statuses /\ disk'.config = loop.config
           /\ settings' \in Applying
           /\ settings' = [settings EXCEPT !.news = settings.pc # "idle"]
<1>1. loop \in Looping
    BY LoopTypes
<1>2. disk' \in Statuses /\ disk'.config = loop.config
    BY <1>1 DEF Published, Status, Statuses, Looping
<1> DEFINE pending == settings.pc # "idle"
<1>3. pending \in BOOLEAN /\ settings' = [settings EXCEPT !.news = pending]
    BY DEF Published
<1> HIDE DEF pending
<1>4. settings' \in Applying
    BY <1>3 DEF TypeOK, Applying
<1> QED BY <1>2, <1>3, <1>4 DEF pending

\* The initial values.
LEMMA InitController == Init => ControllerInv
<1> SUFFICES ASSUME Init PROVE ControllerInv
    OBVIOUS
<1>1. PICK d \in Documents : /\ file = [content |-> d, stamp |-> 1]
                             /\ Found[d] # Bad
    BY DEF Init
<1>2. Found[file.content] \in Configurations /\ d \in Files
    BY <1>1, FoundConfiguration DEF Files
<1>3. settings \in Applying
    BY <1>2 DEF Init, Applying
<1>4. file \in [content : Files, stamp : Stamps] /\ file.stamp = 1
    BY <1>1, <1>2, ControllerAssumption DEF Stamps
<1>5. count \in CountType /\ count.saves = 0
    BY ControllerAssumption DEF Init, CountType
<1>6. commands \in Seq({"stop", "enable", "disable"})
    BY DEF Init
<1>7. TypeOK
    BY <1>3, <1>4, <1>5, <1>6 DEF Init, TypeOK, CountType
<1>8. LoadedOK /\ AppliedOK /\ RefusalOK
    BY <1>4, <1>5 DEF Init, LoadedOK, AppliedOK, RefusalOK, Down
<1> QED BY <1>7, <1>8 DEF ControllerInv

\* There are finitely many kinds of processes to own.
LEMMA KindsFinite ==
    ASSUME NEW kinds \in SUBSET Kinds
    PROVE  Cardinality(kinds) \in Nat
<1>1. IsFiniteSet({})
    BY FS_EmptySet
<1>2. IsFiniteSet({} \cup {"placement"})
    BY <1>1, FS_AddElement
<1>3. IsFiniteSet(({} \cup {"placement"}) \cup {"background"})
    BY <1>2, FS_AddElement
<1>4. Kinds = ({} \cup {"placement"}) \cup {"background"}
    BY DEF Kinds
<1> QED BY <1>3, <1>4, FS_Subset, FS_CardinalityType

\* Settings gives up a wait.
LEMMA QuietTypes ==
    ASSUME TypeOK
    PROVE  /\ Quiet(settings) \in Applying /\ Quiet(settings).pc = "idle"
           /\ \A retry \in BOOLEAN :
                [Quiet(settings) EXCEPT !.retry = retry] \in Applying
           /\ \A c \in Configurations :
                [Quiet(settings) EXCEPT !.persisted = c] \in Applying
BY DEF TypeOK, Applying, Quiet

\* A start and its faults are counted.
LEMMA StartCount ==
    ASSUME TypeOK, count.starts + 1 \in 1..MaxStarts, NEW faults \in Nat,
           count.faults + faults <= MaxFaults,
           count' = [count EXCEPT !.starts = @ + 1, !.faults = @ + faults]
    PROVE  count' \in CountType /\ count'.saves = count.saves
<1>1. count \in CountType
    BY DEF TypeOK, CountType
<1>2. /\ count.starts + 1 \in 0..MaxStarts
      /\ count.faults + faults \in 0..MaxFaults
    BY <1>1, ControllerAssumption DEF CountType
<1> DEFINE s == count.starts + 1
           f == count.faults + faults
<1>3. /\ s \in 0..MaxStarts /\ f \in 0..MaxFaults
      /\ count' = [count EXCEPT !.starts = s, !.faults = f]
    BY <1>2
<1> HIDE DEF s, f
<1> QED BY <1>1, <1>3 DEF CountType

\* A new controller runs what it found in the file.
LEMMA StartTypes ==
    ASSUME TypeOK, Start
    PROVE  /\ loop' \in Looping /\ loop'.pc = "publish"
           /\ loop'.config = Found[file.content]
           /\ loop'.enabled = Chosen(loop'.config)
           /\ owned' \subseteq owned
           /\ count' \in CountType /\ count'.saves = count.saves
           /\ Runs(loop'.config)
           /\ commands' = <<>>
           /\ UNCHANGED <<file, disk, choice, settings, refusal>>
<1> DEFINE c == Found[file.content]
<1>1. c \in InForce
    BY FoundConfiguration, InForceTypes DEF TypeOK, Start
<1>2. Chosen(c) \in BOOLEAN
    BY DEF TypeOK, Chosen
<1>3. count.starts + 1 \in 1..MaxStarts
    BY ControllerAssumption DEF TypeOK, Start
<1>4. loop' = [pc |-> "publish", next |-> "wait", pid |-> count.starts + 1,
               config |-> c, enabled |-> Chosen(c), seen |-> Epoch,
               stamp |-> None, found |-> None, seq |-> 0,
               result |-> "initial"]
    BY DEF Start
<1> HIDE DEF c
<1>5. /\ loop' \in Looping /\ loop'.pc = "publish"
      /\ loop'.config = c /\ loop'.enabled = Chosen(c)
    BY <1>1, <1>2, <1>3, <1>4 DEF Looping
<1>6. PICK kept \in SUBSET owned :
        /\ owned' = IF MutationsActive(c, Chosen(c)) THEN owned ELSE kept
        /\ count.faults + Cardinality(kept) <= MaxFaults
        /\ count' = [count EXCEPT !.starts = @ + 1,
                                  !.faults = @ + Cardinality(kept)]
    BY DEF Start, c
<1>7. Cardinality(kept) \in Nat
    BY KindsFinite DEF TypeOK
<1>8. count' \in CountType /\ count'.saves = count.saves
    BY <1>3, <1>6, <1>7, StartCount
<1> QED BY <1>5, <1>6, <1>8 DEF Start, c

\* A start that fails changes nothing but what is owned.
LEMMA FailStartTypes ==
    ASSUME TypeOK, FailStart
    PROVE  /\ owned' \in SUBSET Kinds /\ owned' \subseteq owned
           /\ count' \in CountType /\ count'.saves = count.saves
           /\ UNCHANGED <<file, disk, choice, loop, commands, settings, ran,
                          refusal>>
<1>1. owned' \subseteq owned
    BY DEF FailStart
<1>2. owned' \in SUBSET Kinds
    BY <1>1 DEF TypeOK
<1>3. Cardinality(owned') \in Nat
    BY <1>2, KindsFinite
<1> DEFINE faults == (IF Found[file.content] # Bad THEN 1 ELSE 0)
                     + Cardinality(owned')
<1>4. faults \in Nat
    BY <1>3
<1>5. /\ count.faults + faults <= MaxFaults /\ count.starts < MaxStarts
      /\ count' = [count EXCEPT !.starts = @ + 1, !.faults = @ + faults]
    BY DEF FailStart
<1> HIDE DEF faults
<1>6. count' \in CountType /\ count'.saves = count.saves
    <2>1. count.starts + 1 \in 1..MaxStarts
        BY <1>5, ControllerAssumption DEF TypeOK
    <2> QED BY <1>4, <1>5, <2>1, StartCount
<1> QED BY <1>1, <1>2, <1>6 DEF FailStart

\* A receipt is about the configuration that is in force from then on.
LEMMA ReceiptTypes ==
    ASSUME TypeOK, Up, NEW result \in {"reloaded", "rejected"},
           NEW config \in InForce, Receipt(result, config)
    PROVE  /\ loop' \in Looping /\ loop'.pc = "publish"
           /\ loop'.config = config /\ loop'.enabled = loop.enabled
           /\ Runs(config)
<1>1. loop \in Looping
    BY LoopTypes
<1> DEFINE seq == loop.seq + 1
           seen == loop.stamp
<1>2. seq \in Nat /\ seen \in Stamps \cup {Epoch, None}
    BY <1>1 DEF Looping
<1>3. /\ loop' = [loop EXCEPT !.pc = "publish", !.next = "act", !.seq = seq,
                              !.result = result, !.config = config,
                              !.found = None, !.stamp = None, !.seen = seen]
      /\ Runs(config)
    BY <1>1 DEF Receipt, Remembered, Looping
<1> HIDE DEF seq, seen
<1> QED BY <1>1, <1>2, <1>3 DEF Looping

-----------------------------------------------------------------------------
\* A start: the configuration found is noticed if it is the one wanted, and a
\* refusal is read from its file.
LEMMA StartStep == ControllerInv /\ Start => ControllerInv'
<1> SUFFICES ASSUME ControllerInv, Start PROVE ControllerInv'
    OBVIOUS
<1>1. TypeOK
    BY DEF ControllerInv
<1>2. /\ loop' \in Looping /\ loop'.pc = "publish"
      /\ loop'.config = Found[file.content]
      /\ loop'.enabled = Chosen(loop'.config)
      /\ owned' \subseteq owned
      /\ count' \in CountType /\ count'.saves = count.saves
      /\ Runs(loop'.config) /\ commands' = <<>>
      /\ UNCHANGED <<file, disk, choice, settings, refusal>>
    BY <1>1, StartTypes
<1>3. TypeOK'
    BY <1>1, <1>2 DEF TypeOK, CountType, Runs
<1>4. LoadedOK'
    BY <1>2 DEF ControllerInv, LoadedOK
<1>5. AppliedOK'
    BY <1>2 DEF ControllerInv, AppliedOK, Up, Runs
<1>6. RefusalOK'
    BY <1>2, ControllerAssumption DEF ControllerInv, RefusalOK, Chosen
<1> QED BY <1>3, <1>4, <1>5, <1>6 DEF ControllerInv

\* A failed start changes only what is owned.
LEMMA FailStartStep == ControllerInv /\ FailStart => ControllerInv'
<1> SUFFICES ASSUME ControllerInv, FailStart PROVE ControllerInv'
    OBVIOUS
<1>1. TypeOK
    BY DEF ControllerInv
<1>2. /\ owned' \in SUBSET Kinds
      /\ count' \in CountType /\ count'.saves = count.saves
      /\ UNCHANGED <<file, disk, choice, loop, commands, settings, ran, refusal>>
    BY <1>1, FailStartTypes
<1>3. TypeOK'
    BY <1>1, <1>2 DEF TypeOK, CountType
<1> QED BY <1>2, <1>3 DEF ControllerInv, LoadedOK, AppliedOK, RefusalOK, Up

\* A status tells of the configuration in force, which was noticed before.
LEMMA PublishStep == ControllerInv /\ Publish => ControllerInv'
<1> SUFFICES ASSUME ControllerInv, Publish PROVE ControllerInv'
    OBVIOUS
<1>1. TypeOK /\ Up /\ loop.pc = "publish"
    BY DEF ControllerInv, Publish, Up
<1>2. /\ UNCHANGED <<file, choice, owned, commands, ran, refusal>>
      /\ count' \in CountType /\ count'.saves = count.saves
    BY <1>1, CountTypes DEF Publish, TypeOK, CountType
<1>3. loop \in Looping
    BY <1>1, LoopTypes
<1>4. /\ loop' \in Looping /\ loop'.config = loop.config
      /\ loop'.enabled = loop.enabled
      /\ loop'.pc \in {"wait", "act", "end"}
    BY <1>3 DEF Publish, Goes, Looping
<1>5. CASE Published
    <2>1. /\ disk' \in Statuses /\ disk'.config = loop.config
          /\ settings' \in Applying
          /\ settings' = [settings EXCEPT !.news = settings.pc # "idle"]
        BY <1>1, <1>5, PublishedTypes
    <2>2. settings'.pc = settings.pc /\ settings'.wants = settings.wants
        BY <1>1, <2>1 DEF TypeOK, Applying
    <2>3. TypeOK'
        BY <1>1, <1>2, <1>4, <2>1 DEF TypeOK, CountType
    <2>4. AppliedOK'
        BY <1>1, <1>2, <1>4, <2>1, <2>2
           DEF ControllerInv, AppliedOK, Up
    <2> QED BY <1>1, <1>2, <1>4, <2>3, <2>4
               DEF ControllerInv, LoadedOK, RefusalOK, Up
<1>6. CASE UNCHANGED <<disk, settings>>
    <2>1. TypeOK'
        BY <1>1, <1>2, <1>4, <1>6 DEF TypeOK, CountType
    <2> QED BY <1>1, <1>2, <1>4, <1>6, <2>1
               DEF ControllerInv, LoadedOK, AppliedOK, RefusalOK, Up
<1> QED BY <1>5, <1>6 DEF Publish

\* Commands change whether scheduling is enabled; a refusal is written first.
LEMMA CommandStep == ControllerInv /\ (Stop \/ Enable \/ Disable) => ControllerInv'
<1> SUFFICES ASSUME ControllerInv, Stop \/ Enable \/ Disable
             PROVE  ControllerInv'
    OBVIOUS
<1>1. TypeOK /\ Up /\ loop.pc = "wait"
    BY DEF ControllerInv, Stop, Enable, Disable, Up
<1>2. /\ UNCHANGED <<file, disk, settings, ran>>
      /\ commands # <<>> /\ commands' = Tail(commands)
      /\ UNCHANGED count \/ Fault \/ Cleaned(Kinds)
    BY DEF Stop, Enable, Disable
<1>3. /\ count' \in CountType /\ count'.saves = count.saves
      /\ commands' \in Seq({"stop", "enable", "disable"})
    BY <1>1, <1>2, CountTypes, CleanedTypes DEF TypeOK, CountType
<1>4. owned' \in SUBSET Kinds
    BY <1>1, CleanedTypes DEF Stop, Enable, Disable, TypeOK
<1>5. loop \in Looping
    BY <1>1, LoopTypes
<1>6. /\ loop' \in Looping /\ loop'.config = loop.config
      /\ loop'.pc \in {"publish", "end"}
    BY <1>5 DEF Stop, Enable, Disable, Goes, Then, Looping
<1>7. /\ choice' \in BOOLEAN \cup {None} /\ refusal' \in BOOLEAN
    BY <1>1, <1>5 DEF Stop, Enable, Disable, Persisted, TypeOK, Looping
<1>8. TypeOK'
    BY <1>1, <1>2, <1>3, <1>4, <1>6, <1>7 DEF TypeOK, CountType
<1>9. LoadedOK' /\ AppliedOK'
    BY <1>1, <1>2, <1>3, <1>6 DEF ControllerInv, LoadedOK, AppliedOK, Up
<1>10. RefusalOK'
    <2>1. CASE Stop
        BY <1>1, <1>5, <2>1 DEF Stop, Then, Looping, ControllerInv, RefusalOK, Up
    <2>2. CASE Enable
        BY <1>1, <1>5, <2>2
           DEF Enable, Goes, Looping, ControllerInv, RefusalOK, Up
    <2>3. CASE Disable
        <3>1. CASE /\ Persisted(FALSE) /\ refusal' = (refusal \/ loop.enabled)
                   /\ loop'.enabled = FALSE
            BY <1>1, <1>5, <3>1
               DEF Persisted, Looping, ControllerInv, RefusalOK, Up
        <3>2. CASE UNCHANGED <<choice, refusal>> /\ loop'.enabled = loop.enabled
            BY <1>1, <3>2 DEF ControllerInv, RefusalOK, Up
        <3> QED BY <1>5, <2>3, <3>1, <3>2 DEF Disable, Goes, Then, Looping
    <2> QED BY <2>1, <2>2, <2>3
<1> QED BY <1>8, <1>9, <1>10 DEF ControllerInv

\* Looking for a new file changes only where the loop is.
LEMMA ReloadStep == ControllerInv /\ (Tick \/ Load) => ControllerInv'
<1> SUFFICES ASSUME ControllerInv, Tick \/ Load PROVE ControllerInv'
    OBVIOUS
<1>1. TypeOK /\ Up
    BY DEF ControllerInv, Tick, Load, Up
<1>2. /\ UNCHANGED <<file, disk, choice, owned, commands, settings, ran,
                     refusal>>
      /\ count' \in CountType /\ count'.saves = count.saves
    BY <1>1, CountTypes DEF Tick, Load, TypeOK, CountType
<1>3. loop \in Looping /\ file.stamp \in Stamps
      /\ Found[file.content] \in Configurations \cup {Bad}
    BY <1>1, LoopTypes, FoundConfiguration DEF TypeOK
<1>4. /\ loop' \in Looping /\ loop'.config = loop.config
      /\ loop'.enabled = loop.enabled /\ loop'.pc \in {"act", "load", "adopt"}
      /\ loop'.pc = "adopt" => loop'.found \in Configurations \cup {Bad}
    <2>1. CASE Tick
        <3>1. PICK modified \in {file.stamp, None} :
                \/ loop' = [loop EXCEPT !.pc = "act"]
                \/ loop' = [loop EXCEPT !.pc = "load", !.stamp = modified,
                                        !.seen = None]
            BY <2>1 DEF Tick
        <3> QED BY <1>3, <3>1 DEF Looping
    <2>2. CASE Load
        <3> DEFINE found == Found[file.content]
        <3>1. PICK f \in {found, Bad} :
                loop' = [loop EXCEPT !.pc = "adopt", !.found = f]
            BY <2>2 DEF Load
        <3>2. f \in Configurations \cup {Bad}
            BY <1>3
        <3> HIDE DEF found
        <3> QED BY <1>3, <3>1, <3>2 DEF Looping
    <2> QED BY <2>1, <2>2
<1>5. TypeOK'
    BY <1>1, <1>2, <1>4 DEF TypeOK, CountType
<1> QED BY <1>1, <1>2, <1>4, <1>5
           DEF ControllerInv, LoadedOK, AppliedOK, RefusalOK, Up

\* Another configuration in force is noticed.
LEMMA AdoptStep == ControllerInv /\ Adopt => ControllerInv'
<1> SUFFICES ASSUME ControllerInv, Adopt PROVE ControllerInv'
    OBVIOUS
<1>1. TypeOK /\ Up /\ loop.pc = "adopt"
    BY DEF ControllerInv, Adopt, Up
<1>2. loop \in Looping /\ Configurations \subseteq InForce
    BY <1>1, LoopTypes
<1>3. PICK result \in {"reloaded", "rejected"}, config \in InForce :
        Receipt(result, config)
    <2>1. loop.config \in InForce
        BY <1>2 DEF Looping
    <2>2. [Default EXCEPT !.level = loop.config.level] \in InForce
        BY <2>1, InForceTypes
    <2>3. loop.found # Bad => loop.found \in InForce
        BY <1>1, <1>2 DEF ControllerInv, LoadedOK
    <2> QED BY <2>1, <2>2, <2>3 DEF Adopt
<1>4. /\ loop' \in Looping /\ loop'.pc = "publish"
      /\ loop'.config = config /\ loop'.enabled = loop.enabled
      /\ Runs(config)
    BY <1>1, <1>3, ReceiptTypes
<1>5. UNCHANGED <<file, disk, choice, commands, settings, refusal>>
    BY DEF Adopt
<1>6. /\ owned' \in SUBSET Kinds
      /\ count' \in CountType /\ count'.saves = count.saves
    BY <1>1, CleanedTypes, CountTypes DEF Adopt, TypeOK, CountType
<1>7. TypeOK'
    BY <1>1, <1>4, <1>5, <1>6 DEF TypeOK, CountType, Runs
<1>8. AppliedOK'
    BY <1>4, <1>5 DEF ControllerInv, AppliedOK, Up, Runs
<1> QED BY <1>1, <1>4, <1>5, <1>6, <1>7, <1>8
           DEF ControllerInv, LoadedOK, RefusalOK, Up

\* The rest of a tick is about what is owned.
LEMMA ActStep == ControllerInv /\ Act => ControllerInv'
<1> SUFFICES ASSUME ControllerInv, Act PROVE ControllerInv'
    OBVIOUS
<1>1. TypeOK /\ Up /\ loop.pc = "act"
    BY DEF ControllerInv, Act, Up
<1>2. loop \in Looping
    BY <1>1, LoopTypes
<1>3. /\ loop' \in Looping /\ loop'.config = loop.config
      /\ loop'.enabled = loop.enabled /\ loop'.pc \in {"wait", "publish", "end"}
    BY <1>2 DEF Act, TickEnds, Goes, Then, Looping
<1>4. MayTake(loop.config, loop.enabled) \subseteq Kinds
    BY DEF MayTake
<1>5. /\ owned' \in SUBSET Kinds
      /\ count' \in CountType /\ count'.saves = count.saves
    BY <1>1, <1>4, CleanedTypes, CountTypes
       DEF Act, GiveUp, Evaluate, TypeOK, CountType
<1>6. UNCHANGED <<file, disk, choice, commands, settings, ran, refusal>>
    BY DEF Act
<1>7. TypeOK'
    BY <1>1, <1>3, <1>5, <1>6 DEF TypeOK, CountType
<1> QED BY <1>1, <1>3, <1>5, <1>6, <1>7
           DEF ControllerInv, LoadedOK, AppliedOK, RefusalOK, Up

\* The last status, too, is about the configuration in force.
LEMMA EndStep == ControllerInv /\ End => ControllerInv'
<1> SUFFICES ASSUME ControllerInv, End PROVE ControllerInv'
    OBVIOUS
<1>1. TypeOK /\ Up
    BY DEF ControllerInv, End, Up
<1>2. /\ loop' = Down /\ commands' = <<>> /\ Cleaned(Kinds)
      /\ UNCHANGED <<file, choice, ran, refusal>>
    BY DEF End
<1>3. /\ owned' \in SUBSET Kinds
      /\ count' \in CountType /\ count'.saves = count.saves
    BY <1>1, <1>2, CleanedTypes
<1>4. ~ Up' /\ loop'.pc = "down"
    BY <1>2 DEF Up, Down
<1>5. /\ disk' \in Statuses \cup {None} /\ settings' \in Applying
      /\ settings'.pc = settings.pc /\ settings'.wants = settings.wants
      /\ \/ disk'.config = loop.config
         \/ disk' = disk /\ settings' = settings
    <2>1. CASE Published
        BY <1>1, <2>1, PublishedTypes DEF TypeOK, Applying
    <2>2. CASE UNCHANGED <<disk, settings>>
        BY <1>1, <2>2 DEF TypeOK
    <2> QED BY <2>1, <2>2 DEF End
<1>6. TypeOK'
    BY <1>1, <1>2, <1>3, <1>5 DEF TypeOK, CountType
<1>7. AppliedOK'
    BY <1>1, <1>2, <1>4, <1>5 DEF ControllerInv, AppliedOK
<1> QED BY <1>2, <1>3, <1>4, <1>6, <1>7
           DEF ControllerInv, LoadedOK, RefusalOK

\* A crash, a command and an edit are not about what runs.
LEMMA WorldStep ==
    ControllerInv /\ (Crash \/ Notify \/ Edit) => ControllerInv'
<1> SUFFICES ASSUME ControllerInv, Crash \/ Notify \/ Edit
             PROVE  ControllerInv'
    OBVIOUS
<1>1. TypeOK
    BY DEF ControllerInv
<1>2. CASE Crash
    <2>1. /\ loop' = Down /\ commands' = <<>>
          /\ UNCHANGED <<file, disk, choice, owned, settings, ran, refusal>>
          /\ count' \in CountType /\ count'.saves = count.saves
        BY <1>1, <1>2, CountTypes DEF Crash
    <2>2. ~ Up' /\ loop'.pc = "down"
        BY <2>1 DEF Up, Down
    <2>3. TypeOK'
        BY <1>1, <2>1 DEF TypeOK, CountType
    <2> QED BY <2>1, <2>2, <2>3
               DEF ControllerInv, LoadedOK, AppliedOK, RefusalOK
<1>3. CASE Notify
    <2>1. /\ UNCHANGED <<file, disk, choice, owned, loop, settings, ran, refusal>>
          /\ count' \in CountType /\ count'.saves = count.saves
          /\ \E c \in {"stop", "enable", "disable"} :
                commands' = Append(commands, c)
        BY <1>1, <1>3, CountTypes DEF Notify
    <2>2. TypeOK'
        BY <1>1, <2>1 DEF TypeOK, CountType
    <2> QED BY <2>1, <2>2
               DEF ControllerInv, LoadedOK, AppliedOK, RefusalOK, Up
<1>4. CASE Edit
    <2>1. /\ UNCHANGED <<disk, choice, owned, loop, commands, settings, ran,
                         refusal>>
          /\ count' \in CountType /\ count'.saves = count.saves + 1
        BY <1>1, <1>4, CountTypes DEF Edit
    <2>2. PICK d \in Documents :
            file' = [content |-> d, stamp |-> file.stamp + 1]
        BY <1>4 DEF Edit, Saved
    <2>3. file.stamp + 1 = count'.saves + 1 /\ count'.saves \in 0..MaxSaves
        BY <2>1 DEF ControllerInv, LoadedOK, CountType
    <2>4. file' \in [content : Files, stamp : Stamps] /\ file'.stamp = count'.saves + 1
        BY <2>2, <2>3, ControllerAssumption DEF Files, Stamps
    <2>5. TypeOK'
        BY <1>1, <2>1, <2>4 DEF TypeOK, CountType
    <2> QED BY <2>1, <2>4, <2>5
               DEF ControllerInv, LoadedOK, AppliedOK, RefusalOK, Up
<1> QED BY <1>2, <1>3, <1>4

\* Apply starts to notice who runs its configuration.
LEMMA ApplyStep == ControllerInv /\ Apply => ControllerInv'
<1> SUFFICES ASSUME ControllerInv, Apply PROVE ControllerInv'
    OBVIOUS
<1>1. TypeOK
    BY DEF ControllerInv
<1>2. UNCHANGED <<file, disk, choice, owned, loop, commands, refusal>>
    BY DEF Apply
<1>3. PICK c \in Configurations,
           base \in {None, IF disk = None THEN None
                           ELSE [pid |-> disk.pid, seq |-> disk.seq]} :
        /\ settings' = [settings EXCEPT !.pc = "saving", !.wants = c,
                                        !.base = base, !.news = FALSE]
        /\ UNCHANGED count \/ Fault
        /\ ran' = (Up /\ loop.config = c)
    BY DEF Apply
<1>4. base \in [pid : 1..MaxStarts, seq : Nat] \cup {None}
    BY <1>1 DEF TypeOK, Statuses
<1>5. /\ settings' \in Applying /\ settings'.wants = c
      /\ settings'.news = FALSE
    BY <1>1, <1>3, <1>4 DEF TypeOK, Applying
<1>6. count' \in CountType /\ count'.saves = count.saves
    BY <1>1, <1>3, CountTypes DEF TypeOK, CountType
<1>7. ran' \in BOOLEAN
    BY <1>3
<1>8. TypeOK'
    BY <1>1, <1>2, <1>5, <1>6, <1>7 DEF TypeOK, CountType
<1>9. AppliedOK'
    BY <1>2, <1>3, <1>5 DEF AppliedOK, Up
<1> QED BY <1>2, <1>6, <1>8, <1>9 DEF ControllerInv, LoadedOK, RefusalOK, Up

\* A save is of what Apply wants, and a failed one gives it up.
LEMMA SaveStep == ControllerInv /\ Save => ControllerInv'
<1> SUFFICES ASSUME ControllerInv, Save PROVE ControllerInv'
    OBVIOUS
<1>1. TypeOK /\ settings.pc = "saving" /\ settings.wants \in Configurations
    BY DEF ControllerInv, Save, AppliedOK
<1>2. UNCHANGED <<disk, choice, owned, loop, commands, refusal>>
    BY DEF Save
<1>3. CASE /\ Counts("saves", MaxSaves) /\ UNCHANGED ran
           /\ Saved(ToToml(settings.wants))
           /\ settings' = [settings EXCEPT !.pc = "pending", !.retry = FALSE,
                                           !.persisted = settings.wants]
    <2>1. /\ count' \in CountType /\ count'.saves = count.saves + 1
          /\ file' = [content |-> ToToml(settings.wants),
                      stamp |-> file.stamp + 1]
          /\ settings' = [settings EXCEPT !.pc = "pending", !.retry = FALSE,
                                          !.persisted = settings.wants]
        BY <1>1, <1>3, CountTypes DEF Saved
    <2>2. file.stamp + 1 = count'.saves + 1 /\ count'.saves \in 0..MaxSaves
        BY <2>1 DEF ControllerInv, LoadedOK, CountType
    <2>3. file' \in [content : Files, stamp : Stamps] /\ file'.stamp = count'.saves + 1
        BY <1>1, <2>1, <2>2, ControllerAssumption DEF Files, Stamps
    <2>4. /\ settings' \in Applying /\ settings'.wants = settings.wants
          /\ settings'.news = settings.news
        BY <1>1, <2>1 DEF TypeOK, Applying
    <2>5. TypeOK'
        BY <1>1, <1>2, <1>3, <2>1, <2>3, <2>4 DEF TypeOK, CountType
    <2>6. AppliedOK'
        BY <1>1, <1>2, <1>3, <2>4 DEF ControllerInv, AppliedOK, Up
    <2> QED BY <1>2, <2>3, <2>5, <2>6 DEF ControllerInv, LoadedOK, RefusalOK, Up
<1>4. CASE Fault /\ settings' = Quiet(settings) /\ ran' = FALSE
           /\ UNCHANGED file
    <2>1. count' \in CountType /\ count'.saves = count.saves
        BY <1>1, <1>4, CountTypes
    <2>2. settings' \in Applying /\ settings'.pc = "idle"
        BY <1>1, <1>4, QuietTypes
    <2>3. TypeOK'
        BY <1>1, <1>2, <1>4, <2>1, <2>2 DEF TypeOK, CountType
    <2> QED BY <1>2, <1>4, <2>1, <2>2, <2>3
               DEF ControllerInv, LoadedOK, AppliedOK, RefusalOK, Up
<1> QED BY <1>3, <1>4 DEF Save

\* The end of a wait.
LEMMA PollStep == ControllerInv /\ (Poll \/ Reread) => ControllerInv'
<1> SUFFICES ASSUME ControllerInv, Poll \/ Reread PROVE ControllerInv'
    OBVIOUS
<1>1. TypeOK
    BY DEF ControllerInv
<1>2. /\ UNCHANGED <<file, disk, choice, owned, loop, commands, refusal, count>>
      /\ ran' = FALSE
    BY DEF Poll, Reread
<1> DEFINE retry == ~ Accepts(settings)
<1>3. retry \in BOOLEAN
    OBVIOUS
<1>4. \/ settings' = [Quiet(settings) EXCEPT !.retry = retry]
      \/ /\ settings' = [Quiet(settings) EXCEPT
                            !.persisted = Found[file.content]]
         /\ Found[file.content] \in Configurations
    BY <1>1, FoundConfiguration DEF Poll, Reread, TypeOK
<1> HIDE DEF retry
<1>5. settings' \in Applying /\ settings'.pc = "idle"
    BY <1>1, <1>3, <1>4, QuietTypes DEF Quiet, TypeOK, Applying
<1>6. TypeOK'
    BY <1>1, <1>2, <1>5 DEF TypeOK
<1> QED BY <1>2, <1>5, <1>6
           DEF ControllerInv, LoadedOK, AppliedOK, RefusalOK, Up

\* Every step preserves the invariant.
LEMMA ControllerStep == ControllerInv /\ [Next]_vars => ControllerInv'
<1>1. ControllerInv /\ UNCHANGED vars => ControllerInv'
    BY DEF vars, ControllerInv, TypeOK, LoadedOK, AppliedOK, RefusalOK, Up
<1>2. ControllerInv /\ Next => ControllerInv'
    BY StartStep, FailStartStep, PublishStep, CommandStep, ReloadStep,
       AdoptStep, ActStep, EndStep, WorldStep, ApplyStep, SaveStep, PollStep
       DEF Next, Service
<1> QED BY <1>1, <1>2

\* The invariant holds in every reachable state.
LEMMA ControllerAlways == Spec => []ControllerInv
<1> QED BY InitController, ControllerStep, PTL DEF Spec

\* Every variable keeps its type: a controller runs only configurations that
\* some accepted document means, or the default with the log's level of one.
THEOREM ControllerTypes == Spec => []TypeOK
<1>1. ControllerInv => TypeOK
    BY DEF ControllerInv
<1> QED BY <1>1, ControllerAlways, PTL

\* What Settings takes for its receipt is one: a controller has run the
\* configuration since Apply was pressed, however saves, reloads, restarts and
\* further edits are interleaved.
THEOREM AppliedMeansRun == Spec => AppliedIsOwn
<1>1. ControllerInv /\ [Next]_vars => [Poll /\ ~ settings'.retry => ran]_vars
    <2> SUFFICES ASSUME ControllerInv, Poll, ~ settings'.retry
                 PROVE  ran
        OBVIOUS
    <2> DEFINE retry == ~ Accepts(settings)
    <2>1. Quiet(settings) \in Applying
        BY QuietTypes DEF ControllerInv
    <2>2. settings'.retry = retry
        <3>1. settings' = [Quiet(settings) EXCEPT !.retry = retry]
            BY DEF Poll
        <3> HIDE DEF retry
        <3> QED BY <2>1, <3>1 DEF Applying
    <2>3. Accepts(settings)
        BY <2>2
    <2> QED BY <2>3 DEF ControllerInv, AppliedOK, Poll, Accepts, Newer
<1> QED BY <1>1, ControllerAlways, PTL DEF Spec, AppliedIsOwn

-----------------------------------------------------------------------------
\* Only a tick of a controller that is up takes anything, and only what its
\* configuration allows.
LEMMA OnlyActTakes ==
    ASSUME ControllerInv, [Next]_vars, NEW kind \in owned' \ owned
    PROVE  /\ Up /\ kind \in Kinds
           /\ kind \in MayTake(loop.config, loop.enabled)
           /\ loop.config \in InForce
<1>1. TypeOK
    BY DEF ControllerInv
<1>2. CASE Act
    <2>1. Up
        BY <1>2 DEF Act, Up
    <2>2. loop.config \in InForce
        BY <1>1, <2>1, LoopTypes DEF Looping
    <2>3. kind \in MayTake(loop.config, loop.enabled)
        BY <1>1, <1>2, CleanedTypes DEF Act, GiveUp, Evaluate
    <2> QED BY <2>1, <2>2, <2>3 DEF MayTake
<1>3. CASE Start
    BY <1>1, <1>3, StartTypes
<1>4. CASE Adopt
    BY <1>1, <1>4, CleanedTypes DEF Adopt
<1>5. CASE End
    BY <1>1, <1>5, CleanedTypes DEF End
<1>6. CASE FailStart \/ Disable
    BY <1>1, <1>6, CleanedTypes DEF FailStart, Disable
<1>7. CASE \/ Publish \/ Stop \/ Enable \/ Tick \/ Load \/ Crash \/ Notify
           \/ Edit \/ Apply \/ Save \/ Poll \/ Reread \/ UNCHANGED vars
    BY <1>7 DEF Publish, Stop, Enable, Tick, Load, Crash, Notify, Edit, Apply,
                Save, Poll, Reread, vars
<1> QED BY <1>2, <1>3, <1>4, <1>5, <1>6, <1>7 DEF Next, Service

\* Under the scope that replaces a rejected configuration nothing is taken.
LEMMA DefaultTakesNothing ==
    ASSUME NEW c, NEW enabled \in BOOLEAN, c.scope = Default.scope
    PROVE  MayTake(c, enabled) = {}
<1>1. /\ c.scope.mode = "observe" /\ c.scope.all = FALSE
      /\ c.scope.background = FALSE /\ c.scope.rules = {}
    BY DEF Default
<1>2. \A image : Placement(c, image) = "none"
    BY <1>1 DEF Placement, RulesFor
<1>3. \A image : ~ BackgroundApplies(c, image)
    BY <1>1 DEF BackgroundApplies
<1> QED BY <1>2, <1>3 DEF MayTake

\* A configuration with background efficiency in the mode Auto is one that a
\* document of schema 4 or newer asks for.
LEMMA BackgroundIsAsked ==
    ASSUME NEW c \in InForce, c.scope.background, c.scope.mode = "auto"
    PROVE  c \in Asked
<1>1. c \in Configurations
    <2>1. ASSUME NEW b \in Configurations,
                 c = [Default EXCEPT !.level = b.level]
          PROVE  FALSE
        BY <2>1 DEF Default
    <2> QED BY <2>1 DEF InForce
<1>2. PICK d \in Documents : c = Loaded(d) /\ c # Bad
    BY <1>1 DEF Configurations
<1>3. d \in Document /\ Accepted(d) /\ c.scope = Normalized(d)
    BY <1>2, ControllerAssumption DEF Loaded, FromToml
<1>4. Schema(d) \in Int
    BY <1>3 DEF Document, Schema, Current, Omitted
<1>5. Schema(d) > 3
    <2>1. Schema(d) <= 3 => Normalized(d).background = FALSE
        BY <1>3, NormalizedFields
    <2> QED BY <1>3, <1>4, <2>1
<1>6. d.scope = c.scope
    BY <1>3, <1>5, NormalizedFields
<1>7. d \in Files /\ Found[d] = c
    BY <1>2, FoundConfiguration DEF Files
<1> QED BY <1>2, <1>4, <1>5, <1>6, <1>7 DEF Asked

\* While a refusal stands nothing is taken but what strict rules place in the
\* mode Observe; nothing is taken under the configuration that replaces a
\* rejected one; and background efficiency is taken only where a document of
\* schema 4 or newer asks for it. This holds through crashes, restarts,
\* reloads and saves of any number of documents.
THEOREM NothingWithoutConsent == Spec => OwnsOnlyByConsent
<1> DEFINE Consent ==
        LET taken == owned' \ owned
        IN taken # {} =>
             /\ ~ refusal \/ loop.config.scope.mode = "observe"
             /\ loop.config.scope # Default.scope
             /\ "background" \in taken => loop.config \in Asked /\ ~ refusal
<1>1. ControllerInv /\ [Next]_vars => Consent
    <2> SUFFICES ASSUME ControllerInv, [Next]_vars, NEW kind \in owned' \ owned
                 PROVE  /\ ~ refusal \/ loop.config.scope.mode = "observe"
                        /\ loop.config.scope # Default.scope
                        /\ kind = "background" =>
                              loop.config \in Asked /\ ~ refusal
        OBVIOUS
    <2>1. /\ Up /\ kind \in MayTake(loop.config, loop.enabled)
          /\ loop.config \in InForce /\ loop.enabled \in BOOLEAN
        BY OnlyActTakes, LoopTypes DEF ControllerInv, Looping
    <2>2. refusal => loop.enabled = FALSE
        BY <2>1 DEF ControllerInv, RefusalOK
    <2>3. loop.config.scope # Default.scope
        BY <2>1, DefaultTakesNothing
    <2>4. ~ refusal \/ loop.config.scope.mode = "observe"
        BY <2>1, <2>2 DEF MayTake, MutationsActive, EvaluationActive
    <2>5. CASE kind = "background"
        <3>1. /\ MutationsActive(loop.config, loop.enabled)
              /\ loop.config.scope.background
            BY <2>1, <2>5 DEF MayTake, BackgroundApplies
        <3> QED BY <2>1, <2>2, <2>3, <2>4, <3>1, BackgroundIsAsked
                DEF MutationsActive
    <2> QED BY <2>3, <2>4, <2>5
<1>2. ControllerInv /\ [Next]_vars => [Consent]_vars
    BY <1>1
<1> QED BY <1>2, ControllerAlways, PTL DEF Spec, OwnsOnlyByConsent
=============================================================================
