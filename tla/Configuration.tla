---------------------------- MODULE Configuration ----------------------------
(***************************************************************************)
(* winsched.toml: which documents are accepted, what those of the schemas  *)
(* 1 to 4 mean today, and which rule an executable comes under. Kept are   *)
(* the parts that decide what the service may do to a process.             *)
(***************************************************************************)
EXTENDS Integers, FiniteSets

CONSTANT Images     (* executable names, without regard to case             *)

Current == 5        \* CONFIG_SCHEMA_VERSION
Omitted == 0        \* of a document without schema_version

Modes == {"off", "observe", "auto"}
RuleModes == {"off", "sticky", "auto", "performance", "efficiency", "strict"}
Profiles == {"interactive", "memory", "compute", "background", "balanced"}

\* domain: which of group and llc are given.
Rule ==
    [image : Images, mode : RuleModes, profile : Profiles,
     domain : {"none", "part", "whole"}]

\* background is set when the section is enabled and at least one of its two
\* policies is.
Scope ==
    [mode : Modes, all : BOOLEAN, ruleMode : RuleModes, profile : Profiles,
     background : BOOLEAN, rules : SUBSET Rule]

\* A document has two fields for the log, logging.enabled until schema 4 and
\* logging.level from schema 5 on; inRange says whether every number is.
Document ==
    [schema : Nat, enabled : {"none", "true", "false", "other"},
     level : {"none", "off", "normal", "trace"}, inRange : BOOLEAN,
     scope : Scope]

Configuration == [level : {"off", "normal", "trace"}, scope : Scope]

Default ==
    [level |-> "normal",
     scope |-> [mode |-> "observe", all |-> FALSE, ruleMode |-> "auto",
                profile |-> "balanced", background |-> FALSE, rules |-> {}]]

-----------------------------------------------------------------------------
\* from_toml

\* logging.enabled shows that a document without a schema is an old one.
Schema(d) ==
    IF d.schema # Omitted THEN d.schema
    ELSE IF d.enabled # "none" THEN Current - 1 ELSE Current

\* migrate_legacy_logging, and the unknown field of the present schema.
LoggingLegal(d) ==
    IF Schema(d) < Current THEN d.level = "none" /\ d.enabled # "other"
    ELSE d.enabled = "none"

Level(d) ==
    CASE d.level # "none" -> d.level
      [] d.level = "none" /\ d.enabled = "false" -> "off"
      [] OTHER -> "normal"

\* Until schema 3 the profile Background was placed like Balanced, and no
\* process was put on background efficiency.
\* Mutant: an old document is taken as it is.
NormalizedNever(d) == d.scope

Normalized(d) ==
    LET Placed(profile) == IF profile = "background" THEN "balanced" ELSE profile
    IN IF Schema(d) > 3 THEN d.scope
       ELSE [d.scope EXCEPT
                !.profile = Placed(@), !.background = FALSE,
                !.rules = {[r EXCEPT !.profile = Placed(@)] : r \in @}]

\* validate
ScopeLegal(s) ==
    /\ s.ruleMode # "strict"
    /\ \A r \in s.rules :
        /\ r.domain = IF r.mode = "strict" THEN "whole" ELSE "none"
        /\ \A other \in s.rules : r.image = other.image => r = other

Accepted(d) ==
    /\ Schema(d) \in 1 .. Current
    /\ LoggingLegal(d) /\ d.inRange /\ ScopeLegal(d.scope)

FromToml(d) == [level |-> Level(d), scope |-> Normalized(d)]

\* What Settings writes.
ToToml(c) ==
    [schema |-> Current, enabled |-> "none", level |-> c.level,
     inRange |-> TRUE, scope |-> c.scope]

-----------------------------------------------------------------------------
\* resolve and background_efficiency_applies

RulesFor(c, image) == {r \in c.scope.rules : r.image = image}

\* The placement of an image, "none" when it is out of scope.
Placement(c, image) ==
    LET Of(r) == IF r.profile = "background" THEN "off" ELSE r.mode
    IN CASE c.scope.mode = "off" -> "none"
         [] c.scope.mode # "off" /\ RulesFor(c, image) # {} ->
              Of(CHOOSE r \in RulesFor(c, image) : TRUE)
         [] OTHER -> IF c.scope.all THEN c.scope.ruleMode ELSE "none"

BackgroundApplies(c, image) ==
    /\ c.scope.background
    /\ \E r \in RulesFor(c, image) : r.profile = "background" /\ r.mode # "off"
=============================================================================
