--------------------------- MODULE MCController ---------------------------
(* A small instance of Controller for TLC: one executable with a rule.     *)
EXTENDS Controller

Scoped(ruleMode, domain) ==
    [mode |-> "auto", all |-> FALSE, ruleMode |-> "auto",
     profile |-> "balanced", background |-> TRUE,
     rules |-> {[image |-> "app", mode |-> ruleMode,
                 profile |-> "background", domain |-> domain]}]

\* As Settings writes it: background efficiency for the executable.
Present == ToToml([level |-> "normal", scope |-> Scoped("auto", "none")])

\* Of schema 3: the same profile, which only places.
Old ==
    [schema |-> 3, enabled |-> "true", level |-> "none",
     inRange |-> TRUE, scope |-> Scoped("sticky", "none")]

\* A strict rule without its domain is refused.
Refused == [Present EXCEPT !.scope = Scoped("strict", "part")]

FewDocuments == {Present, Old, Refused}
=============================================================================
