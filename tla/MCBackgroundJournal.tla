------------------------ MODULE MCBackgroundJournal ------------------------
(* Small instances of BackgroundJournal for TLC. *)
EXTENDS BackgroundJournal

CONSTANTS k1, k2

\* Every process has the same PID: a later one reuses it.
SamePid == [k \in Keys |-> 1]

BothProps == {"eco_qos", "memory_priority"}

\* What outsiders write, the value the policy applies included.
BothChoices == [eco_qos |-> {"Unset", "Enabled", "Disabled"},
                memory_priority |-> {"Normal", "VeryLow"}]
EcoChoices == [eco_qos |-> {"Unset", "Enabled", "Disabled"}]

\* Both properties with and without memory pressure, and a configuration
\* that has dropped the memory priority.
BothPolicies == {[configured |-> BothProps, low |-> FALSE],
                 [configured |-> BothProps, low |-> TRUE],
                 [configured |-> {"eco_qos"}, low |-> FALSE]}
EcoPolicies == {[configured |-> {"eco_qos"}, low |-> FALSE]}
=============================================================================
