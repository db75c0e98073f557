--------------------------- MODULE MCPolicyEngine ---------------------------
(* Two domains, two processes: one placed by load competes with one of     *)
(* each other kind.                                                        *)
EXTENDS PolicyEngine, TLC

CONSTANTS k1, k2

TwoDomains == {0, 1}
LoadSteps == {1, 3}

\* A first configuration and what it may be changed to.
TwoRules == {k1 :> "Auto" @@ k2 :> m : m \in Modes \ {"Sticky"}}

OpenPlans == {{0, 1}, {1}}
=============================================================================
