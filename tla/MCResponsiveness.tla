-------------------------- MODULE MCResponsiveness --------------------------
(***************************************************************************)
(* Small topologies and configurations for Responsiveness.                 *)
(***************************************************************************)
EXTENDS Responsiveness

Cpu(id, core, llc, class, flags) ==
    [id |-> id, core |-> core, llc |-> llc, numa |-> 0, processor |-> id,
     efficiency |-> class, scheduling |-> class, flags |-> flags]

\* Three caches of two cores; the better core comes second in two of them.
Even ==
    {Cpu(k, k, k \div 2, IF k \in {1, 3} THEN 1 ELSE 0, {}) : k \in 0 .. 5}

\* Two caches with three cores and one, of two threads each; a sibling is
\* parked, a core belongs to another process and one to realtime work, and a
\* core with siblings under two caches is none.
Uneven ==
    {Cpu(0, 0, 0, 0, {}), Cpu(1, 0, 0, 1, {}),
     Cpu(2, 1, 0, 1, {"parked"}), Cpu(3, 1, 0, 0, {}),
     Cpu(4, 2, 0, 0, {"allocated"}), Cpu(5, 2, 0, 0, {}),
     Cpu(6, 3, 1, 0, {"allocated", "allocated_to_target_process"}),
     Cpu(7, 3, 1, 0, {}),
     Cpu(8, 4, 1, 0, {"realtime"}),
     Cpu(9, 5, 0, 0, {}), Cpu(10, 5, 1, 0, {})}

\* One core, which cannot be reserved.
Single == {Cpu(0, 0, 0, 0, {}), Cpu(1, 0, 0, 0, {})}

AllTopologies == {Even, Uneven, Single}

Config(guard, percent, reserved, least, most, stability, cooldown, smt) ==
    [enabled |-> TRUE, guard |-> guard, percent |-> percent,
     minReserved |-> reserved, maxReserved |-> 4, minCores |-> least,
     maxCores |-> most, stability |-> stability, cooldown |-> cooldown,
     smt |-> smt]

Narrow == Config(TRUE, 10, 1, 1, 3, 1, 2, TRUE)
Wide == Config(TRUE, 20, 1, 3, 8, 2, 1, FALSE)
\* On Uneven this takes every assignable core.
Unguarded == Config(FALSE, 25, 3, 1, 8, 2, 1, FALSE)

AllConfigs == {Narrow, Wide, Unguarded}
Default == [Unguarded EXCEPT !.enabled = FALSE]
=============================================================================
