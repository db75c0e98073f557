-------------------------- MODULE MCInteractivePipe --------------------------
(* A small instance of InteractivePipe for TLC: one session, whose tray is   *)
(* restarted twice, and a process that has started another one.              *)
EXTENDS InteractivePipe, TLC

CONSTANTS shell, child, twin

OneSession == [x \in Trays \cup Processes |-> 1]
Children == (shell :> None) @@ (child :> shell) @@ (twin :> None)
Images == (shell :> "shell") @@ (child :> "tool") @@ (twin :> "tool")
\* With the switch for visible windows off: a twin is to be seen, and now and
\* then the shell is in front and the child is heard.
Scenery(front, heard) ==
    [use \in Uses |-> CASE use = "foreground" -> front
                        [] use = "visible" -> {twin}
                        [] use = "audio" -> heard]
TwoScenes == {Scenery({}, {}), Scenery({shell}, {child})}
Switches == {"foreground", "audio"}
\* The clock is set back.
Back == {-3}
=============================================================================
