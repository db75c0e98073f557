---------------------------- MODULE Registration ----------------------------
(***************************************************************************)
(* What a command that changes the service's registration promises: it     *)
(* succeeds and leaves the registration that was asked for, or it fails    *)
(* and leaves the one there was, or it says that it could not put it back. *)
(***************************************************************************)
CONSTANTS
    None,           (* no registration                                      *)
    Registrations,
    Wanted,         (* the registration a provisioning asks for             *)
    Doomed(_)       (* a registration that is marked for deletion           *)

VARIABLES
    registration,   (* what is registered when no command is under way      *)
    outcome         (* the last command and how it ended                    *)

vars == <<registration, outcome>>

Provisioning == {"provision", "register"}

Init == /\ registration \in {None} \cup Registrations
        /\ outcome = [op |-> "none", result |-> "ok"]

Provisioned ==
    /\ outcome' \in [op : Provisioning, result : {"ok"}]
    /\ registration' = Wanted

Refused ==
    /\ outcome' \in [op : Provisioning \cup {"uninstall"}, result : {"error"}]
    /\ UNCHANGED registration

Unrecovered == outcome' \in [op : Provisioning, result : {"recovery"}]

Uninstalled ==
    /\ outcome' = [op |-> "uninstall", result |-> "ok"]
    /\ registration' = None

\* A deletion that did not end in time may do so later.
DeletionPending ==
    /\ outcome' = [op |-> "uninstall", result |-> "error"]
    /\ registration # None
    /\ registration' \in {None, Doomed(registration)}

Vanished ==
    /\ registration # None /\ registration = Doomed(registration)
    /\ registration' = None /\ UNCHANGED outcome

\* start and stop
Untouched ==
    /\ outcome' \in [op : {"start", "stop"}, result : {"ok", "error"}]
    /\ UNCHANGED registration

Next == \/ Provisioned \/ Refused \/ Unrecovered \/ Uninstalled
        \/ DeletionPending \/ Vanished \/ Untouched

Spec == Init /\ [][Next]_vars
=============================================================================
