----------------------------- MODULE UpdateLife -----------------------------
(***************************************************************************)
(* What the primary promises about the versions it records, without        *)
(* package manager, bootloader, flags or threads: there is always one      *)
(* current version; at most one other is pending; a pending version is     *)
(* decided in one step, by what the device runs at that time, and leaves   *)
(* the current one in place if it did not come up.  Install implements it. *)
(***************************************************************************)
CONSTANTS Versions,  \* what can be installed
          Factory,   \* the version a device comes with
          Untold     \* the device cannot tell what it runs

VARIABLES current,   \* the version the device has taken over
          pending,   \* the versions that wait for a reboot, none or one
          running    \* the version that is running

lifeVars == <<current, pending, running>>

Init == current = Factory /\ pending = {} /\ running \in {Factory, Untold}

\* A version that needs a reboot is installed, or installed again.
Postpone(v) == v # current /\ pending \subseteq {v} /\ pending' = {v} /\ UNCHANGED <<current, running>>

\* One that needs none.
Take(v) == pending = {} /\ current' = v /\ UNCHANGED <<pending, running>>

Decide(v) ==
  /\ v \in pending /\ pending' = {}
  /\ current' = IF running \in {v, Untold} THEN v ELSE current
  /\ UNCHANGED running

\* The device boots one of the images it has.
Reboot == running # Untold /\ running' \in Versions /\ UNCHANGED <<current, pending>>

Next == (\E v \in Versions : Postpone(v) \/ Take(v) \/ Decide(v)) \/ Reboot

Spec == Init /\ [][Next]_lifeVars
=============================================================================
