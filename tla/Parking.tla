------------------------------- MODULE Parking -------------------------------
(***************************************************************************)
(* What the scheduler promises the components that block tasks: a task is  *)
(* up (Ready or Running), Blocked, or Sleeping against a deadline; a       *)
(* wake-up that reaches a task that is up is remembered, and the next      *)
(* attempt to park consumes it instead of parking.  Module Sched is shown  *)
(* to implement this specification; Notify and Ipc are built on it.        *)
(***************************************************************************)
EXTENDS Naturals

CONSTANT Tasks

VARIABLES
    parked,        \* Task::state, with Ready, Running and Dead all "no"
    wake_pending   \* Task::wake_pending

parkVars == <<parked, wake_pending>>

ParkTypeOK == /\ parked \in [Tasks -> {"no", "Blocked", "Sleeping"}]
              /\ wake_pending \in [Tasks -> BOOLEAN]

ParkInit == /\ parked = [t \in Tasks |-> "no"]
            /\ wake_pending = [t \in Tasks |-> FALSE]

Up(t) == parked[t] = "no"

\* Mutant: parks whatever is remembered.
park_always(t, how) ==
    /\ Up(t)
    /\ parked' = [parked EXCEPT ![t] = how]
    /\ UNCHANGED wake_pending

\* park_and_switch
park(t, how) ==
    /\ Up(t)
    /\ \/ /\ wake_pending[t]
          /\ wake_pending' = [wake_pending EXCEPT ![t] = FALSE]
          /\ UNCHANGED parked
       \/ /\ ~ wake_pending[t]
          /\ parked' = [parked EXCEPT ![t] = how]
          /\ UNCHANGED wake_pending

\* The test unblock and deliver share, for the states each counts as parked.
wake_if(t, counted) ==
    /\ parked' = [parked EXCEPT ![t] = IF @ \in counted THEN "no" ELSE @]
    /\ wake_pending' = [wake_pending EXCEPT ![t] = @ \/ parked[t] \notin counted]

unblock(t) == wake_if(t, {"Blocked", "Sleeping"})

\* deliver's own test is state == Blocked.
deliver(t) == wake_if(t, {"Blocked"})

\* wake_expired
wake_expired(late) ==
    /\ \A t \in late : parked[t] = "Sleeping"
    /\ parked' = [t \in Tasks |-> IF t \in late THEN "no" ELSE parked[t]]
    /\ UNCHANGED wake_pending

ParkNext == \/ \E t \in Tasks : \/ park(t, "Blocked") \/ park(t, "Sleeping")
                                \/ unblock(t) \/ deliver(t)
            \/ \E late \in SUBSET Tasks : wake_expired(late)

ParkSpec == ParkInit /\ [][ParkNext]_parkVars
=============================================================================
