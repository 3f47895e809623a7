------------------------------ MODULE MCSched -------------------------------
(***************************************************************************)
(* Instances of Sched for TLC.  One run covers several small worlds, each  *)
(* a part of Next in which some operations are used and others are not;    *)
(* the world is chosen in the initial state.                               *)
(***************************************************************************)
EXTENDS Sched

VARIABLE world

Worlds == {"trio", "processes", "pins"}

\* trio: three threads that block, wake and are preempted.
\* processes: two tasks, as threads or processes, that also sleep and exit.
\* pins: two tasks that also pin themselves to a core, and do not exit.
InWorld ==
    /\ world # "trio" => n' <= 2
    /\ world # "pins" => affinity' = affinity
    /\ world # "processes" =>
          /\ live' \subseteq live
          /\ \A t \in Slots : state'[t] \in {"Dead", "Sleeping"} => state'[t] = state[t]
    /\ UNCHANGED world

MCInit == Init /\ world \in Worlds

MCSpec == MCInit /\ [][Next /\ InWorld]_<<vars, world>>
=============================================================================
