------------------------------ MODULE Bringup ------------------------------
(***************************************************************************)
(* Starting the other cores (crates/kernel/src/smp.rs, with arm_secondary  *)
(* of boot.rs and cpu_on of psci.rs) and the two self-tests that follow:   *)
(* the contended counter and the wake doorbell.  Firmware may refuse a     *)
(* core, accept it and never start it, or start it late.                   *)
(*                                                                         *)
(* boot is where the primary is: "start", "wait" (polling for next_core),  *)
(* "count", "hammer", "drain" (race_test waiting), "ipi", "done".          *)
(* sec[c] is where secondary c is:                                         *)
(*   off      held by firmware        accepted  CPU_ON answered, not here  *)
(*   spin     online, before GO       hammer    adding to the counter      *)
(*   vectors, gic, timer, doorbell    setting its own hardware up          *)
(*   live     taking work preempted   deaf      its GIC did not come up    *)
(***************************************************************************)
EXTENDS Integers, FiniteSets

CONSTANTS
    Listed,      \* how many cores the device tree lists
    MAX_CPUS     \* cores the kernel has stacks for

ASSUME BringupAssumption == Listed \in Nat \ {0} /\ MAX_CPUS \in Nat \ {0}

VARIABLES
    boot,
    next_core,   \* the core start_secondaries is at
    cores,       \* what start_secondaries returned
    sec,
    online,      \* ONLINE
    hammer_count,   \* COUNTER, in batches of HAMMER_ITERS
    hammered,    \* HAMMER_DONE
    want,        \* race_test and ipi_test: ONLINE as read
    ipis,        \* the cores whose IPI_COUNT is not zero
    verdict,     \* race_test's answer
    late,        \* the cores the primary gave up waiting for
    unheard      \* the cores race_test was still waiting for when it read the total

bootVars == <<boot, next_core, cores, sec, online, hammer_count, hammered, want, ipis, verdict, late, unheard>>

\* cpu_mpidrs: the cores of /cpus, as many as there are stacks for.
Cpus == IF Listed < MAX_CPUS THEN Listed ELSE MAX_CPUS
Secondaries == 1..(Cpus - 1)

BootInit ==
    /\ boot = "start" /\ next_core = 1 /\ cores = 1
    /\ sec = [c \in Secondaries |-> "off"]
    /\ online = {} /\ hammer_count = 0 /\ hammered = {} /\ want = {} /\ ipis = {}
    /\ verdict = "none" /\ late = {} /\ unheard = {}

online_count == Cardinality(online) + 1
Moves(c, here, there) == /\ sec[c] = here
                        /\ sec' = [sec EXCEPT ![c] = there]
-----------------------------------------------------------------------------
\* start_secondaries, one core at a time: arm_secondary gives it a stack and
\* firmware answers CPU_ON; a refused core is skipped.
StartNext(ok) ==
    /\ boot = "start" /\ next_core \in Secondaries
    /\ IF ok
       THEN /\ Moves(next_core, "off", "accepted")
            /\ boot' = "wait" /\ UNCHANGED next_core
       ELSE next_core' = next_core + 1 /\ UNCHANGED <<boot, sec>>
    /\ UNCHANGED <<cores, online, hammer_count, hammered, want, ipis, verdict, late, unheard>>

\* The poll ends when the core is online, or at ONLINE_POLL_LIMIT.
Polled ==
    /\ boot = "wait"
    /\ boot' = "start" /\ next_core' = next_core + 1
    /\ late' = IF next_core \in online THEN late ELSE late \cup {next_core}
    /\ UNCHANGED <<cores, sec, online, hammer_count, hammered, want, ipis, verdict, unheard>>

\* Every core asked for; race_test runs with the count of this moment.
Counted ==
    /\ boot = "start" /\ next_core = Cpus
    /\ cores' = online_count
    /\ boot' = "hammer"
    /\ UNCHANGED <<next_core, sec, online, hammer_count, hammered, want, ipis, verdict, late, unheard>>

\* race_test: HAMMER_GO, the primary's own increments, then what to wait for.
\* Mutant: nobody is waited for.
awaiting_none == {}
awaited == online

Go == boot \notin {"start", "wait", "hammer"}

PrimaryHammer ==
    /\ boot = "hammer" /\ boot' = "drain"
    /\ hammer_count' = hammer_count + 1
    /\ want' = awaited
    /\ UNCHANGED <<next_core, cores, sec, online, hammered, ipis, verdict, late, unheard>>

\* The wait ends when all of them have hammered, or at ONLINE_POLL_LIMIT.  A
\* core that is still hammering has added part of its batch, from none of it to
\* all of it, and the total is compared with whole batches.
Hammering == {c \in Secondaries : sec[c] = "hammer"}
MayKeep == cores \in hammer_count..(hammer_count + Cardinality(Hammering))
MayLose == Hammering # {} \/ hammer_count # cores

RaceTest ==
    /\ boot = "drain"
    /\ unheard' = want \ hammered
    /\ \/ MayKeep /\ verdict' = "kept"
       \/ MayLose /\ verdict' = "lost"
    /\ boot' = "ipi" /\ want' = online
    /\ UNCHANGED <<next_core, cores, sec, online, hammer_count, hammered, ipis, late>>

\* ipi_test rings until every core it saw online has answered, or the limit.
IpiTest ==
    /\ boot = "ipi" /\ boot' = "done"
    /\ UNCHANGED <<next_core, cores, sec, online, hammer_count, hammered, want, ipis, verdict, late, unheard>>

Primary == (\E ok \in BOOLEAN : StartNext(ok)) \/ Polled \/ Counted \/ PrimaryHammer
           \/ RaceTest \/ IpiTest
-----------------------------------------------------------------------------
\* ksecondary: mark_online, wait for GO, hammer under the lock.
Arrive(c) ==
    /\ Moves(c, "accepted", "spin") /\ online' = online \cup {c}
    /\ UNCHANGED <<boot, next_core, cores, hammer_count, hammered, want, ipis, verdict, late, unheard>>

SeeGo(c) ==
    /\ Go /\ Moves(c, "spin", "hammer")
    /\ UNCHANGED <<boot, next_core, cores, online, hammer_count, hammered, want, ipis, verdict, late, unheard>>

hammer(c) ==
    /\ Moves(c, "hammer", "vectors")
    /\ hammer_count' = hammer_count + 1 /\ hammered' = hammered \cup {c}
    /\ UNCHANGED <<boot, next_core, cores, online, want, ipis, verdict, late, unheard>>

\* Its own vectors, GIC interface, timer line and doorbell.  Without the GIC
\* or the timer it runs tasks unpreempted, and no interrupt reaches it.
SetUp(c, ok) ==
    /\ \/ Moves(c, "vectors", "gic")
       \/ Moves(c, "gic", IF ok THEN "timer" ELSE "deaf")
       \/ Moves(c, "timer", IF ok THEN "doorbell" ELSE "deaf")
       \/ Moves(c, "doorbell", "live")
    /\ UNCHANGED <<boot, next_core, cores, online, hammer_count, hammered, want, ipis, verdict, late, unheard>>

\* staros_irq_dispatch for the wake SGI: on_ipi.
on_ipi(c) ==
    /\ boot = "ipi" /\ sec[c] = "live" /\ c \notin ipis
    /\ ipis' = ipis \cup {c}
    /\ UNCHANGED <<boot, next_core, cores, sec, online, hammer_count, hammered, want, verdict, late, unheard>>

ksecondary(c) == SeeGo(c) \/ hammer(c) \/ \E ok \in BOOLEAN : SetUp(c, ok)

BootNext == Primary \/ \E c \in Secondaries : Arrive(c) \/ ksecondary(c) \/ on_ipi(c)

\* Nothing makes firmware start a core it accepted.
BootFairness == WF_bootVars(Primary) /\ \A c \in Secondaries : WF_bootVars(ksecondary(c))

BootSpec == BootInit /\ [][BootNext]_bootVars /\ BootFairness
-----------------------------------------------------------------------------
\* race_test prints "LOST INCREMENTS" only if the primary gave up on somebody: on
\* a core that came after all and added increments nobody expected, or on one it
\* waits for here that was still adding at the limit.  With every core on time
\* the total is exact, whatever the interleaving.
RaceVerdictHonest ==
    verdict = "lost" => late \cap online # {} \/ unheard # {}

\* A core that firmware accepted and never started does not hang the boot
\* (ONLINE_POLL_LIMIT).
BootFinishes == <>(boot = "done")
-----------------------------------------------------------------------------
\* Why the verdict is honest: who is online adds once, and a core the primary
\* did not count is one it gave up on.
Arrived(c) == sec[c] \notin {"off", "accepted"}
Added(c) == sec[c] \notin {"off", "accepted", "spin", "hammer"}
Asking == boot \in {"start", "wait"}
NoneCameLate == late \cap online = {}

BootTypes ==
    /\ boot \in {"start", "wait", "hammer", "drain", "ipi", "done"}
    /\ next_core \in Nat /\ cores \in Nat /\ hammer_count \in Nat
    /\ sec \in [Secondaries -> {"off", "accepted", "spin", "hammer", "vectors", "gic", "timer", "doorbell",
                                "live", "deaf"}]
    /\ late \subseteq Secondaries

\* ONLINE and HAMMER_DONE are what the cores themselves say, and the counter
\* is one for each that has added, the primary's included.
Tallied ==
    /\ online = {c \in Secondaries : Arrived(c)} /\ hammered = {c \in Secondaries : Added(c)}
    /\ ~ Go => \A c \in Secondaries : sec[c] \in {"off", "accepted", "spin"}
    /\ hammer_count = Cardinality(hammered) + IF Go THEN 1 ELSE 0

\* A core firmware accepted is here, or given up on, or the one being polled
\* for; the cores still to be asked for are off.
Accounted ==
    /\ \A c \in Secondaries : sec[c] = "accepted" => c \in late \/ (boot = "wait" /\ c = next_core)
    /\ boot = "wait" => next_core \in Secondaries
    /\ Asking => \A c \in Secondaries : c > next_core => sec[c] = "off"
    /\ boot = "start" => \A c \in Secondaries : c = next_core => sec[c] = "off"
    /\ ~ Asking => \A c \in Secondaries : c < next_core

\* With nobody late the primary knows how many there are and waits for all.
Expected ==
    /\ ~ Asking /\ NoneCameLate => cores = online_count
    /\ boot = "drain" /\ NoneCameLate => want = online
    /\ RaceVerdictHonest

BootInv == BootTypes /\ Tallied /\ Accounted /\ Expected
=============================================================================
