------------------------------ MODULE FifoLock ------------------------------
(***************************************************************************)
(* What the kernel's spin lock promises: one holder at a time, and the     *)
(* lock handed over in the order it was asked for.                         *)
(***************************************************************************)
EXTENDS Sequences

CONSTANT Contexts

VARIABLES
    queue,     \* who has asked and not released, in that order
    granted    \* whether the first of them holds the lock

fifoVars == <<queue, granted>>

FifoInit == queue = <<>> /\ granted = FALSE

Ask(x) == /\ \A k \in DOMAIN queue : queue[k] # x
          /\ queue' = Append(queue, x)
          /\ UNCHANGED granted
Grant == /\ queue # <<>> /\ ~ granted
         /\ granted' = TRUE
         /\ UNCHANGED queue
Release == /\ granted
           /\ queue' = Tail(queue)
           /\ granted' = FALSE

FifoNext == (\E x \in Contexts : Ask(x)) \/ Grant \/ Release
FifoSpec == FifoInit /\ [][FifoNext]_fifoVars
=============================================================================
