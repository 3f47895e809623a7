------------------------------- MODULE Process -------------------------------
(***************************************************************************)
(* How a C program speaks and ends (staros-libc stdio.rs, cxx.rs, lib.rs): *)
(* the console's line buffer behind its lock, the atexit table, and the    *)
(* ways out: exit, quick_exit, abort, _exit.  Exit ends the calling task   *)
(* only, so another thread may go on printing, registering and exiting.    *)
(* Each thread's own destructors are ThreadLife's.                         *)
(***************************************************************************)
EXTENDS Integers, Sequences

CONSTANTS
    Speakers,     \* threads
    Chars,        \* bytes
    Texts,        \* what one call prints
    NL,           \* the byte that ends a line
    LINE,         \* bytes the line buffer holds
    Handlers,     \* functions that may be registered
    Registers,    \* handlers that register the next one when they run
    MAX_ATEXIT,
    MaxSpoken     \* how many calls the threads print with

Nobody == "nobody"
ASSUME ProcessAssumption ==
    /\ Nobody \notin Speakers /\ Handlers \subseteq Nat
    /\ NL \in Chars /\ \A text \in Texts : text \in Seq(Chars)
    /\ LINE \in Nat \ {0} /\ MAX_ATEXIT \in Nat /\ MaxSpoken \in Nat

VARIABLES
    doing,     \* each thread: what it does next
    to_print,  \* the bytes its call still has to print
    out_lock,  \* the holder of OUT_LOCK
    buf,       \* the line buffer
    screen,    \* the bytes DebugWrite was given
    said,      \* ghost: the bytes of all calls, in the order they took the lock
    spoken,    \* ghost: how many that were
    table,     \* ATEXIT
    ran,       \* handlers called so far, in order
    known      \* ghost: handlers whose registration succeeded

procVars == <<doing, to_print, out_lock, buf, screen, said, spoken, table, ran, known>>
consoleVars == <<to_print, out_lock, buf, screen, said, spoken>>
exitVars == <<table, ran, known>>

Stands(t, where) == doing[t].at = where
GoesOn(t, where) == doing' = [doing EXCEPT ![t].at = where]

ProcInit ==
    /\ doing = [t \in Speakers |-> [at |-> "run", back |-> "run"]]
    /\ to_print = [t \in Speakers |-> <<>>]
    /\ out_lock = Nobody /\ buf = <<>> /\ screen = <<>> /\ said = <<>> /\ spoken = 0
    /\ table = <<>> /\ ran = <<>> /\ known = {}
-----------------------------------------------------------------------------
\* The lock is held for all the bytes of a call.

\* Mutant: the lock is not waited for.
with_out_open(t, text, back) ==
    /\ out_lock' = t /\ to_print' = [to_print EXCEPT ![t] = text] /\ said' = said \o text /\ spoken' = spoken + 1
    /\ doing' = [doing EXCEPT ![t] = [at |-> "push", back |-> back]]
    /\ UNCHANGED <<buf, screen, exitVars>>
with_out(t, text, back) ==
    /\ out_lock = Nobody
    /\ out_lock' = t /\ to_print' = [to_print EXCEPT ![t] = text] /\ said' = said \o text /\ spoken' = spoken + 1
    /\ doing' = [doing EXCEPT ![t] = [at |-> "push", back |-> back]]
    /\ UNCHANGED <<buf, screen, exitVars>>

\* printf, fputs, putchar: one hold of the lock.  A handler may print too.
printf(t, text) ==
    doing[t].at \in {"run", "handler"} /\ spoken < MaxSpoken /\ with_out(t, text, doing[t].at)
\* puts takes the lock once for the text and again for the newline.
puts(t, text) == Stands(t, "run") /\ spoken < MaxSpoken /\ with_out(t, text, "newline")
puts_newline(t) == Stands(t, "newline") /\ with_out(t, <<NL>>, "run")

\* Append a byte; a newline, or the last byte of room, writes the buffer out.
push_byte(t) ==
    /\ Stands(t, "push") /\ to_print[t] # <<>>
    /\ LET b == Append(buf, Head(to_print[t]))
       IN IF Head(to_print[t]) = NL \/ Len(b) = LINE
          THEN buf' = <<>> /\ screen' = screen \o b
          ELSE buf' = b /\ UNCHANGED screen
    /\ to_print' = [to_print EXCEPT ![t] = Tail(@)]
    /\ UNCHANGED <<doing, out_lock, said, spoken, exitVars>>
call_returns(t) ==
    /\ Stands(t, "push") /\ to_print[t] = <<>>
    /\ out_lock' = Nobody /\ GoesOn(t, doing[t].back)
    /\ UNCHANGED <<to_print, buf, screen, said, spoken, exitVars>>

\* fflush, and the flush on the way out: one lock hold.
Flushed ==
    /\ out_lock = Nobody /\ screen' = screen \o buf /\ buf' = <<>>
    /\ UNCHANGED <<to_print, out_lock, said, spoken>>
fflush(t) ==
    /\ doing[t].at \in {"run", "handler"} /\ buf # <<>>
    /\ Flushed /\ UNCHANGED <<doing, exitVars>>
-----------------------------------------------------------------------------
\* A full table refuses, so that the caller knows.
__cxa_atexit(t, h) ==
    /\ Stands(t, "run") /\ h \notin known /\ Len(table) < MAX_ATEXIT
    /\ table' = Append(table, h) /\ known' = known \cup {h}
    /\ UNCHANGED <<doing, ran, consoleVars>>

exit(t) == Stands(t, "run") /\ GoesOn(t, "atexit") /\ UNCHANGED <<consoleVars, exitVars>>

\* The newest handler is taken off under the lock and called outside it, so that
\* it can register another.
run_atexit(t) ==
    /\ Stands(t, "atexit") /\ table # <<>>
    /\ LET h    == table[Len(table)]
           rest == SubSeq(table, 1, Len(table) - 1)
       IN /\ ran' = Append(ran, h)
          /\ IF h + 1 \in Handlers \ known /\ h \in Registers
             THEN table' = Append(rest, h + 1) /\ known' = known \cup {h + 1}
             ELSE table' = rest /\ UNCHANGED known
    /\ GoesOn(t, "handler")
    /\ UNCHANGED consoleVars
handler_returns(t) == Stands(t, "handler") /\ GoesOn(t, "atexit") /\ UNCHANGED <<consoleVars, exitVars>>
atexit_done(t) ==
    Stands(t, "atexit") /\ table = <<>> /\ GoesOn(t, "flush") /\ UNCHANGED <<consoleVars, exitVars>>

flush(t) == Stands(t, "flush") /\ Flushed /\ GoesOn(t, "bye") /\ UNCHANGED exitVars
\* The goodbye to the file server, and the end of the task.
shutdown(t) == Stands(t, "bye") /\ GoesOn(t, "exited") /\ UNCHANGED <<consoleVars, exitVars>>

\* quick_exit and abort only flush; _exit not even that.
quick_exit(t) == Stands(t, "run") /\ Flushed /\ GoesOn(t, "gone") /\ UNCHANGED exitVars
_exit(t) == Stands(t, "run") /\ GoesOn(t, "gone") /\ UNCHANGED <<consoleVars, exitVars>>

ProcNext ==
    \E t \in Speakers :
        \/ \E text \in Texts : printf(t, text) \/ puts(t, text)
        \/ puts_newline(t)
        \/ push_byte(t) \/ call_returns(t) \/ fflush(t)
        \/ \E h \in Handlers : __cxa_atexit(t, h)
        \/ exit(t) \/ run_atexit(t) \/ handler_returns(t) \/ atexit_done(t) \/ flush(t) \/ shutdown(t)
        \/ quick_exit(t) \/ _exit(t)
ProcSpec == ProcInit /\ [][ProcNext]_procVars
-----------------------------------------------------------------------------
InProgress == IF out_lock = Nobody THEN <<>> ELSE to_print[out_lock]
In(seq) == {seq[i] : i \in DOMAIN seq}
Once(seq) == \A i, j \in DOMAIN seq : seq[i] = seq[j] => i = j

InOnePiece == (screen \o buf) \o InProgress = said /\ Len(buf) < LINE
EachOnce == Once(ran) /\ In(ran) \cap In(table) = {} /\ Len(table) <= MAX_ATEXIT
AllKnown == Once(table) /\ In(ran) \cup In(table) = known

\* What the threads of a process print reaches the console once, a call's bytes
\* together and the calls in the order they took the lock, and the line buffer
\* has room for the next byte; no handler runs twice; and when every thread has
\* left by exit nothing is still in the buffer, and every handler that was
\* accepted has run, those registered by a handler too.
SaidAndDone ==
    /\ InOnePiece /\ EachOnce
    /\ (\A t \in Speakers : Stands(t, "exited")) => buf = <<>> /\ In(ran) = known
-----------------------------------------------------------------------------
\* The inductive invariant: the one that holds the lock is the one that prints;
\* while something waits in the buffer or in the table, some thread has that
\* part of its way out before it, or left by another.
Stops == {"run", "newline", "push", "handler", "atexit", "flush", "bye", "exited", "gone"}
ProcTypeOK ==
    /\ doing \in [Speakers -> [at : Stops, back : {"run", "newline", "handler"}]]
    /\ to_print \in [Speakers -> Seq(Chars)] /\ out_lock \in Speakers \cup {Nobody}
    /\ buf \in Seq(Chars) /\ screen \in Seq(Chars) /\ said \in Seq(Chars)
    /\ table \in Seq(Handlers) /\ ran \in Seq(Handlers)
HolderPrints == \A t \in Speakers : Stands(t, "push") <=> out_lock = t
SomeoneFlushes == buf # <<>> => \E t \in Speakers : doing[t].at \notin {"bye", "exited"}
SomeoneRuns == table # <<>> => \E t \in Speakers : doing[t].at \notin {"flush", "bye", "exited"}
ProcInv == ProcTypeOK /\ HolderPrints /\ SomeoneFlushes /\ SomeoneRuns /\ AllKnown /\ SaidAndDone
==============================================================================
