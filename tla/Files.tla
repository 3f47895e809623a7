------------------------------- MODULE Files -------------------------------
(***************************************************************************)
(* Files over IPC: the client half in the C library (crates/staros-libc/   *)
(* src/file.rs, with the file kind of fd.rs) and the file server           *)
(* (services/fssrv/main.rs).  The threads of one process share the page    *)
(* every request travels through, the reply endpoint and FILES_LOCK; the   *)
(* server keeps a table of open files whose handles carry a generation.    *)
(*                                                                         *)
(* Byte i of file f is the pair <<f, i>>, so a byte says where it is from. *)
(* io[t] is the operation thread t is in: "lock" (waiting for FILES_LOCK), *)
(* "send", "recv", or "user".  A program does not close a descriptor       *)
(* another of its threads is using.                                        *)
(***************************************************************************)
EXTENDS Integers, Sequences, FiniteSets

CONSTANTS
    Accessors,     \* the threads
    Names,         \* the members of the archive
    SizeOf,        \* SizeOf[f]: the bytes of f
    PAGE,          \* bytes of the shared buffer
    FILE_FDS,      \* descriptors for files
    MAX_OPEN,      \* slots of the server's table
    Gens,          \* generations before they wrap
    MAX_REQUESTS,  \* requests the server answers before it exits
    Counts,        \* how much is asked for
    Targets        \* where a cursor is moved

Nowhere == "nobody"
NoName == "none"
ASSUME FilesAssumption ==
    /\ Nowhere \notin Accessors /\ NoName \notin Names /\ SizeOf \in [Names -> Nat]
    /\ PAGE \in Nat /\ FILE_FDS \in Nat /\ MAX_OPEN \in Nat /\ Gens \in Nat \ {0} /\ MAX_REQUESTS \in Nat
    /\ Counts \subseteq Nat /\ Targets \subseteq Nat

NoHandle == [slot |-> 0, gen |-> 0]
NoFile == [kind |-> "none", name |-> NoName, handle |-> NoHandle, offset |-> 0]
Empty == [name |-> NoName, gen |-> 0]
Silence == [kind |-> "none", handle |-> NoHandle, offset |-> 0, len |-> 0]
Idle == [op |-> "user", at |-> "user", name |-> NoName, fd |-> 0, handle |-> NoHandle, want |-> 0, start |-> 0,
         got |-> <<>>]

VARIABLES
    files_lock,      \* who holds FILES_LOCK, or nobody
    page,            \* the shared buffer: a path or bytes
    file_fds,        \* the descriptors: NoFile or a file
    io,
    request, reply,  \* the two endpoints: a message or silence
    open_files, generation, served

fileVars == <<files_lock, page, file_fds, io, request, reply, open_files, generation, served>>

FilesInit ==
    /\ files_lock = Nowhere /\ page = <<>> /\ request = Silence /\ reply = Silence
    /\ file_fds = [d \in 1..FILE_FDS |-> NoFile]
    /\ io = [t \in Accessors |-> Idle]
    /\ open_files = [s \in 1..MAX_OPEN |-> Empty] /\ generation = 1 /\ served = 0

LowerOf(a, b) == IF a < b THEN a ELSE b
Bytes(f, from, n) == [i \in 1..n |-> <<f, from + i>>]
-----------------------------------------------------------------------------
\* Table::insert, get and remove: the lowest empty slot, and a handle that
\* names the slot and the generation it was filled in.
FreeSlots == {s \in 1..MAX_OPEN : open_files[s] = Empty}
Inserted == LET s == CHOOSE s \in FreeSlots : \A r \in FreeSlots : s <= r
            IN [slot |-> s, gen |-> generation]
lookup(h) == IF open_files[h.slot] # Empty /\ open_files[h.slot].gen = h.gen
             THEN open_files[h.slot].name ELSE NoName

Reply(kind, h, n) ==
    /\ reply' = [Silence EXCEPT !.kind = kind, !.handle = h, !.len = n]
    /\ served' = served + 1 /\ request' = Silence
Refuse == Reply("error", NoHandle, 0)

\* serve: open and stat take their path from the page, read writes it.
serve_open ==
    /\ request.kind = "open"
    /\ IF page \in Names /\ FreeSlots # {}
       THEN /\ open_files' = [open_files EXCEPT ![Inserted.slot] = [name |-> page, gen |-> generation]]
            /\ generation' = IF generation = Gens THEN 1 ELSE generation + 1
            /\ Reply("open", Inserted, 0)
       ELSE Refuse /\ UNCHANGED <<open_files, generation>>
    /\ UNCHANGED page

serve_read ==
    /\ request.kind = "read"
    /\ LET f   == lookup(request.handle)
           off == LowerOf(request.offset, SizeOf[f])
           len == LowerOf(LowerOf(request.len, SizeOf[f] - off), PAGE)
       IN IF f \in Names
          THEN page' = Bytes(f, off, len) /\ Reply("read", NoHandle, len)
          ELSE Refuse /\ UNCHANGED page
    /\ UNCHANGED <<open_files, generation>>

serve_close ==
    /\ request.kind = "close"
    /\ IF lookup(request.handle) \in Names
       THEN open_files' = [open_files EXCEPT ![request.handle.slot] = Empty] /\ Reply("close", NoHandle, 0)
       ELSE Refuse /\ UNCHANGED open_files
    /\ UNCHANGED <<page, generation>>

\* The server's loop; past MAX_REQUESTS it has exited and nobody answers.
serve ==
    /\ request # Silence /\ served < MAX_REQUESTS
    /\ serve_open \/ serve_read \/ serve_close
    /\ UNCHANGED <<files_lock, file_fds, io>>
-----------------------------------------------------------------------------
Does(t, c) == io' = [io EXCEPT ![t] = c]
Finish(t) == Does(t, Idle) /\ files_lock' = Nowhere

\* open and read take the lock before they touch the page; close has let its
\* descriptor go by then.
Begins(t, c) == /\ io[t].op = "user" /\ Does(t, c)
               /\ UNCHANGED <<files_lock, page, request, reply, open_files, generation, served>>

open_file(t, f) ==
    Begins(t, [Idle EXCEPT !.op = "open", !.at = "lock", !.name = f]) /\ UNCHANGED file_fds

read(t, d, n) ==
    /\ file_fds[d].kind = "file"
    /\ Begins(t, [Idle EXCEPT !.op = "read", !.at = "lock", !.fd = d, !.want = n])
    /\ UNCHANGED file_fds

InUse(d) == \E t \in Accessors : io[t].op = "read" /\ io[t].fd = d

close_file(t, d) ==
    /\ file_fds[d].kind = "file" /\ ~InUse(d)
    /\ file_fds' = [file_fds EXCEPT ![d] = NoFile]
    /\ Begins(t, [Idle EXCEPT !.op = "close", !.at = "lock", !.handle = file_fds[d].handle])

\* lseek, all of it under the lock.
seek(t, d, target) ==
    /\ io[t].op = "user" /\ files_lock = Nowhere /\ file_fds[d].kind = "file"
    /\ file_fds' = [file_fds EXCEPT ![d].offset = target]
    /\ UNCHANGED <<files_lock, page, io, request, reply, open_files, generation, served>>

\* Mutant: the transfer goes ahead whoever holds the lock.
lock_files_ignored(t) == files_lock' = t
lock_files(t) == files_lock = Nowhere /\ files_lock' = t

acquire(t) ==
    /\ io[t].at = "lock" /\ lock_files(t)
    /\ IF io[t].op = "read"
       THEN LET k == file_fds[io[t].fd]
            IN Does(t, [io[t] EXCEPT !.at = "send", !.handle = k.handle, !.start = k.offset, !.name = k.name])
       ELSE Does(t, [io[t] EXCEPT !.at = "send"])
    /\ page' = IF io[t].op = "open" THEN io[t].name ELSE page
    /\ UNCHANGED <<file_fds, request, reply, open_files, generation, served>>

\* request: send, then block in recv.  A read asks for what is still wanted.
send(t) ==
    /\ io[t].at = "send" /\ request = Silence
    /\ LET n == Len(io[t].got)
       IN request' = [kind   |-> io[t].op, handle |-> io[t].handle, offset |-> io[t].start + n,
                      len    |-> LowerOf(io[t].want - n, PAGE)]
    /\ Does(t, [io[t] EXCEPT !.at = "recv"])
    /\ UNCHANGED <<files_lock, page, file_fds, reply, open_files, generation, served>>

\* The answer to open: a descriptor for the handle, or none free and the
\* handle is closed again.
FreeFds == {d \in 1..FILE_FDS : file_fds[d] = NoFile}
open_reply(t) ==
    /\ io[t].op = "open"
    /\ IF reply.kind = "error" THEN Finish(t) /\ UNCHANGED file_fds
       ELSE IF FreeFds = {}
       THEN /\ Does(t, [Idle EXCEPT !.op = "close", !.at = "send", !.handle = reply.handle])
            /\ UNCHANGED <<file_fds, files_lock>>
       ELSE LET d == CHOOSE d \in FreeFds : \A e \in FreeFds : d <= e
            IN /\ file_fds' = [file_fds EXCEPT ![d] = [kind |-> "file", name |-> io[t].name,
                                                       handle |-> reply.handle, offset |-> 0]]
               /\ Finish(t)

\* The answer to read: copy what came, and ask again until there is no more
\* or enough; then the cursor moves.
read_reply(t) ==
    LET c   == io[t]
        got == IF reply.kind = "read" THEN c.got \o SubSeq(page, 1, reply.len) ELSE c.got
    IN  /\ c.op = "read"
        /\ IF reply.kind = "error" \/ Len(got) = Len(c.got) \/ Len(got) = c.want
           THEN file_fds' = [file_fds EXCEPT ![c.fd].offset = c.start + Len(got)] /\ Finish(t)
           ELSE /\ Does(t, [c EXCEPT !.at = "send", !.got = got])
                /\ UNCHANGED <<file_fds, files_lock>>

close_reply(t) == io[t].op = "close" /\ Finish(t) /\ UNCHANGED file_fds

recv(t) ==
    /\ io[t].at = "recv" /\ reply # Silence
    /\ reply' = Silence
    /\ open_reply(t) \/ read_reply(t) \/ close_reply(t)
    /\ UNCHANGED <<page, request, open_files, generation, served>>

FilesNext ==
    \/ serve
    \/ \E t \in Accessors :
         \/ acquire(t) \/ send(t) \/ recv(t)
         \/ \E f \in Names : open_file(t, f)
         \/ \E d \in 1..FILE_FDS : \/ close_file(t, d)
                                   \/ \E n \in Counts : read(t, d, n)
                                   \/ \E o \in Targets : seek(t, d, o)

FilesSpec == FilesInit /\ [][FilesNext]_fileVars
-----------------------------------------------------------------------------
InCall(t) == io[t].at \in {"send", "recv"}
IsFile(d) == file_fds[d].kind = "file"
Closes(t) == io[t].op = "close"
BytesRead ==
    \A t \in Accessors : io[t].op = "read" /\ InCall(t) =>
        io[t].got = Bytes(io[t].name, io[t].start, Len(io[t].got))
HandlesOpen == \A d \in 1..FILE_FDS : IsFile(d) => lookup(file_fds[d].handle) = file_fds[d].name
Held(s) == \/ \E d \in 1..FILE_FDS : IsFile(d) /\ file_fds[d].handle.slot = s
           \/ \E t \in Accessors : Closes(t) /\ io[t].handle.slot = s
           \/ reply.kind = "open" /\ reply.handle.slot = s
NoneLeaks == \A s \in 1..MAX_OPEN : open_files[s] # Empty => Held(s)

\* A read gets the bytes of the file its descriptor names, in order, from the
\* cursor: not what another thread's request left in the shared page, and not
\* another thread's reply.  A descriptor's handle is open at the server under the
\* name it was opened for, though generations wrap; and every slot of the server's
\* table is some descriptor's or some call's still under way: failed opens and
\* closes leak nothing.
ReadsItsFile == BytesRead /\ HandlesOpen /\ NoneLeaks
-----------------------------------------------------------------------------
\* The inductive invariant.  The lock's holder is the one thread between its
\* request and its reply, and the messages are its own; the page holds its path
\* until the server has read it and its bytes until it has copied them; and no
\* two descriptors, closing calls and replies hold one slot.
Handles == [slot : 1..MAX_OPEN, gen : 1..Gens]
AnyHandle == Handles \cup {NoHandle}
Letters == Names \X Nat
FilesTypeOK ==
    /\ files_lock \in Accessors \cup {Nowhere} /\ page \in Seq(Letters) \cup Names
    /\ file_fds \in [1..FILE_FDS -> {NoFile} \cup [kind : {"file"}, name : Names, handle : Handles, offset : Nat]]
    /\ io \in [Accessors -> [op : {"user", "open", "close", "read"}, at : {"user", "lock", "send", "recv"},
                             name : Names \cup {NoName}, fd : 0..FILE_FDS, handle : AnyHandle, want : Nat,
                             start : Nat, got : Seq(Letters)]]
    /\ request \in {Silence} \cup [kind : {"open", "close", "read"}, handle : AnyHandle, offset : Nat, len : Nat]
    /\ reply \in {Silence} \cup [kind : {"error", "open", "close", "read"}, handle : AnyHandle, offset : {0}, len : Nat]
    /\ open_files \in [1..MAX_OPEN -> {Empty} \cup [name : Names, gen : 1..Gens]]
    /\ generation \in 1..Gens /\ served \in Nat

OneAtATime == \A t \in Accessors : InCall(t) <=> files_lock = t
\* The bytes thread t has so far end where its next request begins.
Reached(t) == io[t].start + Len(io[t].got)
AskedBy(t) ==
    /\ io[t].at = "recv" /\ reply = Silence
    /\ request.kind = io[t].op /\ request.handle = io[t].handle /\ request.offset = Reached(t)
    /\ request.len <= io[t].want - Len(io[t].got)
    /\ (request.kind = "open" => page = io[t].name)
AnsweredTo(t) ==
    /\ io[t].at = "recv" /\ request = Silence /\ reply.kind \in {io[t].op, "error"}
    /\ (reply.kind = "open" =>
         /\ reply.handle \in Handles
         /\ open_files[reply.handle.slot] = [name |-> io[t].name, gen |-> reply.handle.gen])
    /\ (reply.kind = "read" =>
         /\ reply.len <= io[t].want - Len(io[t].got)
         /\ (reply.len # 0 => page = Bytes(io[t].name, Reached(t), reply.len)))
    /\ (Closes(t) => reply.kind = "close" /\ open_files[io[t].handle.slot] = Empty)
Asked == request # Silence => \E t \in Accessors : AskedBy(t)
Answered == reply # Silence => \E t \in Accessors : AnsweredTo(t)
OpensOwn(t) == io[t].op = "open" => io[t].name \in Names /\ (io[t].at = "send" => page = io[t].name)
ReadsOwn(t) ==
    io[t].op = "read" =>
        /\ io[t].fd \in 1..FILE_FDS /\ IsFile(io[t].fd)
        /\ ~InCall(t) => io[t].got = <<>>
        /\ InCall(t) => io[t].handle = file_fds[io[t].fd].handle /\ io[t].name = file_fds[io[t].fd].name
ClosesOwn(t) ==
    Closes(t) => /\ io[t].handle \in Handles
                 /\ lookup(io[t].handle) \in Names \/ (files_lock = t /\ reply.kind = "close")
OwnCall(t) ==
    /\ io[t].op = "user" <=> io[t].at = "user"
    /\ Len(io[t].got) <= io[t].want /\ OpensOwn(t) /\ ReadsOwn(t) /\ ClosesOwn(t)
OwnCalls == \A t \in Accessors : OwnCall(t)
OneHolder ==
    /\ \A d, e \in 1..FILE_FDS :
         IsFile(d) /\ IsFile(e) /\ file_fds[d].handle.slot = file_fds[e].handle.slot => d = e
    /\ \A t, u \in Accessors : Closes(t) /\ Closes(u) /\ io[t].handle.slot = io[u].handle.slot => t = u
    /\ \A d \in 1..FILE_FDS, t \in Accessors : IsFile(d) /\ Closes(t) => file_fds[d].handle.slot # io[t].handle.slot
    /\ reply.kind = "open" =>
         /\ \A d \in 1..FILE_FDS : IsFile(d) => file_fds[d].handle.slot # reply.handle.slot
         /\ \A t \in Accessors : Closes(t) => io[t].handle.slot # reply.handle.slot
FilesInv == FilesTypeOK /\ OneAtATime /\ Asked /\ Answered /\ OwnCalls /\ OneHolder /\ ReadsItsFile
=============================================================================
