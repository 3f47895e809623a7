------------------------------ MODULE Streams ------------------------------
(***************************************************************************)
(* A buffered read stream over a file descriptor (crates/staros-libc/src/  *)
(* stream.rs, with seek and read of file.rs).  Byte p of the file is the   *)
(* number p.                                                               *)
(* pos is what no field records: where an unbuffered reader would be.      *)
(***************************************************************************)
EXTENDS Integers, Sequences, SequencesExt

CONSTANTS
    FileSize,    \* bytes of the file
    BUFFER       \* bytes a stream reads ahead

VARIABLES
    offset,      \* the descriptor's cursor
    buf,         \* buf[start..end], the bytes read ahead
    ungot,       \* the byte pushed back, or NO_UNGOT
    eof, error,
    open,
    pos

streamVars == <<offset, buf, ungot, eof, error, open, pos>>

NO_UNGOT == -1

StreamInit ==
    /\ offset = 0 /\ buf = <<>> /\ ungot = NO_UNGOT /\ eof = FALSE /\ error = FALSE
    /\ open = TRUE /\ pos = 0

Lesser(a, b) == IF a < b THEN a ELSE b
Greater(a, b) == IF a < b THEN b ELSE a
Upto(from, n) == [i \in 1..n |-> from + i - 1]
-----------------------------------------------------------------------------
\* A stream mid-call: what take has done so far.
Here == [offset |-> offset, buf |-> buf, ungot |-> ungot, eof |-> eof, got |-> <<>>, dry |-> FALSE]

\* refill: what is buffered, else one read of BUFFER bytes; a read of nothing
\* is end of file.
refill(s) ==
    LET n == Greater(0, Lesser(BUFFER, FileSize - s.offset))
    IN IF s.buf # <<>> THEN s
       ELSE [s EXCEPT !.buf = Upto(s.offset, n), !.offset = @ + n, !.eof = @ \/ n = 0, !.dry = n = 0]

\* One more byte for take: the pushed-back one first, it is not in the buffer.

take_byte(s) ==
    LET r == refill(s)
    IN IF s.ungot # NO_UNGOT THEN [s EXCEPT !.got = Append(@, s.ungot), !.ungot = NO_UNGOT]
       ELSE IF r.dry THEN r
       ELSE [r EXCEPT !.got = Append(@, Head(r.buf)), !.buf = Tail(@)]

\* take: bytes until there are n, or end of file.
take(n) ==
    LET upto[k \in 0..n] ==
          IF k = 0 THEN Here
          ELSE IF upto[k - 1].dry THEN upto[k - 1] ELSE take_byte(upto[k - 1])
    IN upto[n]

Land(s) == /\ offset' = s.offset /\ buf' = s.buf /\ ungot' = s.ungot /\ eof' = s.eof
           /\ pos' = pos + Len(s.got)
           /\ UNCHANGED <<error, open>>

\* fread of count items of size bytes; what a partial item moved is lost to
\* the caller's count, not to the position.
fread(size, count) == open /\ Land(take(size * count))
fgetc == open /\ Land(take(1))

\* fgets and getdelim: byte by byte up to the delimiter, a full buffer or end
\* of file.
getdelim(delim, room) ==
    /\ open
    /\ LET ends == {n \in 1..room : LET s == take(n) IN s.dry \/ (s.got # <<>> /\ Last(s.got) = delim)}
       IN Land(take(IF ends = {} THEN room ELSE CHOOSE n \in ends : \A k \in ends : n <= k))

\* ungetc: one byte, and the program pushes back the byte before it.
ungetc ==
    /\ open /\ pos \in 1..FileSize /\ ungot = NO_UNGOT
    /\ ungot' = pos - 1 /\ eof' = FALSE /\ pos' = pos - 1
    /\ UNCHANGED <<offset, buf, error, open>>

clearerr == eof' = FALSE /\ error' = FALSE /\ UNCHANGED <<offset, buf, ungot, open, pos>>

\* file::seek: the target, or -1 for a negative one.
SEEK_SET == 0
SEEK_CUR == 1
SEEK_END == 2
seek(off, whence) ==
    LET target == off + (CASE whence = SEEK_SET -> 0 [] whence = SEEK_CUR -> offset [] whence = SEEK_END -> FileSize)
    IN IF target < 0 THEN -1 ELSE target

\* What the program has not been given: the descriptor is that far ahead.
\* Mutant: the byte pushed back is not counted.
buffered_read == Len(buf)
buffered == Len(buf) + (IF ungot # NO_UNGOT THEN 1 ELSE 0)

ftello == seek(0, SEEK_CUR) - buffered

\* fseeko (fseek, fsetpos and, with clearerr, rewind); a target past twice the
\* size is not explored.
fseeko(off, whence) ==
    /\ open
    /\ LET target == seek(IF whence = SEEK_CUR THEN off - buffered ELSE off, whence)
           want   == off + (CASE whence = SEEK_SET -> 0 [] whence = SEEK_CUR -> pos [] whence = SEEK_END -> FileSize)
       IN IF target < 0 \/ target > 2 * FileSize THEN UNCHANGED <<offset, buf, ungot, eof, pos>>
          ELSE /\ offset' = target /\ pos' = want
               /\ buf' = <<>> /\ ungot' = NO_UNGOT /\ eof' = FALSE
    /\ UNCHANGED <<error, open>>

rewind == /\ open /\ offset' = 0 /\ pos' = 0 /\ buf' = <<>> /\ ungot' = NO_UNGOT
          /\ eof' = FALSE /\ error' = FALSE /\ UNCHANGED <<open>>

\* fwrite, fputs and fputc on a file: the server is read-only.
fwrite == open /\ error' = TRUE /\ UNCHANGED <<offset, buf, ungot, eof, open, pos>>

fclose == open /\ open' = FALSE /\ UNCHANGED <<offset, buf, ungot, eof, error, pos>>
StreamNext ==
    \/ \E size \in 1..2, count \in 1..2 : fread(size, count)
    \/ fgetc \/ ungetc \/ clearerr \/ rewind \/ fwrite \/ fclose
    \/ \E delim \in 0..FileSize : getdelim(delim, BUFFER + 1)
    \/ \E off \in (-2)..FileSize, whence \in {SEEK_SET, SEEK_CUR, SEEK_END} : fseeko(off, whence)
StreamSpec == StreamInit /\ [][StreamNext]_streamVars
-----------------------------------------------------------------------------
\* Read-ahead and push-back cannot be seen: ftello is where an unbuffered
\* reader would be, and the bytes still to come are the file's from there on,
\* after any mixture of reads, pushes back, seeks and ends of file (fseeko:
\* "the classic buffered-seek bug").
ReadAheadUnseen ==
    open => /\ ftello = pos
            /\ LET ahead == (IF ungot = NO_UNGOT THEN <<>> ELSE <<ungot>>) \o buf
                            \o Upto(offset, Greater(0, FileSize - offset))
               IN ahead = Upto(pos, Greater(0, FileSize - pos))
=============================================================================
