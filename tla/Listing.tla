------------------------------- MODULE Listing -------------------------------
(***************************************************************************)
(* Directories over a flat archive: the cpio reader (cpio lib.rs), the     *)
(* file server's TAG_LIST and the C library's directory streams (dir.rs,   *)
(* file.rs).  The archive stores paths; a directory is a prefix that some  *)
(* member uses.  A path is a sequence of components.  The blob may end     *)
(* early, in the middle of a member; the trailer reads as no entry.        *)
(***************************************************************************)
EXTENDS Integers, SequencesExt

CONSTANTS
    Archives,          \* sequences of members, each [name, size]
    Paths,             \* directories programs open
    Streams,           \* the DIRs a program may have open
    HEADER_LEN, ALIGN, \* layout of a newc archive
    SEEN               \* subdirectory names a DIR remembers

VARIABLES
    members,   \* what the archive was made from
    length,    \* bytes of the archive that are there
    dirs       \* each DIR: [open, prefix, index, seen, told, done]

listVars == <<members, length, dirs>>

\* A name's length in the header counts its NUL.
NameSize(m) == Len(m.name) + 1
\* How the archiver laid the members out, padding after each name and each file.
Padded(n) == n + ((ALIGN - (n % ALIGN)) % ALIGN)
Offset ==
    LET at[i \in 1..(Len(members) + 1)] ==
            IF i = 1 THEN 0
            ELSE LET m == members[i - 1]
                 IN Padded(Padded(at[i - 1] + HEADER_LEN + NameSize(m)) + m.size)
    IN at
-----------------------------------------------------------------------------
\* The archive reader.  An entry is refused unless its header is where the
\* reader looks and the header, the name and the data all lie in the blob.

align_up(n) == ((n + ALIGN - 1) \div ALIGN) * ALIGN

HeaderAt(pos) == {i \in DOMAIN members : Offset[i] = pos}
DataEnd(pos, m) == align_up(pos + HEADER_LEN + NameSize(m)) + m.size
parse_at(pos) == {members[i] : i \in {j \in HeaderAt(pos) : DataEnd(pos, members[j]) <= length}}
entries ==
    LET from[pos \in 0..(length + ALIGN)] ==
            IF parse_at(pos) = {} THEN <<>>
            ELSE LET m == CHOOSE e \in parse_at(pos) : TRUE
                 IN <<m>> \o from[align_up(DataEnd(pos, m))]
    IN from[0]

\* The server's answer to TAG_LIST, which re-reads the archive: its index-th entry,
\* refused past the end.
serve_list(index) == IF index < Len(entries) THEN {entries[index + 1]} ELSE {}
list(index) == {e.name : e \in serve_list(index)}
-----------------------------------------------------------------------------
Under(prefix, name) == IsStrictPrefix(prefix, name)
\* What a member adds to a listing: its next component, and whether more follow.
component_under(prefix, name) ==
    IF Under(prefix, name)
    THEN {[name |-> name[Len(prefix) + 1], is_dir |-> Len(name) > Len(prefix) + 1]}
    ELSE {}
directory_exists(path) ==
    path = <<>> \/ \E i \in 0..Len(members) : \E n \in list(i) : Under(path, n)

Closed == [open |-> FALSE, prefix |-> <<>>, index |-> 0, seen |-> {}, told |-> <<>>, done |-> FALSE]

ListInit ==
    /\ members \in Archives
    /\ length \in {Offset[Len(members) + 1], Offset[Len(members)] + HEADER_LEN + 1}
    /\ dirs = [s \in Streams |-> Closed]

opendir(s, path) ==
    /\ ~dirs[s].open /\ directory_exists(path)
    /\ dirs' = [dirs EXCEPT ![s] = [Closed EXCEPT !.open = TRUE, !.prefix = path]]
    /\ UNCHANGED <<members, length>>

\* Remember a subdirectory's name while there is room.
already_seen(d, c) == c.name \in d.seen
Remember(d, c) == IF Cardinality(d.seen) < SEEN THEN d.seen \cup {c.name} ELSE d.seen
\* The members from index on that a listing reports: the first is the next answer.
Skips(d, c) == c.is_dir /\ already_seen(d, c)
Answers(d) ==
    {i \in d.index..Len(members) : \E n \in list(i) : \E c \in component_under(d.prefix, n) : ~Skips(d, c)}

\* Walk on to the next member the directory reports.
readdir(s) ==
    LET d == dirs[s]
        found == Answers(d)
    IN /\ d.open /\ ~d.done
       /\ \/ /\ found = {}
             /\ dirs' = [dirs EXCEPT ![s].done = TRUE, ![s].index = Len(entries)]
          \/ \E i \in found : \E n \in list(i) : \E c \in component_under(d.prefix, n) :
                /\ \A j \in found : i <= j
                /\ dirs' = [dirs EXCEPT ![s].index = i + 1,
                                        ![s].seen = IF c.is_dir THEN Remember(d, c) ELSE @,
                                        ![s].told = Append(@, c)]
       /\ UNCHANGED <<members, length>>

\* Mutant: the names already reported are kept.
rewinddir_index(s) ==
    /\ dirs[s].open
    /\ dirs' = [dirs EXCEPT ![s].index = 0, ![s].told = <<>>, ![s].done = FALSE]
    /\ UNCHANGED <<members, length>>
rewinddir(s) ==
    /\ dirs[s].open
    /\ dirs' = [dirs EXCEPT ![s].index = 0, ![s].seen = {}, ![s].told = <<>>, ![s].done = FALSE]
    /\ UNCHANGED <<members, length>>

closedir(s) ==
    /\ dirs[s].open
    /\ dirs' = [dirs EXCEPT ![s] = Closed]
    /\ UNCHANGED <<members, length>>

ListNext ==
    \E s \in Streams :
        \/ \E p \in Paths : opendir(s, p)
        \/ readdir(s) \/ rewinddir(s) \/ closedir(s)
ListSpec == ListInit /\ [][ListNext]_listVars
-----------------------------------------------------------------------------
\* The members that are there in full.
Whole == {members[i].name : i \in {j \in DOMAIN members : Offset[j + 1] <= Padded(length)
                                     /\ (j = Len(members) => length = Offset[j + 1])}}
Children(prefix) == UNION {component_under(prefix, n) : n \in Whole}
Times(told, c) == Cardinality({i \in DOMAIN told : told[i] = c})

\* Read to its end, from the start or from a rewind, whatever other streams do
\* meanwhile, a directory reports exactly the children the complete members of
\* the archive give it: each file once, and each subdirectory once however many
\* members lie under it, as long as the stream had room to remember it.
ListsEachOnce ==
    \A s \in Streams : dirs[s].done =>
        /\ ToSet(dirs[s].told) = Children(dirs[s].prefix)
        /\ \A c \in ToSet(dirs[s].told) :
              ~c.is_dir \/ c.name \in dirs[s].seen => Times(dirs[s].told, c) = 1
==============================================================================
