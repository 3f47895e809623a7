------------------------------- MODULE Sorting -------------------------------
(***************************************************************************)
(* qsort and bsearch (staros-libc sort.rs).  qsort is a heapsort that      *)
(* moves elements by swapping and asks the program's comparison function   *)
(* about two of them at a time; each swap, or each end of a sift, is a     *)
(* step here.  An element is [key, id]; the comparison sees only keys.     *)
(* Indices count from 0, as in the code.                                   *)
(***************************************************************************)
EXTENDS Integers, FiniteSets

CONSTANTS Keys, MaxLength

VARIABLES
    given,   \* the array as it was
    array,
    start,   \* heap building: the parents still to sift, counted down
    end,     \* then: the part of the array that is still a heap
    root,    \* the element being sifted, -1 between sifts
    found    \* bsearch's answer: [key, at], at -1 for none

sortVars == <<given, array, start, end, root, found>>

Count == Cardinality(DOMAIN given)
Unasked == [key |-> -1, at |-> -1]

\* A comparison function is consistent: it orders the keys.
cmp(a, b) == a.key - b.key
swap(i, j) == [array EXCEPT ![i] = array[j], ![j] = array[i]]

SortInit ==
    /\ \E n \in 0..MaxLength : given \in {[i \in 0..(n - 1) |-> [key |-> k[i], id |-> i]] :
                                             k \in [0..(n - 1) -> Keys]}
    /\ array = given
    /\ start = Count \div 2 /\ end = Count /\ root = -1
    /\ found = Unasked
-----------------------------------------------------------------------------
Greater(i, j) == cmp(array[i], array[j]) > 0
\* The larger of the root and its children below `end`; the left child first.
\* Mutant: the right child is not looked at.
largest_left(r) ==
    LET l == 2 * r + 1 IN IF l < end /\ Greater(l, r) THEN l ELSE r
largest(r) ==
    LET l == 2 * r + 1
        m == IF l < end /\ Greater(l, r) THEN l ELSE r
    IN IF l + 1 < end /\ Greater(l + 1, m) THEN l + 1 ELSE m

sift_down ==
    /\ root # -1
    /\ IF largest(root) = root
       THEN root' = -1 /\ UNCHANGED array
       ELSE array' = swap(root, largest(root)) /\ root' = largest(root)
    /\ UNCHANGED <<given, start, end, found>>

\* Build the heap from the last parent down.
build ==
    /\ root = -1 /\ Count >= 2 /\ start > 0
    /\ start' = start - 1 /\ root' = start - 1
    /\ UNCHANGED <<given, array, end, found>>
\* Move the largest to the end and shrink the heap.
extract ==
    /\ root = -1 /\ start = 0 /\ end > 1
    /\ array' = swap(0, end - 1) /\ end' = end - 1 /\ root' = 0
    /\ UNCHANGED <<given, start, found>>

Done == root = -1 /\ (Count < 2 \/ (start = 0 /\ end <= 1))

\* Halve the range that can hold the key.
search(k) ==
    LET at[lo \in 0..Count, hi \in 0..Count] ==
            IF lo >= hi THEN -1
            ELSE LET mid == lo + (hi - lo) \div 2
                     order == cmp([key |-> k], array[mid])
                 IN CASE order = 0 -> mid [] order < 0 -> at[lo, mid] [] OTHER -> at[mid + 1, hi]
    IN at[0, Count]
bsearch ==
    /\ Done /\ found = Unasked
    /\ \E k \in Keys : found' = [key |-> k, at |-> search(k)]
    /\ UNCHANGED <<given, array, start, end, root>>

SortNext == build \/ sift_down \/ extract \/ bsearch
SortSpec == SortInit /\ [][SortNext]_sortVars
-----------------------------------------------------------------------------
Elements(a) == {a[i] : i \in DOMAIN a}

\* qsort loses and invents no element at any step, ends with the keys in order,
\* and bsearch then finds a key exactly when the array has it.
SortsAndFinds ==
    /\ Elements(array) = Elements(given)
    /\ Done => \A i, j \in DOMAIN array : i < j => cmp(array[i], array[j]) <= 0
    /\ found # Unasked =>
          IF \E e \in Elements(given) : e.key = found.key
          THEN found.at \in DOMAIN array /\ array[found.at].key = found.key
          ELSE found.at = -1
==============================================================================
