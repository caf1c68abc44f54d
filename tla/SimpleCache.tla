----------------------------- MODULE SimpleCache -----------------------------
(***************************************************************************)
(* simplecache.c of pr3 (and content.c of pr1, which is the same): a list  *)
(* of keys and files is read into an array that grows, sorted, and         *)
(* searched by bisection.                                                  *)
(*                                                                         *)
(* Keys are numbers in the order of strcmp.  Of a path it matters whether  *)
(* open succeeds: for the path as it stands in the line, and without its   *)
(* last character, which is what is left of it in a last line without an   *)
(* end of line.                                                            *)
(***************************************************************************)
EXTENDS Integers, Sequences, Functions

CONSTANTS
    Keys,
    Lists,           \* the lists to load: sequences of lines
    FirstCapacity    \* 16 in the code

VARIABLES
    lines,           \* not read yet
    items,           \* the array's elements so far, or all of them
    capacity,
    pc,
    key, lo, hi,     \* the locals of simplecache_get
    result

vars == <<lines, items, capacity, pc, key, lo, hi, result>>

Line(k, opens, eol) == [key |-> k, opens |-> opens, eol |-> eol]
NotFound == -1

Init ==
    /\ lines \in Lists
    /\ items = << >>
    /\ capacity = FirstCapacity
    /\ pc = "read"
    /\ key \in Keys
    /\ lo = 0 /\ hi = -1
    /\ result = NotFound

Opens(line) == IF line.eol THEN line.opens = "whole" ELSE line.opens = "short"

\* Variant for mutation: the array grows when it is too late.
CapacityForLate(n) == IF n > capacity THEN 2 * capacity ELSE capacity

\* There is room for one more item after each.
CapacityFor(n) == IF n = capacity THEN 2 * capacity ELSE capacity

\* The descriptors are those of the lines, in the order they are opened.
ReadLine ==
    /\ pc = "read"
    /\ lines # << >>
    /\ lines' = Tail(lines)
    /\ IF Opens(Head(lines))
       THEN /\ items' = Append(items, [key |-> Head(lines).key, fildes |-> Len(items)])
            /\ capacity' = CapacityFor(Len(items) + 1)
            /\ UNCHANGED pc
       ELSE /\ pc' = "exit"
            /\ UNCHANGED <<items, capacity>>
    /\ UNCHANGED <<key, lo, hi, result>>

\* qsort: in any order among equal keys.
Sort ==
    /\ pc = "read"
    /\ lines = << >>
    /\ \E p \in Bijection(1 .. Len(items), 1 .. Len(items)) :
          items' = [i \in 1 .. Len(items) |-> items[p[i]]]
    /\ \A i \in 1 .. Len(items) - 1 : items'[i].key <= items'[i + 1].key
    /\ lo' = 0
    /\ hi' = Len(items) - 1
    /\ pc' = "get"
    /\ UNCHANGED <<lines, capacity, key, result>>

Middle == lo + (hi - lo) \div 2

\* Variant for mutation: the loop ends with one element left.
SearchingLessOne == lo < hi

Searching == lo <= hi

\* One round of the loop.  The index counts from 0.
Probe ==
    /\ pc = "get"
    /\ Searching
    /\ LET item == items[Middle + 1] IN
          \/ key < item.key /\ hi' = Middle - 1 /\ UNCHANGED <<lo, result, pc>>
          \/ key > item.key /\ lo' = Middle + 1 /\ UNCHANGED <<hi, result, pc>>
          \/ key = item.key /\ result' = item.fildes /\ pc' = "return" /\ UNCHANGED <<lo, hi>>
    /\ UNCHANGED <<lines, items, capacity, key>>

Miss ==
    /\ pc = "get"
    /\ ~Searching
    /\ pc' = "return"
    /\ UNCHANGED <<lines, items, capacity, key, lo, hi, result>>

Next == ReadLine \/ Sort \/ Probe \/ Miss

Spec == Init /\ [][Next]_vars
-----------------------------------------------------------------------------
(* Properties.                                                              *)

TypeOK ==
    /\ Len(items) < capacity
    /\ pc \in {"read", "exit", "get", "return"}
    /\ lo \in 0 .. Len(items) /\ hi \in -1 .. Len(items) - 1
    /\ result \in {NotFound} \cup 0 .. Len(items) - 1

\* A lookup gives the descriptor of a file listed under the key, and none only
\* when the key is not listed: whatever the list, its duplicates and the order
\* that qsort gives them.
LookupRight ==
    pc = "return" =>
        IF result = NotFound
        THEN \A i \in 1 .. Len(items) : items[i].key # key
        ELSE \E i \in 1 .. Len(items) : items[i] = [key |-> key, fildes |-> result]

\* Why it holds.  The array is sorted when it is searched, and the bisection has
\* excluded what is left of lo and right of hi.
ItemsOK ==
    /\ items \in Seq([key : Int, fildes : Nat])
    /\ \A i \in 1 .. Len(items) : items[i].fildes < Len(items)
    /\ lines \in Seq([key : Int, opens : {"whole", "short"}, eol : BOOLEAN])
    /\ capacity \in Nat /\ key \in Keys
    /\ pc # "return" => result = NotFound

Bisected ==
    pc = "get" =>
        /\ \A i, j \in 1 .. Len(items) : i <= j => items[i].key <= items[j].key
        /\ lo <= hi + 1
        /\ \A i \in 1 .. lo : items[i].key < key
        /\ \A i \in hi + 2 .. Len(items) : items[i].key > key

SearchInv == TypeOK /\ ItemsOK /\ Bisected /\ LookupRight
=============================================================================
