------------------------------- MODULE Lists --------------------------------
(***************************************************************************)
(* What the pages do to their arrays: filter one, and sort rows.  Both are *)
(* defined by the places of the result: the n-th element is the one with   *)
(* n - 1 others before it.                                                 *)
(***************************************************************************)
EXTENDS Integers, Sequences, FiniteSets

\* The pairs of S in ascending order of their keys.
Ascending(S, key) == {p \in S \X S : key[p[1]] < key[p[2]]}

\* Array.prototype.sort: the elements of S in the strict total order R.
SortedBy(S, R) ==
    [n \in 1 .. Cardinality(S) |-> CHOOSE x \in S : Cardinality({y \in S : <<y, x>> \in R}) = n - 1]

\* Array.prototype.filter: those elements of s that are in K.
Filter(s, K) ==
    LET kept == {i \in DOMAIN s : s[i] \in K}
        at == SortedBy(kept, Ascending(kept, [i \in kept |-> i]))
    IN  [n \in 1 .. Cardinality(kept) |-> s[at[n]]]
=============================================================================
