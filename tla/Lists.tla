------------------------------- MODULE Lists -------------------------------
(***************************************************************************)
(* The lists the code makes of what it holds: sorted() and list            *)
(* comprehensions with a condition.                                         *)
(***************************************************************************)
EXTENDS Integers, Sequences, FiniteSets

\* The members of S, x before y when <<x, y>> \in R: each stands after as many others as
\* precede it.
Ordered(S, R) ==
    [k \in 1..Cardinality(S) |->
        CHOOSE x \in S : Cardinality({y \in S : <<y, x>> \in R}) = k - 1]

Less(K) == {p \in K \X K : p[1] < p[2]}

ByKey(K, key) == {p \in K \X K : \/ key[p[1]] < key[p[2]]
                                  \/ (key[p[1]] = key[p[2]] /\ p[1] < p[2])}

\* The numbers of K by their key, equal ones in their order: a stable sort.
Sorted(K, key) == Ordered(K, ByKey(K, key))

\* The elements of s at the positions in K, in the order of s.
Picked(s, K) == [k \in 1..Cardinality(K) |-> s[Ordered(K, Less(K))[k]]]
=============================================================================
