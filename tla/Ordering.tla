------------------------------ MODULE Ordering ------------------------------
(***************************************************************************)
(* What the sorts and filters of the standard library do: sort, sort_by and    *)
(* sort_by_key of a slice keep the order of equals, and a filter that of all;   *)
(* truncate keeps the first.                                                    *)
(***************************************************************************)
EXTENDS Integers, Sequences, FiniteSets

\* The elements of a finite set in the order R, a set of pairs.
Ordered(S, R) ==
    [k \in 1 .. Cardinality(S) |-> CHOOSE x \in S : Cardinality({y \in S : <<y, x>> \in R}) = k - 1]

\* The numbers of a finite set, the smallest first.
Ascending(S) == Ordered(S, {p \in S \X S : p[1] < p[2]})

\* The elements at the given places of s.
AtPlaces(s, places) == [k \in DOMAIN places |-> s[places[k]]]

\* The elements of s that P holds of.
Filtered(s, P(_)) == AtPlaces(s, Ascending({i \in DOMAIN s : P(s[i])}))

\* The elements of s that are in S.
Only(s, S) == AtPlaces(s, Ascending({i \in DOMAIN s : s[i] \in S}))

\* The places of s as Before puts their elements; equals keep their order.
StablePlaces(s, Before(_, _)) ==
    Ordered(DOMAIN s, {p \in (DOMAIN s) \X (DOMAIN s) :
                          \/ Before(s[p[1]], s[p[2]])
                          \/ (~Before(s[p[2]], s[p[1]]) /\ p[1] < p[2])})

StableSort(s, Before(_, _)) == AtPlaces(s, StablePlaces(s, Before))

Truncated(s, n) == IF Len(s) > n THEN SubSeq(s, 1, n) ELSE s
=============================================================================
