------------------------------ MODULE KeyRange ------------------------------
(***************************************************************************)
(* The tables of the local stores (redb) are ordered by keys: pairs of the     *)
(* name of a namespace or collection and an id.  A search reads the range of   *)
(* keys from (name, "") to (name, "\u{10ffff}").  A text is a sequence of      *)
(* character codes, in whose order its bytes are too.                          *)
(***************************************************************************)
EXTENDS Ordering, Sequences

CONSTANT Last       \* the greatest code of a character

ASSUME KeyAssumption == Last \in Nat

TextBefore(s, t) ==
    \E i \in 1..Len(t) :
        /\ \A j \in 1..(i - 1) : j <= Len(s) /\ s[j] = t[j]
        /\ i > Len(s) \/ s[i] < t[i]

CompareText(s, t) == IF TextBefore(s, t) THEN -1 ELSE IF s = t THEN 0 ELSE 1

KeyBefore(k, l) == TextBefore(k[1], l[1]) \/ (k[1] = l[1] /\ TextBefore(k[2], l[2]))

InRange(name, key) == ~KeyBefore(key, <<name, <<>>>>) /\ ~KeyBefore(<<name, <<Last>>>>, key)

\* Keys as the table gives them.
InKeyOrder(keys) == Ordered(keys, {p \in keys \X keys : KeyBefore(p[1], p[2])})

\* An id that the range ends before: it begins with the last character, and is longer.
PastTheEnd(id) == TextBefore(<<Last>>, id)
=============================================================================
