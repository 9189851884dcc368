------------------------------ MODULE Strings ------------------------------
(* Strings as sequences of letters, which are numbers, and how they compare. *)
EXTENDS Integers, Sequences, FiniteSets

\* The elements of a set in an order, by how many are before each: SetToSortSeq of
\* SequencesExt tries every sequence of them.
InOrder(S, before(_, _)) ==
    [i \in 1 .. Cardinality(S) |->
        CHOOSE x \in S : Cardinality({y \in S : before(y, x)}) = i - 1]

\* strcmp() < 0
StrLess(a, b) ==
    \/ Len(a) < Len(b) /\ a = SubSeq(b, 1, Len(a))
    \/ \E i \in DOMAIN a \cap DOMAIN b :
           a[i] < b[i] /\ SubSeq(a, 1, i - 1) = SubSeq(b, 1, i - 1)

\* The first letters of a string, all of them if it is shorter.
Head_(string, letters) == SubSeq(string, 1, IF Len(string) < letters THEN Len(string) ELSE letters)
=============================================================================
