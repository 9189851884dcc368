-------------------------------- MODULE TopK --------------------------------
(***************************************************************************)
(* What a search promises (ATIRE_API::search): a query scores documents,   *)
(* any number of times each, and the answer is the list of those that      *)
(* match and have the largest sums, at most as many as were asked for, the *)
(* largest first.  Of two documents with one sum the later number is first.*)
(***************************************************************************)
EXTENDS Integers, Sequences, FiniteSets

CONSTANTS
    Docs,           \* the numbers of the documents
    Scores,         \* what one posting may add to the sum of a document
    Unanswered      \* there is no answer yet

VARIABLES
    total,          \* the sum of each document's scores
    limit,          \* how many documents were asked for
    answer

vars == <<total, limit, answer>>

Init ==
    /\ total = [d \in Docs |-> 0]
    /\ limit = 0
    /\ answer = Unanswered

Above(d, e) == total[d] > total[e] \/ (total[d] = total[e] /\ d > e)

\* The members of a set that fewer than the limit of others are above.
Best(documents) ==
    {d \in documents : Cardinality({e \in documents : Above(e, d)}) < limit}

\* A query for any number of documents; its scores start from zero.
Search ==
    /\ total' = [d \in Docs |-> 0]
    /\ limit' \in Nat
    /\ answer' = Unanswered

Score(d, score) ==
    /\ answer = Unanswered
    /\ total' = [total EXCEPT ![d] = @ + score]
    /\ UNCHANGED <<limit, answer>>

Answer(matching) ==
    /\ answer = Unanswered
    /\ answer' = [i \in 1 .. Cardinality(Best(matching)) |->
                    CHOOSE d \in matching :
                        Cardinality({e \in matching : Above(e, d)}) = i - 1]
    /\ UNCHANGED <<total, limit>>

Next ==
    \/ Search
    \/ \E d \in Docs, score \in Scores : Score(d, score)
    \/ \E matching \in SUBSET {d \in Docs : total[d] # 0} : Answer(matching)

Spec == Init /\ [][Next]_vars
=============================================================================
