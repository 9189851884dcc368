---------------------------- MODULE SortedIndex ----------------------------
(***************************************************************************)
(* What an inverted index promises those who search it: for each term the  *)
(* postings that the indexer collected, those of the largest impacts       *)
(* first, and the terms in order from any string on.                       *)
(***************************************************************************)
EXTENDS Strings

CONSTANTS
    Asked, Ks   \* the strings that are asked for, and how many postings

VARIABLES
    entries,    \* the postings of each term, as a sequence
    used,       \* the postings of a term that are used, at most
    reply,      \* the last question, and the postings when they are its answer
    cursor      \* a term of the index as <<term>>; <<>> when none is being walked to

vars == <<entries, used, reply, cursor>>

Reply(question, found, postings) == [question |-> question, found |-> found, postings |-> postings]
NoReply == Reply(<<>>, FALSE, <<>>)

\* The least of some terms.
Least(terms) ==
    IF terms = {} THEN <<>>
    ELSE <<CHOOSE t \in terms : \A other \in terms \ {t} : StrLess(t, other)>>

Init == reply = NoReply /\ cursor = <<>>

\* A question for the k best postings of a term is answered with at least that many.
Search(term, k) ==
    LET question == <<"search", term, k>>
        postings == entries[term]
    IN  /\ reply'.question = question
        /\ IF term \notin DOMAIN entries THEN reply' = Reply(question, FALSE, <<>>)
           ELSE \E n \in 0 .. Len(postings) :
                    /\ n >= k \/ n >= used \/ n = Len(postings)
                    /\ reply' = Reply(question, TRUE, SubSeq(postings, 1, n))
        /\ cursor' = <<>>

\* The first term that is not before a string.
First(from) ==
    /\ reply' = Reply(<<"first", from>>, FALSE, <<>>)
    /\ cursor' = Least({t \in DOMAIN entries : ~StrLess(t, from)})

Following ==
    /\ cursor # <<>>
    /\ reply' = Reply(<<"next">>, FALSE, <<>>)
    /\ cursor' = Least({t \in DOMAIN entries : StrLess(cursor[1], t)})

Next ==
    /\ \/ \E term \in Asked, k \in Ks : Search(term, k)
       \/ \E from \in Asked : First(from)
       \/ Following
    /\ UNCHANGED <<entries, used>>

Spec == Init /\ [][Next]_vars
=============================================================================
