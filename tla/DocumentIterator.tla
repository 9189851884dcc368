-------------------------- MODULE DocumentIterator --------------------------
(***************************************************************************)
(* What an ANT_directory_iterator promises the indexer's main loop:        *)
(* first() and next() hand out the documents of the collection, each of    *)
(* them once and in no particular order, and then return NULL.             *)
(***************************************************************************)
CONSTANT Documents      \* what a collection may hold

VARIABLES
    undelivered,    \* the documents still to come
    ended           \* NULL has been returned

vars == <<undelivered, ended>>

Init == undelivered \in SUBSET Documents /\ ended = FALSE

Deliver(document) ==
    /\ ~ended
    /\ document \in undelivered
    /\ undelivered' = undelivered \ {document}
    /\ UNCHANGED ended

End ==
    /\ ~ended
    /\ undelivered = {}
    /\ ended' = TRUE
    /\ UNCHANGED undelivered

Next == End \/ \E document \in Documents : Deliver(document)

Spec == Init /\ [][Next]_vars
=============================================================================
