----------------------------- MODULE Collection -----------------------------
(***************************************************************************)
(* What an index holds: a sequence of documents, numbered from 1, each     *)
(* with its name, its length in words and the number of times every term   *)
(* is in it, which is counted up to a limit.  Indexing a document adds it  *)
(* at the end, and no document that was added changes.  A document without *)
(* words is not added, but it may hold tags, which are terms without being *)
(* words; they have been indexed by the time that its number is taken      *)
(* back, and are counted with the tags of the document that gets it next.  *)
(***************************************************************************)
EXTENDS Integers, Sequences

CONSTANTS
    Terms,
    Limit,          \* to what the occurrences of a term in a document are counted
    Documents       \* what can be known of a document

VARIABLES
    documents,
    left            \* of every term, what discarded documents left for the next

vars == <<documents, left>>

Init ==
    /\ documents = <<>>
    /\ left = [term \in Terms |-> 0]

Counted(tf) == IF tf <= Limit THEN tf ELSE Limit
With(document) == [term \in Terms |-> Counted(left[term] + document.tf[term])]

Add(document) ==
    /\ document.length > 0
    /\ documents' = Append(documents, [document EXCEPT !.tf = With(document)])
    /\ left' = [term \in Terms |-> 0]

Discard(document) ==
    /\ document.length = 0
    /\ left' = With(document)
    /\ UNCHANGED documents

Next == \E document \in Documents : Add(document) \/ Discard(document)

Spec == Init /\ [][Next]_vars
=============================================================================
