---------------------------- MODULE PostingsList ----------------------------
(***************************************************************************)
(* What the node of a term promises the indexer (the comments on           *)
(* ANT_memory_index_hash_node::add_posting): a list of documents, each as  *)
(* its distance from the one before, and term frequencies.  Occurrences in *)
(* the document at the end of the list are added to its term frequency, up *)
(* to TfCap; the collection frequency counts every occurrence; an addition *)
(* that fails for want of memory leaves no trace.                          *)
(***************************************************************************)
EXTENDS Naturals, Sequences

CONSTANTS
    Extra,      \* the occurrences that one addition reports
    TfCap

VARIABLES postings, current_docno, collection_frequency

vars == <<postings, current_docno, collection_frequency>>

Init == postings = <<>> /\ current_docno = 0 /\ collection_frequency = 0

Capped(frequency) == IF frequency <= TfCap THEN frequency ELSE TfCap

AddToLast(extra) ==
    /\ collection_frequency' = collection_frequency + extra
    /\ UNCHANGED current_docno
    /\ postings # <<>>
    /\ postings' = [postings EXCEPT ![Len(postings)].tf = Capped(@ + extra)]

AddDocument(extra) ==
    /\ collection_frequency' = collection_frequency + extra
    /\ current_docno' \in Nat
    /\ current_docno' > current_docno
    /\ postings' = Append(postings, [gap |-> current_docno' - current_docno,
                                    tf |-> Capped(extra)])

Next == \E extra \in Extra : AddToLast(extra) \/ AddDocument(extra)

Spec == Init /\ [][Next]_vars
=============================================================================
