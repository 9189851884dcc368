--------------------------- MODULE MCIndexingLoop ---------------------------
(***************************************************************************)
(* Instances of IndexingLoop for TLC.                                      *)
(***************************************************************************)
EXTENDS IndexingLoop

CONSTANTS cat, dog, tag

Document(name, cats, dogs, tags, size) ==
    [name |-> name, file |-> TRUE, size |-> size,
     tf |-> [term \in {cat, dog, tag} |->
                CASE term = cat -> cats [] term = dog -> dogs [] term = tag -> tags]]

\* Two documents of one length; one with a word more often than is counted; one without
\* anything to index; one with a tag but no word, which two of together are more than is
\* counted; and an empty file.
Everything == {Document("a", 1, 1, 100, 2), Document("b", 0, 2, 0, 1), Document("c", 300, 0, 0, 2),
        Document("d", 0, 0, 0, 1), Document("e", 0, 0, 200, 1),
        [Document("f", 0, 0, 0, 1) EXCEPT !.file = FALSE]}
=============================================================================
