----------------------------- MODULE IndexFile -----------------------------
(***************************************************************************)
(* ANT_memory_index::serialise(): the variables are added to the terms,    *)
(* the postings are written bucket after bucket of the hash table, all the *)
(* terms that were not culled are collected and sorted, and then the       *)
(* dictionary is written, which ANT_search_engine searches.                *)
(***************************************************************************)
EXTENDS Dictionary

CONSTANTS
    Collections,            \* the hash nodes that the indexer may hold, by term
    HASH_TABLE_SIZE, Hash,  \* the bucket of each term
    Modes,                  \* the sets of term culling options
    StopList,               \* stop words
    MaxDf, MaxProportion    \* stop_word_df_frequencies; stop_word_max_proportion, in percent

\* A hash node with a posting in each of one document or more, whose frequencies and number
\* fit a word of the file.
IsNode(node) ==
    /\ node.docid \in Seq(Nat \ {0}) /\ node.docid # <<>> /\ Len(node.docid) + 2 < Word
    /\ node.tf \in Seq(1 .. Word - 1) /\ Len(node.tf) = Len(node.docid)
    /\ node.document_frequency = Len(node.docid) /\ node.collection_frequency \in Nat

ASSUME IndexAssumption ==
    /\ HASH_TABLE_SIZE \in Nat \ {0}
    /\ Hash[TrimPoint] \in 0 .. HASH_TABLE_SIZE - 1
    /\ \A collection \in Collections :
           /\ Length \in DOMAIN collection /\ TrimPoint \notin DOMAIN collection
           /\ IsFiniteSet(DOMAIN collection) /\ DOMAIN collection \subseteq Term
           /\ \A term \in DOMAIN collection :
                  IsNode(collection[term]) /\ Hash[term] \in 0 .. HASH_TABLE_SIZE - 1

VARIABLES
    mode,                   \* stop_word_removal_mode
    hash_val                \* the bucket to write

vars == <<dictionary, mode, hash_val>>

Init ==
    /\ pc = "indexed"
    /\ index \in Collections /\ mode \in Modes
    /\ hash_val = 0
    /\ DictionaryInit

largest_docno == Len(index[Length].docid)

-----------------------------------------------------------------------------
\* serialise()

ShouldPrune(term) ==
    /\ ~Special(term)
    /\ \/ "cf singletons" \in mode /\ index[term].collection_frequency = 1
       \/ "df singletons" \in mode /\ index[term].document_frequency <= MaxDf
       \/ "df frequents" \in mode
              /\ 100 * index[term].document_frequency >= MaxProportion * largest_docno
       \/ "stop list" \in mode /\ term \in StopList

\* The variables are added before anything is counted.
StartSerialise ==
    /\ pc = "indexed"
    /\ index' = IF static_prune_point < largest_docno
                THEN [t \in DOMAIN index \cup {TrimPoint} |->
                        IF t = TrimPoint THEN Variable(static_prune_point) ELSE index[t]]
                ELSE index
    /\ pc' = "postings"
    /\ UNCHANGED <<index_file, mode, hash_val, unique_terms, in_disk, term_list, here, header, read>>

\* serialise_all_nodes() of a bucket, the right subtree first.
SerialiseBucket ==
    LET bucket == {t \in DOMAIN index : Hash[t] = hash_val /\ ~ShouldPrune(t)}
        order == InOrder(bucket, StrLess)
        lists == [i \in DOMAIN order |-> Written(index[order[i]], Special(order[i]))]
        position(t) ==
            LET before == {i \in DOMAIN order : StrLess(order[i], t)}
            IN  Len(index_file) + Len(FlattenSeq(SubSeq(lists, 1, Cardinality(before))))
    IN  /\ pc = "postings" /\ hash_val < HASH_TABLE_SIZE
        /\ index_file' = index_file \o FlattenSeq(lists)
        /\ in_disk' = [t \in DOMAIN in_disk \cup bucket |->
                          IF t \in bucket THEN InDisk(index[t], Special(t), position(t))
                          ELSE in_disk[t]]
        /\ unique_terms' = unique_terms + Len(order)
        /\ hash_val' = hash_val + 1
        /\ UNCHANGED <<pc, index, mode, term_list, here, header, read>>

\* generate_term_list()
TermsOf(hash_table) == {t \in DOMAIN hash_table : ~ShouldPrune(t)}

\* Mutant: the second pass lists the terms that the first one pruned.
GenerateTermList_Unpruned ==
    /\ pc = "postings" /\ hash_val = HASH_TABLE_SIZE
    /\ term_list' = InOrder(DOMAIN index, StrLess)
    /\ pc' = "nodes"
    /\ UNCHANGED <<index_file, index, mode, hash_val, unique_terms, in_disk, here, header, read>>

\* The second pass over the hash table, into an array of unique_terms terms, and the sort.
GenerateTermList ==
    /\ pc = "postings" /\ hash_val = HASH_TABLE_SIZE
    /\ term_list' = InOrder(TermsOf(index), StrLess)
    /\ pc' = "nodes"
    /\ UNCHANGED <<index_file, index, mode, hash_val, unique_terms, in_disk, here, header, read>>

-----------------------------------------------------------------------------
Next ==
    \/ StartSerialise \/ SerialiseBucket \/ GenerateTermList
    \/ DictionaryNext /\ UNCHANGED <<mode, hash_val>>

Spec == Init /\ [][Next]_vars

-----------------------------------------------------------------------------
\* The types.  The array of the second pass over the hash table is as long as the first pass
\* found terms, and exactly full.
TypeOK ==
    /\ pc \in {"indexed", "postings", "nodes", "written", "searching"}
    /\ mode \in Modes
    /\ hash_val \in 0 .. HASH_TABLE_SIZE
    /\ unique_terms \in Nat
    /\ term_list # <<>> => Len(term_list) = unique_terms
    /\ DictionaryTypes

\* open() gets the document lengths that the indexer stored.
LengthsRead ==
    pc = "searching" => document_lengths = [d \in 1 .. largest_docno |-> index[Length].docid[d] - 1]

\* The postings of a term, the largest impact first and the documents in order.
Ordered(node) ==
    LET docs == Sums(node.docid)
        before(a, b) == a.impact > b.impact \/ (a.impact = b.impact /\ a.document < b.document)
    IN  InOrder({[document |-> docs[i] - 1, impact |-> node.tf[i]] : i \in DOMAIN docs}, before)

Abstract == INSTANCE SortedIndex WITH
    entries <- [t \in TermsOf(index)
                       \cup (IF static_prune_point < largest_docno THEN {TrimPoint} ELSE {}) |->
                    IF Special(t) THEN <<>> ELSE Ordered(index[t])],
    used <- static_prune_point,
    cursor <- keyword

\* What is in the file is the index: every term that was not pruned is found with its
\* postings in the order of their impacts, no other term is, and an iterator goes through
\* all of them in order, from wherever it starts.
ImplementsIndex == Abstract!Spec

\* A question for a term is answered with its postings, the best first and as many as were
\* asked for: none that was collected is lost on the way through the file.
PostingsReadBack ==
    reply.found =>
        LET all == Ordered(index[reply.question[2]])
            wanted == Lesser(Lesser(reply.question[3], static_prune_point), Len(all))
        IN  /\ Len(reply.postings) \in wanted .. Len(all)
            /\ reply.postings = SubSeq(all, 1, Len(reply.postings))
=============================================================================
