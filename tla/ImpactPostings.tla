--------------------------- MODULE ImpactPostings ---------------------------
(***************************************************************************)
(* The postings of a term between the indexer and the search engine: put   *)
(* in the order of their impacts (here the term frequencies), compressed,  *)
(* written with a header, read and decompressed again.  One or two         *)
(* postings are not written at all but packed into the fields of the       *)
(* dictionary that otherwise say where they are (SPECIAL_COMPRESSION).     *)
(*                                                                         *)
(* A file is a sequence of cells and a position is a number of cells: a    *)
(* compressed list is one cell whatever its size, the fixed part of an     *)
(* impact header is another.  The codecs are taken to decompress what they *)
(* compressed; which of them is used depends on their sizes.               *)
(*                                                                         *)
(* A node is what a hash node of the indexer serialises: docid, the        *)
(* differences of the document numbers (which count from 1), tf, and the   *)
(* frequencies of the term in the collection and in its documents.         *)
(***************************************************************************)
EXTENDS Strings, SequencesExt, FiniteSetsExt

CONSTANTS
    Word,               \* one more than the largest 32-bit number
    static_prune_point, \* no more postings than this of a term are used
    schemes_to_use      \* the identifiers of the codecs to choose from

ASSUME PostingsAssumption ==
    /\ Word \in Nat \ {0, 1}
    /\ static_prune_point \in Nat \ {0}
    /\ schemes_to_use \subseteq {2^i : i \in 0 .. 2}

Sums(list) == [i \in DOMAIN list |-> FoldLeft(+, 0, SubSeq(list, 1, i))]
Differences(list) == [i \in DOMAIN list |-> IF i = 1 THEN list[1] ELSE list[i] - list[i - 1]]
Lesser(a, b) == IF a < b THEN a ELSE b

Cell(kind, value) == [kind |-> kind, value |-> value]

-----------------------------------------------------------------------------
\* compression_factory.c

\* The bytes each codec needs for numbers below 2^7, in the order of the table
\* scheme[]: no compression, variable byte, Simple-9.
Sizes(list) == <<4 * Len(list), Len(list), 4 * ((Len(list) + 3) \div 4)>>
SchemeId(which) == 2^which

\* compress(): nothing is written when the identifier of the best codec, the first of the
\* smallest, is the place in the table of the last that was tried.
Compress(list) ==
    LET tried == {which \in 0 .. 2 : SchemeId(which) \in schemes_to_use}
        size(which) == Sizes(list)[which + 1]
        smallest == {which \in tried : \A other \in tried : size(which) <= size(other)}
        preferred == IF tried = {} THEN SchemeId(0) ELSE SchemeId(Min(smallest))
        last_successful == IF tried = {} THEN -1 ELSE Max(tried)
    IN  IF preferred = last_successful THEN <<>> ELSE <<Cell("list", list)>>

\* Variable byte and Simple-9 are not both among the codecs to choose from (the indexer has
\* one codec unless it is told otherwise), so that every list is written.
ListsAreWritten == ~({SchemeId(1), SchemeId(2)} \subseteq schemes_to_use)

\* decompress(), of the list at an offset in a buffer.  Bytes that are no list are fresh
\* memory: zeroes, which are numbers that were not compressed.
Decompress(buffer, offset, integers) ==
    IF /\ offset + 1 \in DOMAIN buffer
       /\ buffer[offset + 1].kind = "list"
       /\ integers <= Len(buffer[offset + 1].value)
    THEN SubSeq(buffer[offset + 1].value, 1, integers)
    ELSE [i \in 1 .. integers |-> 0]

-----------------------------------------------------------------------------
\* The indexer.

\* The documents in which a term has one impact, difference encoded anew.
Bucket(node, impact) ==
    LET places == InOrder({i \in DOMAIN node.tf : node.tf[i] = impact}, <)
        docs == Sums(node.docid)
    IN  Differences([i \in DOMAIN places |-> docs[places[i]]])

\* impact_order_with_header(): the buckets that are used, the largest impact first; the
\* length is that of the postings that are not pruned.
ImpactOrder(node) ==
    LET impacts == InOrder(ToSet(node.tf), >)
        lists == [q \in DOMAIN impacts |-> Bucket(node, impacts[q])]
    IN  [impact_value |-> impacts,
         postings |-> lists,
         length |-> Lesser(static_prune_point, Len(node.tf))]

\* Mutant: the second document number stays a difference.
Packed_NotSummed(node) ==
    LET df == node.document_frequency
        order == IF df = 2 /\ node.tf[2] > node.tf[1] THEN <<2, 1>> ELSE <<1, 2>>
        position == node.docid[order[1]] * Word + node.tf[order[1]]
    IN  IF df = 1
        THEN [position |-> node.docid[1] * Word + node.tf[1], impacted_length |-> 0, end |-> 0]
        ELSE [position |-> position, impacted_length |-> node.docid[order[2]],
              end |-> node.tf[order[2]] + position]

\* One or two postings, packed into the fields that go into the dictionary.
Packed(node) ==
    LET df == node.document_frequency
        second == IF node.tf[1] = node.tf[2] THEN node.docid[2] ELSE node.docid[1] + node.docid[2]
        docids == <<node.docid[1], second>>
        order == IF node.tf[2] > node.tf[1] THEN <<2, 1>> ELSE <<1, 2>>
        position == docids[order[1]] * Word + node.tf[order[1]]
    IN  IF df = 1
        THEN [position |-> node.docid[1] * Word + node.tf[1], impacted_length |-> 0, end |-> 0]
        ELSE [position |-> position, impacted_length |-> docids[order[2]],
              end |-> node.tf[order[2]] + position]

\* The impact header and the postings after it: every quantum is compressed by itself.
HeaderAndPostings(impact_value, postings) ==
    LET doc_count == [q \in DOMAIN postings |-> Len(postings[q])]
        quanta == [q \in DOMAIN postings |-> Compress(postings[q])]
        offsets == [q \in DOMAIN quanta |-> Len(FlattenSeq(SubSeq(quanta, 1, q - 1)))]
        header == Compress(impact_value \o doc_count \o offsets)
        info == [the_quantum_count |-> Len(quanta), beginning_of_the_postings |-> 1 + Len(header)]
    IN  <<Cell("info", info)>> \o header \o FlattenSeq(quanta)

WithHeader(node) == HeaderAndPostings(ImpactOrder(node).impact_value, ImpactOrder(node).postings)

\* set_variable(): a number in two halves, as if they were documents.
Variable(number) ==
    [docid |-> <<number \div Word, number % Word>>, tf |-> <<1, 1>>,
     collection_frequency |-> 2, document_frequency |-> 2]

\* serialise_one_node(): what it writes at a position of the file, and what it keeps in
\* in_disk for the dictionary.  The lists of special terms have no impacts.
Written(node, special) ==
    IF node.document_frequency <= 2 THEN <<>> ELSE IF special THEN Compress(node.docid) ELSE WithHeader(node)

InDisk(node, special, position) ==
    IF node.document_frequency <= 2 THEN Packed(node)
    ELSE [position |-> position,
          impacted_length |-> IF special THEN Len(node.docid) ELSE ImpactOrder(node).length,
          end |-> position + Len(Written(node, special))]

\* Mutant: the length is that of all but the last cell.
Leaf_Short(node, in_disk) ==
    [collection_frequency |-> node.collection_frequency,
     document_frequency |-> node.document_frequency,
     postings_position_on_disk |-> in_disk.position,
     impacted_length |-> in_disk.impacted_length,
     postings_length |-> (in_disk.end - in_disk.position - 1) % Word]

\* write_node(): the entry of a term.
Leaf(node, in_disk) ==
    [collection_frequency |-> node.collection_frequency,
     document_frequency |-> node.document_frequency,
     postings_position_on_disk |-> in_disk.position,
     impacted_length |-> in_disk.impacted_length,
     postings_length |-> (in_disk.end - in_disk.position) % Word]

-----------------------------------------------------------------------------
\* The search engine.

\* The impact header and the postings that get_postings() builds from the fields of a term
\* with one or two postings.
Unpacked(leaf) ==
    LET doc_one == leaf.postings_position_on_disk \div Word
        impact_one == leaf.postings_position_on_disk % Word
        impact_two == leaf.postings_length
        df == leaf.document_frequency
        info(quanta) == Cell("info", [the_quantum_count |-> quanta, beginning_of_the_postings |-> 2])
    IN  IF impact_one # impact_two /\ df = 2
        THEN <<info(2), Cell("list", <<impact_one, impact_two, 1, 1, 0, 1>>),
               Cell("list", <<doc_one>>), Cell("list", <<leaf.impacted_length>>)>>
        ELSE <<info(1), Cell("list", <<impact_one, df, 0>>),
               Cell("list", IF df = 2 THEN <<doc_one, leaf.impacted_length>> ELSE <<doc_one>>)>>

GetPostings(leaf, file) ==
    IF leaf.document_frequency <= 2 THEN Unpacked(leaf)
    ELSE SubSeq(file, leaf.postings_position_on_disk + 1,
                leaf.postings_position_on_disk + leaf.postings_length)

\* What impacted_length is after get_postings().
ImpactedLength(leaf) ==
    IF leaf.document_frequency <= 2 THEN leaf.document_frequency ELSE leaf.impacted_length

\* TOP_K_READ_AND_DECOMPRESSOR: the postings to decompress so that trim of them are found.
AtMost(leaf, trim) ==
    LET enough == IF trim < 255 THEN 3 * trim ELSE trim + 510
    IN  IF leaf.document_frequency <= trim THEN ImpactedLength(leaf)
        ELSE Lesser(enough, ImpactedLength(leaf))

\* read_and_decompress_for_one_term(): quantum after quantum until there are trim postings.
\* Each is a document, counted from 0, and its impact.
ReadAndDecompress(leaf, file, trim) ==
    LET buffer == GetPostings(leaf, file)
        info == buffer[1].value
        count == info.the_quantum_count
        header == Decompress(buffer, 1, 3 * count)
        decompress(done, q) ==
            LET integers == Lesser(header[count + q], done.end)
                docs == Sums(Decompress(buffer,
                            info.beginning_of_the_postings + header[2 * count + q], integers))
            IN  IF Len(done.postings) >= trim THEN done
                ELSE [end |-> done.end - integers,
                      postings |-> done.postings \o
                            [i \in DOMAIN docs |-> [document |-> docs[i] - 1, impact |-> header[q]]]]
        quanta[q \in 0 .. count] ==
            IF q = 0 THEN [end |-> AtMost(leaf, trim), postings |-> <<>>]
            ELSE decompress(quanta[q - 1], q)
    IN  quanta[count].postings

\* get_variable(): the two halves of a number that was stored as two postings.
GetVariable(leaf, file) ==
    LET buffer == GetPostings(leaf, file)
        bits == Decompress(buffer, buffer[1].value.beginning_of_the_postings, ImpactedLength(leaf))
    IN  bits[1] * Word + bits[2]

\* A list without impacts, as open() decompresses it.
GetList(leaf, file) == Decompress(GetPostings(leaf, file), 0, leaf.document_frequency)
=============================================================================
