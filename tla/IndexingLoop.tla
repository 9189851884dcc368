---------------------------- MODULE IndexingLoop ----------------------------
(***************************************************************************)
(* The main loop of atire/index.c: it gives each document that the chain   *)
(* of iterators delivers a number, adds what a preindexing thread found in *)
(* it (an ANT_memory_index_one) to the collection's ANT_memory_index, and  *)
(* puts the document in the repository.  A document is then known by its   *)
(* number in five places that are written separately: the postings of its  *)
(* terms, the list of lengths, the list of names, the list of offsets and  *)
(* the text in the index file.  Documents without a word get no number.    *)
(*                                                                         *)
(* A list of postings is what PostingsList says (HashNode implements it):  *)
(* gaps, which serialise() adds up again to put the postings of a term in  *)
(* order of impact, and frequencies.  What the file makes of the lists,    *)
(* the short ones that are packed included, is IndexFile's subject.        *)
(***************************************************************************)
EXTENDS Integers, Sequences, FiniteSets, Functions, SequencesExt

CONSTANTS
    Words,          \* the terms that count: TT_WORD and TT_NUMBER
    Tags,           \* TT_TAG_OPEN: indexed as terms too, but not counted
    Input,          \* the documents that may be delivered, and ...
    MaxInput,       \* ... the bound on their number
    Compressing,    \* document_compression_scheme != NONE: texts are kept as well
    HeaderLength    \* the bytes that open_index_file() writes first

Terms == Words \cup Tags
TfCap == 255

ASSUME IndexingAssumption ==
    /\ Words \cap Tags = {}
    /\ IsFiniteSet(Words)               \* strings of a bounded length
    /\ \A document \in Input :
        /\ document.tf \in [Terms -> Nat]
        /\ document.file \in BOOLEAN        \* FALSE: empty or unreadable, file is NULL
        /\ document.size \in Nat \ {0}      \* compressed_length
    /\ MaxInput \in Nat
    /\ Compressing \in BOOLEAN
    /\ HeaderLength \in Nat \ {0}

VARIABLES
    doc,                    \* the number of the latest document
    postings,               \* of every term
    length, offsets,        \* the postings of ~length and of ~documentoffsets
    filenames,
    largest_docno,
    file,                   \* the texts in the index file
    arrived,                \* history: what has been delivered
    progress

index == <<postings, length, offsets, filenames, largest_docno, file>>
loop_vars == <<doc, index, arrived, progress>>

NewNode == [gaps |-> <<>>, tfs |-> <<>>, current_docno |-> 0]

LoopInit ==
    /\ doc = 0
    /\ postings = [term \in Terms |-> NewNode]
    /\ length = NewNode /\ offsets = NewNode
    /\ filenames = <<>>
    /\ largest_docno = 0
    /\ file = <<>>
    /\ arrived = <<>>
    /\ progress = "loop"

-----------------------------------------------------------------------------
\* ANT_memory_index

Capped(tf) == IF tf <= TfCap THEN tf ELSE TfCap

AddPosting(node, docno, tf) ==
    IF docno = node.current_docno
    THEN [node EXCEPT !.tfs[Len(node.tfs)] = Capped(@ + tf)]
    ELSE [gaps |-> Append(node.gaps, docno - node.current_docno),
          tfs |-> Append(node.tfs, Capped(tf)),
          current_docno |-> docno]

\* Mutant: an absolute value is stored as the difference from the one before.
SetDetail_Monotonic(node, score, mode) == AddPosting(node, score, 1)

SetDetail(node, score, mode) ==
    AddPosting(IF mode = "monotonic" THEN node ELSE [node EXCEPT !.current_docno = -1], score, 1)

\* index_document() counts the words, not the tags.
TermsInDocument(document) == FoldFunctionOnSet(+, 0, document.tf, Words)

AddIndexedDocument(document, docno) ==
    /\ postings' = [term \in Terms |->
                        IF document.tf[term] = 0 THEN postings[term]
                        ELSE AddPosting(postings[term], docno, document.tf[term])]
    /\ length' = IF TermsInDocument(document) = 0 THEN length
                 ELSE SetDetail(length, TermsInDocument(document), "absolute")
    /\ largest_docno' = docno

\* index_file->tell(), before anything but texts is written.
Tell == IF file = <<>> THEN HeaderLength ELSE Last(file).to

\* Mutant: the offset is taken after the text is written.
AddToDocumentRepository_After(document) ==
    /\ filenames' = Append(filenames, document.name)
    /\ IF Compressing
         THEN /\ file' = Append(file, [from |-> Tell, to |-> Tell + document.size,
                                        name |-> document.name])
              /\ offsets' = SetDetail(offsets, Tell + document.size, "monotonic")
         ELSE UNCHANGED <<file, offsets>>

AddToDocumentRepository(document) ==
    /\ filenames' = Append(filenames, document.name)
    /\ IF Compressing
         THEN /\ file' = Append(file, [from |-> Tell, to |-> Tell + document.size,
                                        name |-> document.name])
              /\ offsets' = SetDetail(offsets, Tell, "monotonic")
         ELSE UNCHANGED <<file, offsets>>

-----------------------------------------------------------------------------
\* The loop

Deliver(document) ==
    /\ progress = "loop" /\ Len(arrived) < MaxInput
    /\ arrived' = Append(arrived, document)

\* The preindexing thread hands the text to the parser without a look at it.
Crash(document) ==
    /\ ~document.file
    /\ Deliver(document)
    /\ progress' = "crash"
    /\ UNCHANGED <<doc, index>>

Keep(document) ==
    /\ document.file
    /\ TermsInDocument(document) # 0
    /\ Deliver(document)
    /\ doc' = doc + 1
    /\ AddIndexedDocument(document, doc + 1)
    /\ AddToDocumentRepository(document)
    /\ UNCHANGED progress

\* Mutant: the number of a document without terms is used up.
Discard_KeepsNumber(document) ==
    /\ document.file
    /\ TermsInDocument(document) = 0
    /\ Deliver(document)
    /\ AddIndexedDocument(document, doc + 1)
    /\ doc' = doc + 1
    /\ UNCHANGED <<offsets, filenames, file, progress>>

\* doc++, and then doc-- again; what has been indexed under the number stays.
Discard(document) ==
    /\ document.file
    /\ TermsInDocument(document) = 0
    /\ Deliver(document)
    /\ AddIndexedDocument(document, doc + 1)
    /\ UNCHANGED <<doc, offsets, filenames, file, progress>>

\* When nothing is delivered any more, serialise() stores where the last text ends.
Serialise ==
    /\ progress = "loop"
    /\ progress' = "done"
    /\ offsets' = IF doc = 0 \/ offsets = NewNode THEN offsets
                  ELSE SetDetail(offsets, Tell, "monotonic")
    /\ UNCHANGED <<doc, postings, length, filenames, largest_docno, file, arrived>>

LoopNext == Serialise \/ \E document \in Input : Crash(document) \/ Keep(document) \/ Discard(document)

LoopSpec == LoopInit /\ [][LoopNext]_loop_vars

-----------------------------------------------------------------------------
\* What the lists say

\* The numbers in a list are the sums of its gaps, as impact_order_with_header() adds
\* them up, and open() the offsets of the texts.
Sum(numbers, n) == FoldLeft(+, 0, SubSeq(numbers, 1, n))
Docids(node) == [i \in DOMAIN node.gaps |-> Sum(node.gaps, i)]

TermFrequency(node, k) ==
    LET i == SelectInSeq(Docids(node), LAMBDA docid : docid = k)
    IN  IF i = 0 THEN 0 ELSE node.tfs[i]

\* Every length is stored as its own difference from -1.
DocumentCount == Len(length.gaps)
DocumentLength(k) == length.gaps[k] - 1

\* Two postings or fewer are packed into the dictionary.  get_postings() puts an impact
\* header in front of them again, which open() would decompress as if it were the list.
Listed(node) == Len(node.gaps) > 2

-----------------------------------------------------------------------------
\* The types of the counters and lists; a list has as many frequencies as gaps, and
\* every gap is positive, or the compressors could not hold it.
LoopTypes ==
    /\ doc \in Nat /\ largest_docno \in Nat
    /\ progress \in {"loop", "done", "crash"}
    /\ \A node \in Range(postings) \cup {length, offsets} :
        /\ node.gaps \in Seq(Nat \ {0}) /\ node.tfs \in Seq(1 .. TfCap)
        /\ Len(node.gaps) = Len(node.tfs)

\* What the program knows of a document, and what its index holds of document k.
Parsed(document) ==
    [name |-> document.name, length |-> TermsInDocument(document), tf |-> document.tf]
Indexed(k) ==
    [name |-> filenames[k], length |-> DocumentLength(k),
     tf |-> [term \in Terms |-> TermFrequency(postings[term], k)]]

Held == INSTANCE Collection WITH
    Limit <- TfCap,
    Documents <- {Parsed(document) : document \in Input},
    documents <- [k \in 1 .. DocumentCount |-> Indexed(k)],
    left <- [term \in Terms |-> TermFrequency(postings[term], DocumentCount + 1)]

\* The lists in memory, added up, are the sequence of the documents with words: the
\* names, lengths and terms that are written separately stay in step, no later document
\* changes an earlier one, and a document that is discarded leaves its tags, and nothing
\* else, to the next that is kept.
ImplementsCollection == Held!Spec

\* The text of document k is between offsets k and k + 1, and is that of the document
\* with its name.  open() reads the offsets so when they are a list: of one document,
\* with two offsets, they are packed and this says nothing.
TextsInStep ==
    Compressing /\ progress = "done" /\ doc # 0 =>
        /\ Len(offsets.gaps) = DocumentCount + 1
        /\ Listed(offsets) =>
            \A k \in 1 .. DocumentCount :
                file[k] = [from |-> Docids(offsets)[k], to |-> Docids(offsets)[k + 1],
                           name |-> filenames[k]]
=============================================================================
