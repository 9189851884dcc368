-------------------------------- MODULE Merge --------------------------------
(***************************************************************************)
(* atire_merge makes one index of several.  It copies the documents and    *)
(* their names, works out anew the special terms that depend on them, and  *)
(* then walks through the dictionaries of all the indexes at once: for     *)
(* each term the postings of the same impact are put one behind the other, *)
(* the documents of an index numbered after those of the indexes before.   *)
(* The dictionary is written like that of the indexer.                     *)
(*                                                                         *)
(* An index that is merged is taken to be what IndexFile and Repository    *)
(* make of it: its terms in order, the leaf and the postings of each, and  *)
(* the names and compressed texts of its documents.                        *)
(***************************************************************************)
EXTENDS Dictionary

CONSTANTS
    Merges,             \* sequences of indexes: terms (hash nodes), documents, storing, stemmer
    Options,            \* of the program: mode, intersection, documents, static_prune_point
    StopList,
    MaxDf, MaxProportion,                       \* as in IndexFile
    Digits, Uppercase,                          \* letters
    FilenamesStart, FilenamesFinish,            \* the other special terms
    FilenamesIndexStart, FilenamesIndexFinish,
    DocumentOffsets, DocumentLongest, Stemmer

DocumentCount(one) == one.terms[Length].document_frequency

\* An index of two documents or fewer has its lengths packed, and is not read as it was packed.
ASSUME MergeAssumption ==
    \A indexes \in Merges : \A i \in DOMAIN indexes :
        LET one == indexes[i]
        IN  /\ DocumentCount(one) = Len(one.documents) /\ DocumentCount(one) > 2
            /\ TrimPoint \in DOMAIN one.terms <=> static_prune_point < DocumentCount(one)

VARIABLES
    search_engines, options,    \* the indexes to merge, and how
    engine,                     \* the next of them to copy from
    raw,                        \* the differences of the document offsets
    document_filenames_start,
    filename_index_offsets, filename_offset_sum,
    terms,                      \* of each iterator, <<>> for NULL
    next_term_to_process,
    impact_headers,             \* of that term in the engines that have it
    quanta                      \* the merged postings, by impact

inputs == <<search_engines, options>>
copied == <<engine, raw, document_filenames_start, filename_index_offsets, filename_offset_sum>>
walk == <<terms, next_term_to_process, impact_headers, quanta>>
vars == <<dictionary, inputs, copied, walk>>

Init ==
    /\ pc = "start" /\ index = <<>>
    /\ DictionaryInit
    /\ search_engines \in Merges /\ options \in Options
    /\ engine = 1 /\ raw = <<>>
    /\ document_filenames_start = 0 /\ filename_index_offsets = <<>> /\ filename_offset_sum = 0
    /\ terms = <<>> /\ next_term_to_process = <<>> /\ impact_headers = <<>> /\ quanta = <<>>

number_engines == Len(search_engines)
Total(numbers) == FoldLeft(+, 0, numbers)

\* combined_docs
Documents(engines) == Total([e \in DOMAIN engines |-> DocumentCount(engines[e])])
combined_docs == Documents(search_engines)

\* The leaf and the postings of a term of an index.
LeafOf(one, term) == Leaf(one.terms[term], InDisk(one.terms[term], Special(term), 0))
PostingsOf(one, term) == Written(one.terms[term], Special(term))

\* The prune points of the indexes together, or that of the program if it is smaller.
StaticPrunePoint ==
    LET this_trimpoint(one) ==
            IF TrimPoint \in DOMAIN one.terms THEN GetVariable(LeafOf(one, TrimPoint), <<>>) ELSE 0
        global_trimpoint == Total([e \in 1 .. number_engines |-> this_trimpoint(search_engines[e])])
    IN  Lesser(options.static_prune_point,
               IF global_trimpoint = 0 THEN LONG_MAX ELSE global_trimpoint)

\* do_documents
Storing(engines, wanted) == wanted /\ \A e \in DOMAIN engines : engines[e].storing
do_documents == Storing(search_engines, options.documents)

-----------------------------------------------------------------------------
\* should_prune(), which has more to look for than that of the indexer.
ShouldPrune(term, cf, df, mode, largest_docno) ==
    /\ ~Special(term)
    /\ \/ "numbers" \in mode /\ term[1] \in Digits
       \/ "cf singletons" \in mode /\ cf = 1
       \/ "df singletons" \in mode /\ df <= MaxDf
       \/ "tags" \in mode /\ term[1] \in Uppercase
       \/ "df frequents" \in mode /\ 100 * df >= MaxProportion * largest_docno
       \/ "stop list" \in mode /\ term \in StopList

\* One or two postings as write_postings() finds them in raw: the impact, a document, then
\* the other document, or 0, the other impact and its document.
PackedRaw(list, df) ==
    LET position == list[2] * Word + list[1]
    IN  IF df = 2
        THEN [position |-> position,
              impacted_length |-> IF list[3] = 0 THEN list[5] ELSE list[3],
              end |-> (IF list[3] = 0 THEN list[4] ELSE list[1]) + position]
        ELSE [position |-> position, impacted_length |-> 0, end |-> 0]

\* The hash node of a term: nothing but its frequencies, and where its postings are.
Add(term, cf, df, disk) ==
    /\ index' = term :> [collection_frequency |-> cf, document_frequency |-> df] @@ index
    /\ in_disk' = term :> disk @@ in_disk
    /\ unique_terms' = unique_terms + 1

\* Postings that are not packed go to the end of the file.
AddWritten(term, cf, df, length, cells) ==
    /\ Add(term, cf, df, [position |-> Len(index_file), impacted_length |-> length,
                          end |-> Len(index_file) + Len(cells)])
    /\ index_file' = index_file \o cells

\* write_postings() of a special term: one or two numbers are given an impact of 1.
WritePostings(term, list) ==
    LET df == Len(list)
    IN  IF df <= 2
        THEN Add(term, df, df, PackedRaw(<<1>> \o list \o <<0, 0, 0>>, df)) /\ UNCHANGED index_file
        ELSE AddWritten(term, df, df, df, Compress(list))

\* write_variable() of several special terms.
WriteVariables(values) ==
    LET list(value) == <<1, value \div Word, value % Word, 0, 0>>
        two == [collection_frequency |-> 2, document_frequency |-> 2]
    IN  /\ index' = [t \in DOMAIN values |-> two] @@ index
        /\ in_disk' = [t \in DOMAIN values |-> PackedRaw(list(values[t]), 2)] @@ in_disk
        /\ unique_terms' = unique_terms + Cardinality(DOMAIN values)

\* write_impact_header_postings()
WriteImpactHeaderPostings(term, cf, df) ==
    LET one == quanta[1]
        list == IF Len(quanta) = 2
                THEN <<one.impact, one.docs[1], 0, quanta[2].impact, quanta[2].docs[1], 0>>
                ELSE <<one.impact>> \o one.docs \o <<0>>
        docs == [q \in DOMAIN quanta |-> quanta[q].docs]
        impact_value == [q \in DOMAIN quanta |-> quanta[q].impact]
    IN  IF df <= 2 THEN Add(term, cf, df, PackedRaw(list, df)) /\ UNCHANGED index_file
        ELSE AddWritten(term, cf, df, Len(FlattenSeq(docs)), HeaderAndPostings(impact_value, docs))

-----------------------------------------------------------------------------
\* The documents.

\* Indexes that were stemmed differently are not merged.
Start ==
    /\ pc = "start"
    /\ pc' = IF \A e \in 1 .. number_engines : search_engines[e].stemmer = search_engines[1].stemmer
             THEN "documents" ELSE "refused"
    /\ UNCHANGED <<index_file, written, read, inputs, copied, walk>>

Refused == pc = "refused" /\ UNCHANGED vars

\* The compressed texts of one index, and where each starts.
CopyDocuments ==
    LET texts == [d \in DOMAIN search_engines[engine].documents |->
                      search_engines[engine].documents[d].text]
        start(d) == Len(index_file) + Len(FlattenSeq(SubSeq(texts, 1, d - 1)))
        sum(d) == IF d = 1 THEN Total(raw) ELSE start(d - 1)
        cells == FlattenSeq(texts)
    IN  /\ pc = "documents" /\ do_documents /\ engine <= number_engines
        /\ raw' = raw \o [d \in DOMAIN texts |-> start(d) - sum(d)]
        /\ index_file' = index_file \o [i \in DOMAIN cells |-> Cell("char", cells[i])]
        /\ engine' = engine + 1
        /\ UNCHANGED <<pc, written, read, inputs, document_filenames_start,
                       filename_index_offsets, filename_offset_sum, walk>>

\* The end of the last text.
DocumentsCopied ==
    /\ pc = "documents" /\ (do_documents => engine > number_engines)
    /\ raw' = IF do_documents THEN Append(raw, Len(index_file) - Total(raw)) ELSE raw
    /\ document_filenames_start' = Len(index_file)
    /\ engine' = 1
    /\ pc' = "filenames"
    /\ UNCHANGED <<index_file, written, read, inputs, filename_index_offsets,
                   filename_offset_sum, walk>>

\* Mutant: the names of every index are counted from the start of its own.
CopyFilenames_Restart ==
    LET names == [d \in DOMAIN search_engines[engine].documents |->
                      Append(search_engines[engine].documents[d].name, 0)]
        cells == FlattenSeq(names)
    IN  /\ pc = "filenames" /\ engine <= number_engines
        /\ filename_index_offsets' = filename_index_offsets \o
              [d \in DOMAIN names |-> Len(FlattenSeq(SubSeq(names, 1, d - 1)))]
        /\ filename_offset_sum' = filename_offset_sum + Len(cells)
        /\ index_file' = index_file \o [i \in DOMAIN cells |-> Cell("char", cells[i])]
        /\ engine' = engine + 1
        /\ UNCHANGED <<pc, written, read, inputs, raw, document_filenames_start, walk>>

\* The names of one index.
CopyFilenames ==
    LET names == [d \in DOMAIN search_engines[engine].documents |->
                      Append(search_engines[engine].documents[d].name, 0)]
        cells == FlattenSeq(names)
    IN  /\ pc = "filenames" /\ engine <= number_engines
        /\ filename_index_offsets' = filename_index_offsets \o
              [d \in DOMAIN names |->
                  filename_offset_sum + Len(FlattenSeq(SubSeq(names, 1, d - 1)))]
        /\ filename_offset_sum' = filename_offset_sum + Len(cells)
        /\ index_file' = index_file \o [i \in DOMAIN cells |-> Cell("char", cells[i])]
        /\ engine' = engine + 1
        /\ UNCHANGED <<pc, written, read, inputs, raw, document_filenames_start, walk>>

\* Where the names are, and the index of the names.
FilenamesCopied ==
    LET offsets == Append(filename_index_offsets, filename_offset_sum)
    IN  /\ pc = "filenames" /\ engine > number_engines
        /\ WriteVariables(FilenamesStart :> document_filenames_start
                          @@ FilenamesFinish :> Len(index_file))
        /\ document_filenames_start' = Len(index_file)
        /\ index_file' = index_file \o [i \in DOMAIN offsets |-> Cell("number", offsets[i])]
        /\ pc' = "filename index"
        /\ UNCHANGED <<term_list, here, header, read, inputs, engine, raw,
                       filename_index_offsets, filename_offset_sum, walk>>

\* Where the index of the names is.
FilenamesIndexed ==
    /\ pc = "filename index"
    /\ WriteVariables(FilenamesIndexStart :> document_filenames_start
                      @@ FilenamesIndexFinish :> Len(index_file))
    /\ pc' = IF do_documents THEN "offsets" ELSE "lengths"
    /\ UNCHANGED <<index_file, term_list, here, header, read, inputs, copied, walk>>

WriteOffsets ==
    /\ pc = "offsets"
    /\ WritePostings(DocumentOffsets, raw)
    /\ pc' = "longest"
    /\ UNCHANGED <<term_list, here, header, read, inputs, copied, walk>>

WriteLongest ==
    /\ pc = "longest"
    /\ WriteVariables(DocumentLongest :>
                        Max({search_engines[e].longest : e \in 1 .. number_engines}))
    /\ pc' = "lengths"
    /\ UNCHANGED <<index_file, term_list, here, header, read, inputs, copied, walk>>

\* ~length, from what the search engines read.
MergeLengths ==
    LET document_lengths_of(e) ==
            LET list == GetList(LeafOf(search_engines[e], Length),
                                PostingsOf(search_engines[e], Length))
            IN  [d \in DOMAIN list |-> list[d] - 1]
        all == FlattenSeq([e \in 1 .. number_engines |-> document_lengths_of(e)])
    IN  /\ pc = "lengths"
        /\ WritePostings(Length, [d \in DOMAIN all |-> all[d] + 1])
        /\ pc' = "variables"
        /\ UNCHANGED <<term_list, here, header, read, inputs, copied, walk>>

-----------------------------------------------------------------------------
\* The terms.

\* The first term of an engine that is not before, or after, a string: its iterator walks
\* through the terms in order.
Least(S) == IF S = {} THEN <<>> ELSE <<CHOOSE t \in S : \A other \in S \ {t} : StrLess(t, other)>>
FirstTerm(e) == Least(DOMAIN search_engines[e].terms)
TermAfter(e, term) == Least({t \in DOMAIN search_engines[e].terms : StrLess(term, t)})

\* The prune point and the stemmer, if there are any, and the iterators start.
StartTerms ==
    LET prune_point == StaticPrunePoint
        stemmer == search_engines[1].stemmer
    IN  /\ pc = "variables"
        /\ WriteVariables((IF prune_point = LONG_MAX THEN <<>> ELSE TrimPoint :> prune_point)
                          @@ (IF stemmer = 0 THEN <<>> ELSE Stemmer :> stemmer))
        /\ terms' = [e \in 1 .. number_engines |-> Least(DOMAIN search_engines[e].terms)]
        /\ pc' = "terms"
        /\ UNCHANGED <<index_file, term_list, here, header, read, inputs, copied,
                       next_term_to_process, impact_headers, quanta>>

\* The impact header of a term of an index, and the postings of one quantum.
ImpactHeader(one, term) ==
    LET buffer == GetPostings(LeafOf(one, term), PostingsOf(one, term))
        count == buffer[1].value.the_quantum_count
    IN  [buffer |-> buffer, count |-> count, values |-> Decompress(buffer, 1, 3 * count)]

Impacts(e) == {impact_headers[e].values[q] : q \in 1 .. impact_headers[e].count}

Quantum(e, tf) ==
    LET at == impact_headers[e]
        q == CHOOSE i \in 1 .. at.count : at.values[i] = tf
        postings_begin == at.buffer[1].value.beginning_of_the_postings
    IN  Decompress(at.buffer, postings_begin + at.values[2 * at.count + q], at.values[at.count + q])

\* Mutant: only the documents of the indexes that have the impact are counted.
MergedQuantum_Counted(tf) ==
    LET process(done, e) ==
            LET has == e \in DOMAIN impact_headers /\ tf \in Impacts(e)
                docs == IF has THEN Quantum(e, tf) ELSE <<>>
                first == docs[1] + done.offset - done.previous_docid
                current == IF has THEN <<first>> \o Tail(docs) ELSE <<>>
            IN  [current |-> done.current \o current,
                 previous_docid |-> done.previous_docid + Total(current),
                 offset |-> IF has THEN done.offset + DocumentCount(search_engines[e]) ELSE done.offset]
    IN  FoldLeft(process, [current |-> <<>>, previous_docid |-> 0, offset |-> 0],
                 [e \in 1 .. number_engines |-> e]).current

\* The postings of one impact: those of the first engine that has it as they are, of the
\* others with the first as a difference from the last of the engine before.
MergedQuantum(tf) ==
    LET process(done, e) ==
            LET has == e \in DOMAIN impact_headers /\ tf \in Impacts(e)
                docs == IF has THEN Quantum(e, tf) ELSE <<>>
                first == docs[1] + done.offset - done.previous_docid
                current == IF has THEN <<first>> \o Tail(docs) ELSE <<>>
            IN  [current |-> done.current \o current,
                 previous_docid |-> done.previous_docid + Total(current),
                 offset |-> done.offset + DocumentCount(search_engines[e])]
    IN  FoldLeft(process, [current |-> <<>>, previous_docid |-> 0, offset |-> 0],
                 [e \in 1 .. number_engines |-> e]).current

\* The engines whose iterators are at a term.
Having(term) == {e \in 1 .. number_engines : terms[e] = <<term>>}

\* Special terms were dealt with; others must be on the list when there is one.
Wanted(term, intersection) == ~Special(term) /\ (intersection # <<>> => term \in intersection[1])

\* The least term that an iterator is at, and the impact headers of the engines that have it.
PreloadPostings ==
    /\ pc = "terms"
    /\ \E e \in DOMAIN terms :
        /\ terms[e] # <<>>
        /\ \A other \in DOMAIN terms : terms[other] # <<>> => ~StrLess(terms[other][1], terms[e][1])
        /\ next_term_to_process' = terms[e][1]
    /\ IF Wanted(next_term_to_process', options.intersection)
       THEN /\ impact_headers' = [e \in Having(next_term_to_process') |->
                                    ImpactHeader(search_engines[e], next_term_to_process')]
            /\ pc' = "merge"
       ELSE /\ UNCHANGED impact_headers
            /\ pc' = "advance"
    /\ UNCHANGED <<index_file, written, read, inputs, copied, terms, quanta>>

MergeQuanta ==
    /\ pc = "merge"
    /\ quanta' = LET impacts == InOrder(UNION {Impacts(e) : e \in DOMAIN impact_headers}, >)
                 IN  [q \in DOMAIN impacts |->
                        [impact |-> impacts[q], docs |-> MergedQuantum(impacts[q])]]
    /\ pc' = "write"
    /\ UNCHANGED <<index_file, written, read, inputs, copied, terms, next_term_to_process,
                   impact_headers>>

\* The frequencies in the engines that have the term, together.
Frequencies ==
    LET leaf(e) == LeafOf(search_engines[e], next_term_to_process)
        cf(e) == leaf(e).collection_frequency
        df(e) == leaf(e).document_frequency
    IN  <<MapThenSumSet(cf, DOMAIN impact_headers), MapThenSumSet(df, DOMAIN impact_headers)>>

WriteTerm ==
    /\ pc = "write"
    /\ IF ShouldPrune(next_term_to_process, Frequencies[1], Frequencies[2], options.mode, combined_docs)
       THEN UNCHANGED <<index, in_disk, unique_terms, index_file>>
       ELSE WriteImpactHeaderPostings(next_term_to_process, Frequencies[1], Frequencies[2])
    /\ pc' = "advance"
    /\ UNCHANGED <<term_list, here, header, read, inputs, copied, walk>>

\* Mutant: one iterator moves on, so that a term is looked at once for each index that has it.
NextTerms_First ==
    /\ pc = "advance"
    /\ terms' = [e \in DOMAIN terms |->
                    IF e = Min(Having(next_term_to_process)) THEN TermAfter(e, next_term_to_process)
                    ELSE terms[e]]
    /\ pc' = "terms"
    /\ UNCHANGED <<index_file, written, read, inputs, copied, next_term_to_process,
                   impact_headers, quanta>>

\* The iterators that are at the term move on.
NextTerms ==
    /\ pc = "advance"
    /\ terms' = [e \in DOMAIN terms |->
                    IF e \in Having(next_term_to_process) THEN TermAfter(e, next_term_to_process)
                    ELSE terms[e]]
    /\ pc' = "terms"
    /\ UNCHANGED <<index_file, written, read, inputs, copied, next_term_to_process,
                   impact_headers, quanta>>

\* All iterators have ended: the terms are sorted for the dictionary.
TermsMerged ==
    /\ pc = "terms" /\ \A e \in DOMAIN terms : terms[e] = <<>>
    /\ term_list' = InOrder(DOMAIN index, StrLess)
    /\ pc' = "nodes"
    /\ UNCHANGED <<index_file, index, unique_terms, in_disk, here, header, read, inputs, copied, walk>>

-----------------------------------------------------------------------------
Next ==
    \/ Start \/ Refused
    \/ CopyDocuments \/ DocumentsCopied
    \/ CopyFilenames \/ FilenamesCopied \/ FilenamesIndexed
    \/ WriteOffsets \/ WriteLongest \/ MergeLengths
    \/ StartTerms \/ PreloadPostings \/ MergeQuanta \/ WriteTerm \/ NextTerms \/ TermsMerged
    \/ DictionaryNext /\ UNCHANGED <<inputs, copied, walk>>

Spec == Init /\ [][Next]_vars

-----------------------------------------------------------------------------
\* The types.  A term is put on the list of the terms once.
TypeOK ==
    /\ pc \in {"start", "refused", "documents", "filenames", "filename index", "offsets", "longest",
              "lengths", "variables", "terms", "merge", "write", "advance", "nodes", "written",
              "searching"}
    /\ search_engines \in Merges /\ options \in Options
    /\ engine \in 1 .. number_engines + 1
    /\ Len(filename_index_offsets) <= combined_docs /\ Len(raw) <= combined_docs + 1
    /\ DOMAIN index = DOMAIN in_disk /\ Cardinality(DOMAIN index) = unique_terms
    /\ DictionaryTypes

\* The documents of all the indexes, in their order.
AllDocuments == FlattenSeq([e \in 1 .. number_engines |-> search_engines[e].documents])
LengthsOf(e) == [d \in 1 .. DocumentCount(search_engines[e]) |->
                    search_engines[e].terms[Length].docid[d] - 1]

\* What the search engine finds in the merged index.
VariableOf(term) == GetVariable(PostingsDetails(btree_root, term)[1], index_file)
CellsOf(from, to) == [i \in 1 .. to - from |-> index_file[from + i].value]
NameAt(id) ==
    LET start == VariableOf(FilenamesStart)
        offset == CellsOf(VariableOf(FilenamesIndexStart) + id - 1, VariableOf(FilenamesIndexStart) + id + 1)
    IN  CellsOf(start + offset[1], start + offset[2])
TextAt(id) ==
    LET document_offsets == Sums(GetList(PostingsDetails(btree_root, DocumentOffsets)[1], index_file))
    IN  CellsOf(document_offsets[id], document_offsets[id + 1])

\* The names, the texts and the lengths of the documents are copied in three passes, but the
\* merged index has those of one document under one number, the number that its postings use.
DocumentsInStep ==
    pc = "searching" =>
        /\ document_lengths = FlattenSeq([e \in 1 .. number_engines |-> LengthsOf(e)])
        /\ \A id \in DOMAIN AllDocuments :
              /\ NameAt(id) = Append(AllDocuments[id].name, 0)
              /\ do_documents => TextAt(id) = AllDocuments[id].text

\* The postings of a term in all the indexes by the numbers of the merged one, the largest
\* impact first and the documents in order.
OrderedInAll(engines, term) ==
    LET before(a, b) == a.impact > b.impact \/ (a.impact = b.impact /\ a.document < b.document)
        first(e) == Documents(SubSeq(engines, 1, e - 1)) - 1
        postings(e) ==
            LET docs == Sums(engines[e].terms[term].docid)
            IN  [i \in DOMAIN docs |-> [document |-> first(e) + docs[i],
                                       impact |-> engines[e].terms[term].tf[i]]]
    IN  SortSeq(FlattenSeq([e \in DOMAIN engines |->
                               IF term \in DOMAIN engines[e].terms THEN postings(e) ELSE <<>>]),
                before)

\* How many postings of a term are used: the prune points of the indexes together, or that of
\* the program.
Used(engines, opts) ==
    LET pruned == {e \in DOMAIN engines : TrimPoint \in DOMAIN engines[e].terms}
    IN  IF pruned = {} THEN opts.static_prune_point
        ELSE Lesser(opts.static_prune_point, static_prune_point * Cardinality(pruned))

\* The index of all the documents: the terms that are kept with their postings, and those
\* that say something of the index itself.
Merged(engines, opts) ==
    LET all == UNION {DOMAIN engines[e].terms : e \in DOMAIN engines}
        impacts(term) ==
            [i \in DOMAIN OrderedInAll(engines, term) |-> OrderedInAll(engines, term)[i].impact]
        kept == {t \in all :
                    /\ Wanted(t, opts.intersection)
                    /\ ~ShouldPrune(t, Total(impacts(t)), Len(impacts(t)), opts.mode,
                                    Documents(engines))}
        special ==
            {FilenamesStart, FilenamesFinish, FilenamesIndexStart, FilenamesIndexFinish, Length}
            \cup (IF Storing(engines, opts.documents) THEN {DocumentOffsets, DocumentLongest} ELSE {})
            \cup (IF Used(engines, opts) = LONG_MAX THEN {} ELSE {TrimPoint})
            \cup (IF engines[1].stemmer = 0 THEN {} ELSE {Stemmer})
    IN  [t \in kept \cup special |-> IF Special(t) THEN <<>> ELSE OrderedInAll(engines, t)]

\* Of all the inputs.
MergedIndexes == [engines \in Merges, opts \in Options |-> Merged(engines, opts)]

Abstract == INSTANCE SortedIndex WITH
    entries <- MergedIndexes[search_engines, options],
    used <- Used(search_engines, options),
    cursor <- keyword

\* The merged index is one sorted index of all the documents: each term with its postings in
\* every index, in the order of their impacts, as if the documents had been indexed together.
ImplementsMergedIndex == Abstract!Spec
=============================================================================
