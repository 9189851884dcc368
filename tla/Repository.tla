----------------------------- MODULE Repository -----------------------------
(***************************************************************************)
(* The documents in an index and their names.  While it indexes, the       *)
(* memory index writes every document to the index file, keeps where it    *)
(* starts as the postings of ~documentoffsets, and collects the names in   *)
(* chunks of the memory that its dictionary comes from too; the start of a *)
(* chunk points to the chunk before.  serialise() writes the names and     *)
(* where each starts, and the search engine reads names and documents by   *)
(* their number.                                                           *)
(*                                                                         *)
(* A byte, a pointer and a number in the file are a cell each.             *)
(***************************************************************************)
EXTENDS Memory, ImpactPostings

CONSTANTS
    document_filenames_chunk_size,
    PointerSize,            \* of the pointer at the start of a chunk
    members_per_chunk,      \* of ANT_memory_index_filename_index
    FileNames, Texts,       \* the names and the compressed texts of the documents
    MaxDocuments, MaxOthers \* bounds: documents, and allocations by others

ASSUME RepositoryAssumption ==
    /\ members_per_chunk \in Nat \ {0} /\ MaxDocuments \in Nat /\ MaxOthers \in Nat
    /\ PointerSize \in Nat \ {0}
    /\ document_filenames_chunk_size \in Requests
    /\ PointerSize < document_filenames_chunk_size
    /\ FileNames \subseteq Seq(Nat \ {0}) /\ Texts \subseteq Seq(Nat) \ {<<>>}
    /\ \A name \in FileNames : Len(name) + 1 <= document_filenames_chunk_size - PointerSize

VARIABLES
    stage,
    storing,                \* whether the documents are stored and not only their names
    others,                 \* the allocations of the dictionary
    content,                \* the cells of the memory that were written
    document_filenames, document_filenames_used,
    chunk,                  \* of ANT_memory_index_filename_index: the chunks in use
    document_filename_bytes_used,
    repository_file,        \* the cells of the index file
    offsets,                \* the hash node of ~documentoffsets
    variables,              \* those set with set_variable()
    offsets_in_disk,        \* where ~documentoffsets is
    document_offsets, filename_start, filename_finish, filename_index_start,
    stored,                 \* what was added
    answered

names == <<document_filenames, document_filenames_used, chunk, document_filename_bytes_used>>
repository_opened == <<document_offsets, filename_start, filename_finish, filename_index_start>>
repository_vars == <<memory_vars, stage, storing, others, content, names, repository_file, offsets, variables,
          offsets_in_disk, repository_opened, stored, answered>>

RepositoryInit ==
    /\ MemoryInit
    /\ stage = "indexing" /\ storing \in BOOLEAN /\ others = 0
    /\ content = <<>>
    /\ document_filenames = NULL /\ document_filenames_used = document_filenames_chunk_size
    /\ chunk = <<>> /\ document_filename_bytes_used = 0
    /\ repository_file = <<Cell("magic", 0)>>
    /\ offsets = [docid |-> <<>>, tf |-> <<>>, collection_frequency |-> 0,
                   document_frequency |-> 0, current_docno |-> 0]
    /\ variables = [v \in {} |-> 0] /\ offsets_in_disk = [position |-> 0, impacted_length |-> 0, end |-> 0]
    /\ document_offsets = <<>>
    /\ filename_start = 0 /\ filename_finish = 0 /\ filename_index_start = 0
    /\ stored = <<>> /\ answered = [question |-> <<>>, answer |-> <<>>]

-----------------------------------------------------------------------------
\* memcpy() of some cells to an offset from where something was granted.
Copied(memory, address, offset, cells) ==
    LET start == address.start + offset
        target == {<<address.block, start + i - 1>> : i \in DOMAIN cells}
    IN  [p \in DOMAIN memory \cup target |-> IF p \in target THEN cells[p[2] - start + 1] ELSE memory[p]]

\* Another user of the memory fills what it gets.
OtherMalloc ==
    /\ stage = "indexing" /\ others < MaxOthers
    /\ \E bytes \in Requests :
        /\ Malloc(bytes)
        /\ content' = Copied(content, ans', 0, [i \in 1 .. bytes |-> -1])
    /\ others' = others + 1
    /\ UNCHANGED <<stage, storing, names, repository_file, offsets, variables,
                   offsets_in_disk, repository_opened, stored, answered>>

\* Mutant: the name goes on at the start of the new chunk, over the pointer.
AddToFilenameRepository_Pointer(name) ==
    LET string == Append(name, 0)
        remaining == document_filenames_chunk_size - document_filenames_used
        rest == SubSeq(string, remaining + 1, Len(string))
    IN  IF Len(string) <= remaining
        THEN /\ content' = Copied(content, document_filenames, document_filenames_used, string)
             /\ document_filenames_used' = document_filenames_used + Len(string)
             /\ UNCHANGED <<document_filenames, memory_vars>>
        ELSE /\ Malloc(document_filenames_chunk_size)
             /\ content' = Copied(Copied(Copied(content,
                    document_filenames, document_filenames_used, SubSeq(string, 1, remaining)),
                    ans', 0, <<document_filenames>>),
                    ans', PointerSize, rest)
             /\ document_filenames' = ans'
             /\ document_filenames_used' = Len(rest)

\* add_to_filename_repository(): what does not fit goes to a new chunk.
AddToFilenameRepository(name) ==
    LET string == Append(name, 0)
        remaining == document_filenames_chunk_size - document_filenames_used
        rest == SubSeq(string, remaining + 1, Len(string))
    IN  IF Len(string) <= remaining
        THEN /\ content' = Copied(content, document_filenames, document_filenames_used, string)
             /\ document_filenames_used' = document_filenames_used + Len(string)
             /\ UNCHANGED <<document_filenames, memory_vars>>
        ELSE /\ Malloc(document_filenames_chunk_size)
             /\ content' = Copied(Copied(Copied(content,
                    document_filenames, document_filenames_used, SubSeq(string, 1, remaining)),
                    ans', 0, <<document_filenames>>),
                    ans', PointerSize, rest)
             /\ document_filenames' = ans'
             /\ document_filenames_used' = PointerSize + Len(rest)

\* Mutant: a chunk is full when there is one member too many.
IndexAdd_Late(chunks, value) ==
    IF chunks = <<>> \/ Len(chunks[Len(chunks)]) > members_per_chunk
    THEN Append(chunks, <<value>>)
    ELSE [chunks EXCEPT ![Len(chunks)] = Append(@, value)]

\* ANT_memory_index_filename_index::add(): the last chunk, or a new one when it is full.
IndexAdd(chunks, value) ==
    IF chunks = <<>> \/ Len(chunks[Len(chunks)]) >= members_per_chunk
    THEN Append(chunks, <<value>>)
    ELSE [chunks EXCEPT ![Len(chunks)] = Append(@, value)]

\* set_document_detail() in MODE_MONOTONIC: the difference from the last posting, or one more
\* in the same posting.
AddPosting(node, docno) ==
    IF docno = node.current_docno
    THEN [node EXCEPT !.tf[Len(node.tf)] = @ + 1, !.collection_frequency = @ + 1]
    ELSE [docid |-> Append(node.docid, docno - node.current_docno), tf |-> Append(node.tf, 1),
          collection_frequency |-> node.collection_frequency + 1,
          document_frequency |-> node.document_frequency + 1, current_docno |-> docno]

\* add_to_document_repository() of a document.
AddToDocumentRepository(name, text) ==
    /\ stage = "indexing" /\ Len(stored) < MaxDocuments
    /\ AddToFilenameRepository(name)
    /\ chunk' = IndexAdd(chunk, document_filename_bytes_used)
    /\ document_filename_bytes_used' = document_filename_bytes_used + Len(name) + 1
    /\ IF storing
       THEN /\ offsets' = AddPosting(offsets, Len(repository_file))
            /\ repository_file' = repository_file \o [i \in DOMAIN text |-> Cell("char", text[i])]
       ELSE UNCHANGED <<offsets, repository_file>>
    /\ stored' = Append(stored, [name |-> name, text |-> IF storing THEN text ELSE <<>>])
    /\ UNCHANGED <<stage, storing, others, variables, offsets_in_disk, repository_opened, answered>>

-----------------------------------------------------------------------------
\* serialise()

SetVariable(table, name, value) ==
    [v \in DOMAIN table \cup {name} |-> IF v = name THEN value ELSE table[v]]

\* The end of the last document.
SerialiseOffsetsEnd ==
    /\ stage = "indexing"
    /\ offsets' = IF offsets.docid = <<>> THEN offsets ELSE AddPosting(offsets, Len(repository_file))
    /\ stage' = IF document_filenames = NULL THEN "lists" ELSE "filenames"
    /\ UNCHANGED <<memory_vars, storing, others, content, names, repository_file, variables,
                   offsets_in_disk, repository_opened, stored, answered>>

\* Some cells of a chunk, after its pointer.
CellsOf(source, length) ==
    [i \in 1 .. length |-> content[<<source.block, source.start + PointerSize + i - 1>>]]

\* serialise_filenames(): from the newest chunk, of depth 0, to the oldest, of which there are
\* no more than documents; and on the way back the chunks before, which are full, then the
\* newest.
CollectedNames ==
    LET source[depth \in 0 .. Len(stored)] ==
            IF depth = 0 THEN document_filenames
            ELSE IF source[depth - 1] = NULL THEN NULL
            ELSE content[<<source[depth - 1].block, source[depth - 1].start>>]
        used_(depth) ==
            IF depth = 0 THEN document_filenames_used ELSE document_filenames_chunk_size
        n == Cardinality({depth \in 0 .. Len(stored) : source[depth] # NULL})
    IN  FlattenSeq([i \in 1 .. n |-> CellsOf(source[n - i], used_(n - i) - PointerSize)])

SerialiseFilenames ==
    /\ stage = "filenames"
    /\ repository_file' = repository_file
            \o [i \in DOMAIN CollectedNames |-> Cell("char", CollectedNames[i])]
    /\ variables' = SetVariable(SetVariable(variables,
                        "start", Len(repository_file)), "finish", Len(repository_file'))
    /\ stage' = "names index"
    /\ UNCHANGED <<memory_vars, storing, others, content, names, offsets, offsets_in_disk,
                   repository_opened, stored, answered>>

\* Mutant: the end of the last name is not written.
SerialiseFilenamesIndex_NoEnd ==
    /\ stage = "names index"
    /\ repository_file' = repository_file
            \o [i \in DOMAIN FlattenSeq(chunk) |-> Cell("number", FlattenSeq(chunk)[i])]
    /\ variables' = SetVariable(variables, "index start", Len(repository_file))
    /\ stage' = "lists"
    /\ UNCHANGED <<memory_vars, storing, others, content, names, offsets, offsets_in_disk,
                   repository_opened, stored, answered>>

\* serialise_filenames_index(): where the names start, and where the last ends.
SerialiseFilenamesIndex ==
    /\ stage = "names index"
    /\ repository_file' = repository_file
            \o [i \in DOMAIN FlattenSeq(chunk) |-> Cell("number", FlattenSeq(chunk)[i])]
            \o <<Cell("number", document_filename_bytes_used)>>
    /\ variables' = SetVariable(variables, "index start", Len(repository_file))
    /\ stage' = "lists"
    /\ UNCHANGED <<memory_vars, storing, others, content, names, offsets, offsets_in_disk,
                   repository_opened, stored, answered>>

\* serialise_one_node() of ~documentoffsets.
SerialiseOffsets ==
    /\ stage = "lists"
    /\ IF offsets.docid = <<>> THEN UNCHANGED <<repository_file, offsets_in_disk>>
       ELSE /\ offsets_in_disk' = InDisk(offsets, TRUE, Len(repository_file))
            /\ repository_file' = repository_file \o Written(offsets, TRUE)
    /\ stage' = "written"
    /\ UNCHANGED <<memory_vars, storing, others, content, names, offsets, variables, repository_opened,
                   stored, answered>>

-----------------------------------------------------------------------------
\* ANT_search_engine

\* get_variable(): 0 if there are no postings.
GetVariableOf(name) ==
    IF name \notin DOMAIN variables THEN 0
    ELSE LET node == Variable(variables[name])
         IN  GetVariable(Leaf(node, Packed(node)), repository_file)

OpenRepository ==
    /\ stage = "written"
    /\ document_offsets' = IF offsets.docid = <<>> THEN <<>>
                           ELSE Sums(GetList(Leaf(offsets, offsets_in_disk), repository_file))
    /\ filename_start' = GetVariableOf("start")
    /\ filename_finish' = GetVariableOf("finish")
    /\ filename_index_start' = GetVariableOf("index start")
    /\ stage' = "searching"
    /\ UNCHANGED <<memory_vars, storing, others, content, names, repository_file, offsets, variables,
                   offsets_in_disk, stored, answered>>

\* Some cells of the file.
ReadCells(position, bytes) ==
    [i \in 1 .. bytes |-> IF position + i \in DOMAIN repository_file
                          THEN repository_file[position + i].value ELSE 0]

Answer(question, answer) ==
    /\ stage = "searching"
    /\ answered' = [question |-> question, answer |-> answer]
    /\ UNCHANGED <<memory_vars, stage, storing, others, content, names, repository_file, offsets,
                   variables, offsets_in_disk, repository_opened, stored>>

\* The name of a string that ends with '\0'.
NameOf(string) == SubSeq(string, 1, Min({i \in DOMAIN string : string[i] = 0} \cup {Len(string) + 1}) - 1)

GetDocumentFilename(internal_document_id) ==
    LET offset == ReadCells(filename_index_start + internal_document_id, 2)
    IN  Answer(<<"name", internal_document_id>>,
               NameOf(ReadCells(filename_start + offset[1], offset[2] - offset[1])))

\* The names one after the other; the number of documents is that of the postings of ~length.
GetDocumentFilenames ==
    LET buffer == ReadCells(filename_start, filename_finish - filename_start)
        upto[current_doc \in 0 .. Len(stored)] ==
            IF current_doc = 0 THEN 0
            ELSE upto[current_doc - 1]
                 + Len(NameOf(SubSeq(buffer, upto[current_doc - 1] + 1, Len(buffer)))) + 1
    IN  Answer(<<"names">>, [i \in DOMAIN stored |->
                                NameOf(SubSeq(buffer, upto[i - 1] + 1, Len(buffer)))])

GetDocument(id) ==
    Answer(<<"text", id>>,
           IF document_offsets = <<>> THEN <<>>
           ELSE ReadCells(document_offsets[id + 1], document_offsets[id + 2] - document_offsets[id + 1]))

-----------------------------------------------------------------------------
RepositoryNext ==
    \/ OtherMalloc
    \/ \E name \in FileNames, text \in Texts : AddToDocumentRepository(name, text)
    \/ SerialiseOffsetsEnd \/ SerialiseFilenames \/ SerialiseFilenamesIndex \/ SerialiseOffsets
    \/ OpenRepository
    \/ \E id \in 0 .. Len(stored) - 1 : GetDocumentFilename(id) \/ GetDocument(id)
    \/ GetDocumentFilenames

RepositorySpec == RepositoryInit /\ [][RepositoryNext]_repository_vars

-----------------------------------------------------------------------------
\* The types.
RepositoryTypes ==
    /\ stage \in {"indexing", "filenames", "names index", "lists", "written", "searching"}
    /\ storing \in BOOLEAN
    /\ document_filenames \in granted \cup {NULL}
    /\ document_filenames_used \in PointerSize .. document_filenames_chunk_size
    /\ \A i \in DOMAIN chunk : Len(chunk[i]) \in 1 .. members_per_chunk
    /\ DOMAIN variables \subseteq {"start", "finish", "index start"}

\* However the names were cut into chunks and whoever else got memory in between, the chunks
\* hold all the names that were added, in order, and the index holds where each starts.
NamesCollected ==
    LET strings == [i \in DOMAIN stored |-> Append(stored[i].name, 0)]
    IN  /\ document_filenames # NULL => CollectedNames = FlattenSeq(strings)
        /\ FlattenSeq(chunk) =
              [i \in DOMAIN strings |-> Len(FlattenSeq(SubSeq(strings, 1, i - 1)))]

Store == INSTANCE DocumentStore WITH reply <- answered

\* What is read from the index is what was added, by the number it was added under: the
\* names one by one and all together, and the texts.
ImplementsStore == Store!Spec
=============================================================================
