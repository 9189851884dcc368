------------------------------ MODULE HashNode ------------------------------
(***************************************************************************)
(* ANT_memory_index_hash_node: the postings of one term while the index is *)
(* being built, and their serialisation.                                   *)
(*                                                                         *)
(* The first two postings live in the node itself ("early").  The third    *)
(* moves them into two growing lists of memory pieces, one of bytes that   *)
(* hold the differences between document numbers in variable-byte code,    *)
(* which may be split over two pieces, and one of term frequencies.  The   *)
(* early postings and the heads of the lists share memory (a union).       *)
(*                                                                         *)
(* Every allocation may fail: an insertion is told how many of its         *)
(* allocations succeed.                                                    *)
(***************************************************************************)
EXTENDS Integers, Sequences, FiniteSets, SequencesExt

\* The uses that are made of a node, each of them a record of
\*   gaps     by how much a new document number exceeds the last, a set
\*   extra    the term frequencies that add_posting() is given, a set
\*   adds     bound: the calls to add_posting()
\*   memory   how many allocations of a call may succeed, a set
CONSTANT Workloads

ASSUME HashNodeAssumption ==
    \A workload \in Workloads :
        /\ workload.gaps \subseteq Nat \ {0}
        /\ workload.extra \subseteq Nat \ {0}
        /\ workload.adds \in Nat /\ workload.memory \subseteq Nat

HeldInVocab == 2            \* postings_held_in_vocab
InitialLength == 8          \* postings_initial_length, in bytes
Grown(length) == (3 * length) \div 2        \* postings_growth_factor = 1.5
TfCap == 255
Junk == [number |-> 0, byte |-> 0]          \* memory that nobody has written

VARIABLES
    workload,           \* the use that is made of this node
    storage,            \* which member of the union was written last
    early,              \* the postings held in the node
    docids,             \* the list of docid pieces, docid_node_used and _length
    tfs,                \* the list of tf pieces, tf_node_used and _length
    current_docno,
    document_frequency, collection_frequency,
    docno,              \* the last document that add_posting() was called for
    adds,               \* calls of add_posting() so far
    buffers,            \* serialised_docids_size and serialised_tfs_size
    request,            \* *doc_size and *tf_size, as passed to serialise_postings()
    serialised          \* what serialise_postings() wrote, when it succeeded

node == <<storage, early, docids, tfs, current_docno, document_frequency, collection_frequency>>
output == <<buffers, request, serialised>>
calls == <<workload, docno, adds>>
vars == <<node, calls, output>>

None == [docids |-> <<>>, tfs |-> <<>>]
NoList == [pieces |-> <<>>, used |-> 0, length |-> 0]

Init ==
    /\ workload \in Workloads
    /\ storage = "early"
    /\ early = <<>>
    /\ docids = NoList
    /\ tfs = NoList
    /\ current_docno = 0
    /\ document_frequency = 0
    /\ collection_frequency = 0
    /\ docno = 0
    /\ adds = 0
    /\ buffers = [docids |-> 1, tfs |-> 1]
    /\ request = [docids |-> 0, tfs |-> 0]
    /\ serialised = None

-----------------------------------------------------------------------------
\* Variable-byte codes (compress_variable_byte.h), byte by byte: seven bits a byte, up
\* to the five bytes of the numbers below 2^35.

BytesNeeded(n) == 1 + Cardinality({k \in 1 .. 4 : n >= 128 ^ k})

Code(n) == [i \in 1 .. BytesNeeded(n) |-> [number |-> n, byte |-> i]]

IsLastByte(item) == item.byte = BytesNeeded(item.number)

\* The bytes before the one at i are the rest of its code, and the code before
\* that one is complete.
EndsCode(bytes, i) ==
    LET width == BytesNeeded(bytes[i].number) IN
    /\ IsLastByte(bytes[i])
    /\ i >= width
    /\ SubSeq(bytes, i - width + 1, i) = Code(bytes[i].number)
    /\ i > width => IsLastByte(bytes[i - width])

-----------------------------------------------------------------------------
\* Pieces of memory

Piece(length, contents) == [i \in 1 .. length |-> contents]

\* memcpy() of items to piece + at
Written(piece, at, items) ==
    [i \in DOMAIN piece |-> IF i \in at + 1 .. at + Len(items) THEN items[i - at] ELSE piece[i]]

WrittenToLast(pieces, at, items) == [pieces EXCEPT ![Len(pieces)] = Written(@, at, items)]

\* The result of an insertion into a list: the list, whether there was memory for
\* it, and how many allocations will still succeed.
Success(list, memory) == [list |-> list, ok |-> TRUE, memory |-> memory]
Failure(list) == [list |-> list, ok |-> FALSE, memory |-> 0]

Overflow(code, room) == SubSeq(code, room + 1, Len(code))

\* append_docno(): a code that does not fit fills the last piece and goes on in a
\* new one.
AppendDocno(list, gap, memory) ==
    LET code == Code(gap)
        room == list.length - list.used
        rest == Overflow(code, room)
        length == Grown(list.length)
        filled == WrittenToLast(list.pieces, list.used, code)
    IN  IF Len(code) <= room
          THEN Success([list EXCEPT !.pieces = filled, !.used = @ + Len(code)], memory)
          ELSE IF memory = 0 THEN Failure(list)
          ELSE Success([pieces |-> Append(filled, Written(Piece(length, Junk), 0, rest)),
                        used |-> Len(rest), length |-> length], memory - 1)

\* The lengths of the pieces of the tf list are in bytes, and even.
TfLength(length) == Grown(length) + (Grown(length) % 2)

\* Mutant: does not count the tf that is about to be added.
TfFull_OffByOne(list) == 2 * list.used > list.length

TfFull(list) == 2 * (list.used + 1) > list.length

\* The tf list makes room for one more.
MakeTfRoom(list, memory) ==
    LET length == TfLength(list.length) IN
    IF ~TfFull(list) THEN Success(list, memory)
    ELSE IF memory = 0 THEN Failure(list)
    ELSE Success([pieces |-> Append(list.pieces, Piece(length \div 2, 0)),
                  used |-> 0, length |-> length], memory - 1)

-----------------------------------------------------------------------------
\* insert_docno()

\* The third posting: both lists get their first piece, and the early postings are
\* copied into it.  docid_node_used starts at whatever an earlier failure left.
Moved(memory) ==
    LET first == [pieces |-> <<Piece(InitialLength, Junk)>>, used |-> docids.used,
                  length |-> InitialLength]
        one == AppendDocno(first, early[1].gap, memory - 2)
        two == IF one.ok THEN AppendDocno(one.list, early[2].gap, one.memory) ELSE one
        copied == Written(Piece(InitialLength \div 2, 0), 0, <<early[1].tf, early[2].tf>>)
    IN  IF memory < 2
          THEN [docids |-> docids, tfs |-> tfs, ok |-> FALSE, memory |-> 0]
        ELSE IF two.ok
          THEN [docids |-> two.list, ok |-> TRUE, memory |-> two.memory,
                tfs |-> [pieces |-> <<copied>>, used |-> HeldInVocab, length |-> InitialLength]]
          ELSE [docids |-> [two.list EXCEPT !.pieces = <<>>], ok |-> FALSE, memory |-> 0,
                tfs |-> [tfs EXCEPT !.length = InitialLength]]

StoreTf(room, added, tf) ==
    IF ~room.ok \/ ~added.ok THEN room.list
    ELSE [room.list EXCEPT !.pieces = WrittenToLast(@, room.list.used, <<tf>>), !.used = @ + 1]

\* The posting goes to the lists: room for its tf, then its docid, then the tf.
\* What fails after a move finds the union already overwritten.
InsertIntoLists(gap, tf, lists) ==
    LET room == MakeTfRoom(lists.tfs, lists.memory)
        added == AppendDocno(lists.docids, gap, room.memory)
    IN  /\ storage' = "lists"
        /\ early' = <<>>
        /\ docids' = IF room.ok THEN added.list ELSE lists.docids
        /\ tfs' = StoreTf(room, added, tf)
        /\ document_frequency' = document_frequency + IF room.ok /\ added.ok THEN 1 ELSE 0

InsertDocno(gap, tf, memory) ==
    \/ /\ document_frequency < HeldInVocab
       /\ early' = Append(early, [gap |-> gap, tf |-> tf])
       /\ document_frequency' = document_frequency + 1
       /\ UNCHANGED <<storage, docids, tfs>>
    \/ LET moved == Moved(memory) IN
       /\ document_frequency = HeldInVocab
       /\ IF moved.ok
            THEN InsertIntoLists(gap, tf, moved)
            ELSE /\ docids' = moved.docids
                 /\ tfs' = moved.tfs
                 /\ UNCHANGED <<storage, early, document_frequency>>
    \/ /\ document_frequency > HeldInVocab
       /\ InsertIntoLists(gap, tf, [docids |-> docids, tfs |-> tfs, memory |-> memory])

-----------------------------------------------------------------------------
\* add_posting()

\* The early postings are what the union holds for as long as document_frequency
\* says so.  When an allocation fails after the lists have taken their place it no
\* longer does, the behaviour of what follows is undefined, and the model stops.
UnionDefined == storage = "early" <=> document_frequency <= HeldInVocab

Serialising == request # [docids |-> 0, tfs |-> 0]

Capped(tf) == IF tf <= TfCap THEN tf ELSE TfCap

\* Another occurrence in the current document.
AddToCurrent(extra) ==
    /\ document_frequency > 0
    /\ IF document_frequency < HeldInVocab + 1
         THEN /\ early' = [early EXCEPT ![document_frequency].tf = Capped(@ + extra)]
              /\ UNCHANGED tfs
         ELSE /\ tfs' = [tfs EXCEPT !.pieces[Len(tfs.pieces)][tfs.used] = Capped(@ + extra)]
              /\ UNCHANGED early
    /\ collection_frequency' = collection_frequency + extra
    /\ UNCHANGED <<storage, docids, current_docno, document_frequency>>

\* Mutant: the document is current even when its posting could not be stored.
Current_Always(stored, gap) == current_docno' = current_docno + gap

\* current_docno follows only when the posting was stored.
Current(stored, gap) == current_docno' = IF stored THEN current_docno + gap ELSE current_docno

\* A new document.
AddDocument(gap, extra, memory) ==
    /\ InsertDocno(gap, Capped(extra), memory)
    /\ LET stored == document_frequency' > document_frequency IN
       /\ Current(stored, gap)
       /\ collection_frequency' = collection_frequency + IF stored THEN extra ELSE 0

AddPosting(next, extra, memory) ==
    /\ ~Serialising /\ UnionDefined
    /\ adds < workload.adds
    /\ adds' = adds + 1
    /\ UNCHANGED workload
    /\ docno' = next
    /\ IF next = current_docno
         THEN AddToCurrent(extra)
         ELSE AddDocument(next - current_docno, extra, memory)
    /\ UNCHANGED output

-----------------------------------------------------------------------------
\* serialise_postings()

\* A walk along a list of pieces that recomputes the length of each, copying it
\* while the buffer has room: what it copied, the bytes that it asks for, the
\* next length and whether a piece did not fit.
Walk(list, usedBytes, Next(_), available) ==
    LET walk[i \in 0 .. Len(list.pieces)] ==
            IF i = 0
              THEN [copied |-> <<>>, bytes |-> 0, length |-> InitialLength, short |-> FALSE]
              ELSE LET before == walk[i - 1]
                       more == IF i = Len(list.pieces) THEN usedBytes ELSE before.length
                       fits == before.bytes + more <= available
                   IN  [copied |-> IF fits THEN Append(before.copied, <<i, more>>)
                                           ELSE before.copied,
                        bytes |-> before.bytes + more,
                        length |-> IF fits THEN Next(before.length) ELSE before.length,
                        short |-> before.short \/ ~fits]
    IN  walk[Len(list.pieces)]

\* The items copied by a walk, itemBytes bytes each.
Copied(list, walk, itemBytes) ==
    FlattenSeq([j \in DOMAIN walk.copied |->
        SubSeq(list.pieces[walk.copied[j][1]], 1, walk.copied[j][2] \div itemBytes)])

EarlyCodes == FlattenSeq([i \in DOMAIN early |-> Code(early[i].gap)])
EarlyTfs == [i \in DOMAIN early |-> early[i].tf]

\* Mutant: tf_node_used is taken for a number of bytes.
TfWalk_Units == Walk(tfs, tfs.used, TfLength, request.tfs)

TfWalk == Walk(tfs, 2 * tfs.used, TfLength, request.tfs)

\* Mutant: every piece is taken to be as long as the first.
DocidWalk_Initial == Walk(docids, docids.used, LAMBDA length : length, request.docids)

DocidWalk == Walk(docids, docids.used, Grown, request.docids)

\* Mutant: the caller is not told how much space is needed.
Needed_Untold(bytes) == request

\* *doc_size and *tf_size tell the caller what was needed.
Needed(bytes) == bytes

\* The result is written if it fits in the buffers that the caller described; if not,
\* get_serialised_postings() allocates buffers as large as it is told.
Serialised(result, bytes, fits) ==
    /\ request' = Needed(bytes)
    /\ IF fits
         THEN /\ serialised' = result
              /\ UNCHANGED buffers
         ELSE /\ buffers' = [docids |-> Max({buffers.docids, request'.docids}),
                             tfs |-> Max({buffers.tfs, request'.tfs})]
              /\ UNCHANGED serialised

SerialiseEarly ==
    LET bytes == [docids |-> Len(EarlyCodes), tfs |-> 2 * HeldInVocab]
        fits == request.docids >= bytes.docids /\ request.tfs >= bytes.tfs
    IN  /\ document_frequency <= HeldInVocab
        /\ Serialised([docids |-> EarlyCodes, tfs |-> EarlyTfs], bytes, fits)
        /\ docids' = [docids EXCEPT !.used = IF fits THEN bytes.docids ELSE @]

SerialiseLists ==
    /\ document_frequency > HeldInVocab
    /\ Serialised([docids |-> Copied(docids, DocidWalk, 1), tfs |-> Copied(tfs, TfWalk, 2)],
                  [docids |-> DocidWalk.bytes, tfs |-> TfWalk.bytes],
                  ~DocidWalk.short /\ ~TfWalk.short)
    /\ UNCHANGED docids

\* get_serialised_postings() calls serialise_postings() with the sizes of the
\* buffers, and again with what that asked for until everything fits.
StartSerialising ==
    /\ ~Serialising /\ UnionDefined
    /\ document_frequency > 0
    /\ request' = buffers
    /\ UNCHANGED <<node, calls, buffers, serialised>>

Serialise ==
    /\ Serialising
    /\ serialised = None
    /\ SerialiseEarly \/ SerialiseLists
    /\ UNCHANGED <<storage, early, tfs, current_docno, document_frequency,
                   collection_frequency, calls>>

-----------------------------------------------------------------------------
\* Documents arrive in order: a posting is in the same document as the one before,
\* which may have failed, or in a later one.  The first document is number 1.
Arriving == {docno + gap : gap \in workload.gaps} \cup ({docno} \ {0})

Next ==
    \/ \E next \in Arriving, extra \in workload.extra, memory \in workload.memory :
            AddPosting(next, extra, memory)
    \/ StartSerialising
    \/ Serialise

Spec == Init /\ [][Next]_vars

\* Serialisation runs to its end: it is a loop of one thread.
FairSpec == Spec /\ WF_vars(Serialise)

-----------------------------------------------------------------------------
\* The move of a node to the lists never runs out of memory after a first posting has
\* been copied: no call has memory for just the first two pieces, or the codes of all
\* differences that the calls can add up to are short.
MovesSucceed ==
    \A use \in Workloads :
        2 \in use.memory =>
            \A gap \in use.gaps : \A n \in 0 .. gap * use.adds : BytesNeeded(n) <= 2

\* The types of the node and of the buffers: neither list ever uses more of its last
\* piece than was allocated for it.
TypeOK ==
    /\ storage \in {"early", "lists"}
    /\ Len(early) <= HeldInVocab
    /\ docids.used <= docids.length \/ document_frequency <= HeldInVocab
    /\ 2 * tfs.used <= tfs.length
    /\ \A list \in {docids, tfs} : DOMAIN list = {"pieces", "used", "length"}
    /\ adds \in 0 .. workload.adds
    /\ {document_frequency, collection_frequency, current_docno} \subseteq Nat
    /\ buffers.docids >= 1 /\ buffers.tfs >= 1

\* The postings, read back from wherever they are.
Bytes == IF storage = "early" THEN EarlyCodes
         ELSE FlattenSeq([i \in DOMAIN docids.pieces |->
                IF i = Len(docids.pieces) THEN SubSeq(docids.pieces[i], 1, docids.used)
                                          ELSE docids.pieces[i]])
Frequencies == IF storage = "early" THEN EarlyTfs
               ELSE FlattenSeq([i \in DOMAIN tfs.pieces |->
                      IF i = Len(tfs.pieces) THEN SubSeq(tfs.pieces[i], 1, tfs.used)
                                             ELSE tfs.pieces[i]])

\* The differences whose codes end in the bytes, each with its term frequency.
ToPostings(bytes, frequencies) ==
    LET ends[i \in 0 .. Len(bytes)] ==
            IF i = 0 THEN <<>>
            ELSE IF EndsCode(bytes, i) THEN Append(ends[i - 1], i) ELSE ends[i - 1]
        places == ends[Len(bytes)]
    IN  [k \in DOMAIN places |-> [gap |-> bytes[places[k]].number, tf |-> frequencies[k]]]

\* The number of every piece in memory, and how many of its bytes are used: all of them,
\* but for the last.
PiecesUsed(list, itemBytes) ==
    [i \in DOMAIN list.pieces |->
        <<i, itemBytes * IF i = Len(list.pieces) THEN list.used ELSE Len(list.pieces[i])>>]

\* As many codes end in the bytes as there are term frequencies, and all of them were
\* written.  The sizes that serialisation recomputes, when its buffers are large enough,
\* are those with which the pieces were allocated: it copies every piece whole, and of
\* the last one what is used.
ListsAgree ==
    UnionDefined /\ storage = "lists" =>
        /\ Len(ToPostings(Bytes, Frequencies)) = document_frequency
        /\ Len(Frequencies) = document_frequency
        /\ Junk \notin ToSet(Bytes) /\ 0 \notin ToSet(Frequencies)
        /\ ~DocidWalk.short => DocidWalk.copied = PiecesUsed(docids, 1)
        /\ ~TfWalk.short => TfWalk.copied = PiecesUsed(tfs, 2)

List == INSTANCE PostingsList WITH
    postings <- ToPostings(Bytes, Frequencies),
    Extra <- UNION {use.extra : use \in Workloads}

\* The node is a postings list: the two representations, the splits over pieces
\* and the move between them lose and invent nothing, and an addition that fails
\* for want of memory leaves the list as it was.
ImplementsList == List!Spec

\* What is serialised is the list, and all of it.
SerialisedFaithfully ==
    serialised # None =>
        /\ Len(serialised.tfs) = document_frequency
        /\ ToPostings(serialised.docids, serialised.tfs) = ToPostings(Bytes, Frequencies)

\* The retries of get_serialised_postings() end.
SerialisationEnds == Serialising ~> serialised # None
=============================================================================
