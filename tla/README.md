# Specifications of ATIRE

ATIRE indexes collections of documents and ranks them for queries. This directory
holds TLA+ models of the parts of it whose correctness depends on order,
interleaving, memory that runs out, files that one program writes and another reads, or
numbers that must stay in step; the TLC configurations that check them; and proofs
checked by TLAPS. `PROJECT.json` maps every definition to the lines of `src/` that it
translates.

The models follow the default Linux build: `PARALLEL_INDEXING` and
`PARALLEL_INDEXING_DOCUMENTS` on, POSIX threads and semaphores, `HASHER_LOOKUP3`,
`SPECIAL_COMPRESSION` and `IMPACT_HEADER` on, `TWO_D_ACCUMULATORS` with a width that is a
power of two, 16-bit accumulators (`ANT_ACCUMULATOR_T`), `REBALANCE_FACTOR` -1. Where
another build is modelled, the text says so.

## The system

Indexing (`atire/index.c`) is a pipeline:

    sources of documents ----> [queue 0] ----> compressing threads ----> [queue 1] ---->
        ----> preindexing threads ----> [queue 2] ----> main loop ----> memory index ----> file

Merging (`atire/atire_merge.c`) walks through several such files and writes another.
Searching (`atire/atire_api.c`) is one thread per query: a parsed query names terms, the
search engine looks them up in the dictionary of a file, reads their postings and adds
each document's score to a list of accumulators that keeps the best `top_k` in a heap.

| Component | State | Operations | Interacts through | What is hard |
|---|---|---|---|---|
| Producer/consumer queue (`producer_consumer.h`) | a ring, two points, two semaphores, a mutex | `add`, `remove` | shared memory, objects copied by value | interleavings, the ring full or empty |
| Parallel document iterators (`directory_iterator_{multiple,preindex,compressor}.c`) | a queue, a mutex, a count of active threads | `first`, `next`, `produce`, `work` | each stage is the source of the next; end-of-stream objects | ending exactly once, empty streams, deletion while threads run |
| Postings of a term (`memory_index_hash_node.{c,h}`) | two early postings in a union with two lists of pieces | `add_posting`, `insert_docno`, `serialise_postings` | called by the memory index | allocations that fail, codes split over pieces, retries |
| Term trees (`memory_index.c`) | a binary tree per hash value | `find_node`, `add_term`, `rebalance_tree` | preindexing threads read it without a lock | readers among writes, stale hints |
| Main loop (`atire/index.c`, `memory_index.c`) | document number; lengths, offsets, names, texts | `add_indexed_document`, `add_to_document_repository`, `serialise` | last consumer of the pipeline | five records of one numbering, discarded documents |
| Memory arena (`memory.{c,h}`) | chained blocks, `at`, `used` | `malloc`, `realign`, `rewind` | everything in the index | ends of blocks, alignment, the ceiling |
| Filename repository (`memory_index.c`) | chunks of names, offsets of names and of texts | `add_to_filename_repository`, `serialise_filenames*` | the arena; read by the search engine | a name over two chunks, two chained lists |
| Index serialisation (`memory_index.c`) | dictionary, postings on disk | `serialise`, `write_node` | read by dictionary search | culling in two passes, nodes, impact order, packed postings |
| Dictionary search (`search_engine.c`, `btree_iterator.c`) | header and one leaf at a time | `get_postings_details`, `get_postings`, iteration | reads what was serialised | boundaries between nodes, four formats of postings |
| Merging (`atire_merge.c`) | iterators over indexes, the new file | walk through all dictionaries at once | reads and writes the same files | numbering after the indexes before, quanta in common |
| Results list (`search_engine_result.{h,c}`, `heap.h`) | accumulators by row, a heap of the `top_k` | `init_accumulators`, `add_rsv` | fed by the ranking functions | the heap agreeing with the accumulators |
| Parsing, sources, streams, codecs, ranking formulas, query parsers, snippets, servers, evaluation | | | | sequential, numeric or I/O |

What makes each correct: the queue is a bounded FIFO that loses and duplicates nothing;
a chain of iterators is one iterator over all the documents that ends once, after the
last; a hash node is a list of postings whatever memory does; a tree is a search tree
that loses no postings and leads no reader astray; the lists in memory are the sequence of
the documents that were kept, with their names, lengths, terms and texts; memory is granted once; a
file, searched or walked through, is the sorted index of what was collected, and a merged
one that of all its parts; the results list holds the `top_k` largest accumulators. Every
hazard of the code that these properties are about is listed at its line in
`PROJECT.json`.

## Modules

| Module | Models | Checked by |
|---|---|---|
| `BoundedQueue` | abstract: a FIFO of bounded length whose adds and removes begin and return | |
| `ProducerConsumer` | every statement of `ANT_producer_consumer::add()` and `remove()` | `producer_consumer` |
| `DocumentIterator` | abstract: hand out each document once, then NULL | |
| `DocumentPipeline`, `MCDocumentPipeline` | the chain of iterators, their threads, and the main loop as their reader | `pipeline`, `pipeline_empty_delete` |
| `DocumentPipeline_proofs` | its types, bounds, locks and counts, and that it implements `DocumentIterator` | TLAPS |
| `PostingsList` | abstract: a list of gaps and term frequencies | |
| `HashNode`, `MCHashNode` | `ANT_memory_index_hash_node` and the retries of `get_serialised_postings()` | `hash_node` |
| `HashNode_proofs` | the pieces of a node, their serialisation, and that it implements `PostingsList` | TLAPS |
| `TermTree`, `MCTermTree` | one entry of the hash table, its inserter and its readers | `term_tree` |
| `TermTree_proofs` | the tree, its readers and its postings in the default build | TLAPS |
| `Collection` | abstract: a sequence of documents, and what discarded ones left for the next | |
| `IndexingLoop`, `MCIndexingLoop` | the main loop and what the lists it builds in memory say | `indexing_loop` |
| `Indexing_proofs` | the ring: its invariants, and that it implements `BoundedQueue`; the main loop: that its records stay in step, and that it implements `Collection` | TLAPS |
| `Memory` | `ANT_memory` | `repository` |
| `DocumentStore` | abstract: names and texts under the numbers they were added with | |
| `Repository`, `MCRepository` | names and texts of documents, in memory, in the file, and read back | `repository` |
| `Repository_proofs` | what `Memory` grants never overlaps, for the repository too; the names in its chunks; that it implements `DocumentStore` | TLAPS |
| `Strings` | strings of letters, as numbers, and `strcmp()` | |
| `SortedIndex` | abstract: a map from terms to postings in order of impact, and the terms in order | |
| `ImpactPostings` | the postings of one term: ordered, packed or compressed, written, read, cut | `index_file`, `merge`, `repository` |
| `Dictionary` | nodes, root, binary searches and iterator | `index_file`, `merge` |
| `IndexFile`, `MCIndexFile` | `ANT_memory_index::serialise()` over it | `index_file`, `index_file_schemes` |
| `IndexFile_proofs` | what is written and what is found in it; that it implements `SortedIndex` | TLAPS |
| `Merge`, `MCMerge` | `atire_merge` over it | `merge` |
| `TopK` | abstract: the answers to queries, of the largest sums | |
| `ResultsList`, `MCResultsList` | the accumulators, their rows, the heap, and the two ways a query fills the list | `results_list`, `results_list_boolean` |
| `ResultsList_proofs` | its rows, its heap, that it holds the best, and that it implements `TopK` | TLAPS |
| `ListLemmas` | what the proofs about lists share: induction over numbers, sums, concatenations, products and ranks | TLAPS |

How they compose. `ProducerConsumer` implements `BoundedQueue`; `DocumentPipeline`
instantiates one `BoundedQueue` per iterator instead of a ring and implements
`DocumentIterator`. `HashNode` implements `PostingsList`, which is what `IndexingLoop` and
`IndexFile` take the postings of a term to be; `IndexingLoop` implements `Collection`.
`Repository` extends both `Memory`, so that its chunks come from the same arena as the
nodes of the dictionary, and `ImpactPostings`, since where each text starts is kept as
the postings of a term of its own; it implements `DocumentStore`. `IndexFile` extends
`Dictionary`, which extends `ImpactPostings`, and implements `SortedIndex`. `Merge`
extends `Dictionary` too, takes its inputs to be what `IndexFile` and `Repository` promise,
and implements `SortedIndex` over all the indexes together: the program that merges has
its own copy of the functions that write a dictionary, but the readers are the same.
`ResultsList` implements `TopK`.

### ProducerConsumer

One value of `pc[t]` per statement: wait on the semaphore, enter the mutex, `memcpy`
the object, advance the point, leave the mutex, signal the other semaphore. `object[t]`
is the caller's buffer; `EmptyEnter` also chooses what the caller put there. The
counting semaphores are numbers; their `enter` is a guard, as `sem_wait` blocks. In
`Contents`, the queue an observer sees, an object is in from its `memcpy` on and out
from the `memcpy` that fetches it, though the points and semaphores move at other
times. `TypeOK`, `PlacesConserved`, `RingConsistent` and `MutualExclusion` are together
inductive.

### DocumentPipeline

`supply` is how many documents each source holds; any number up to `MaxSupply` is
tried, so empty sources and empty collections are among them. A thread of stage k calls
`next()` of iterator k - 1 (`NextEnter`, `Remove`, or `NextEnded` when `active_threads`
is 0), works, and adds to queue k (`Add`, `AddReturns`). `Start` is `first()` of one
iterator: it starts the threads, fetches the first document itself and, in the stage
above, adds it to that stage's queue. `next()` keeps the mutex while `remove()` blocks, as
in the code. `Surplus` is the end-of-stream object that `first()` adds to an empty
stream though no thread stands for it; `EndsCounted` says that it is the only
discrepancy there ever is, and `QuietAtEnd` that without it the chain is quiet when it is
deleted. `pipeline_empty_delete` shows that with it the chain is not.

`Finish` is the main loop that is told that there are no more documents; the other threads
run on while it writes the index. `DeleteChain` is `delete disk` and the return of `main()`,
which ends the process: no thread takes a step after it. So `Terminates` is that `main()`
returns, of every collection, and `ThreadsEnd`, that each thread ends of itself, is stated of
a collection that holds a document. Of an empty one it would be false, as the deletion may
come first.

### HashNode

A byte of a variable-byte code is a pair of the number and the byte's position in its
code, so a list of pieces shows at once whether a code was torn. Lengths, growth and
the order of allocations are the code's. `memory` is how many allocations of a call
succeed. `UnionDefined` is the precondition of everything after a failed move from the
early postings to the lists: once it is false the program reads pointers as numbers and
the model stops. That can happen when three codes do not fit the first piece; the run
with failing allocations keeps to differences where they do, see "Seen while modelling".
`Walk` is the loop of `serialise_postings()` that recomputes the length of every piece, as
no piece records its own; `ListsAgree` compares what it recomputes with the pieces as they
were allocated.

### TermTree

Nodes are pairs of an inserter and a term, so that two nodes for one term are told
apart. Every load, compare-and-swap and rotation write is a step. A reader checks a
pointer (`FindCompare`) and then loads it again (`FindFollow`), as the volatile pointer
of `find_node()` does. `UseHint` is `add_indexed_document_node()` with the node that a
reader found earlier. `Builds` are ways to build the program: the default, in which
readers run and nothing rotates, and `make rb=N`.

### IndexingLoop

One step per document: `Keep` (numbered, added, stored), `Discard` (indexed under the
next number, which is then taken back), `Crash` (the file is NULL and the preindexing
thread hands it to the parser). `SetDetail` keeps the two modes in which the code stores
a number as a posting; `Capped` is the limit of a frequency to one byte.

"What the lists say" adds up the gaps of a list, as `impact_order_with_header()` does before
it writes the postings in another order, and subtracts the one that was added to a length.
`ImplementsCollection` says that the lists in memory, added up, are at every moment what
`Collection` promises: the names, lengths and terms of the documents that were kept, under
their numbers, and (`left`) the tags of a document that was discarded, which stand under the
number that the next document will get and are counted with its own. It ends at memory.
What becomes of a list in the file, where two postings or fewer are packed, is the subject of
`IndexFile` and, for the offsets, of `Repository`. `TextsInStep` speaks of the offsets as a
list only when there are more than two (`Listed`): those of a single document are packed, and
`open()` does not read them as they were packed.

### Memory and Repository

`Memory` knows a block by its place in the chain and an address by its offset in it.
`MallocHere` grants from the current block, `MallocBlock` chains a new one, of the size
that the request or `block_size` calls for, and `MallocRefused` is the ceiling. `Realign`
pads by what `used`, and not `at`, lacks to a multiple of a long, as the code does.
`granted` is a history of what was given out.

`Repository` adds one document per step: its text to the file, its offset to the postings
of `~documentoffsets`, its name byte by byte to the newest chunk and, where that ends, on
into another (`AddToFilenameRepository`); `OtherMalloc` is the dictionary that allocates
between them. The steps of `serialise()` follow in the code's order, each writing cells at
the end of the file, then `OpenRepository` reads the variables and `GetDocumentFilename`,
`GetDocumentFilenames` and `GetDocument` answer. `NamesCollected` says that the chunks,
walked from the newest back, spell the names. `ImplementsStore` is about what is read.

### ImpactPostings, Dictionary and IndexFile

Files are sequences of cells and a position is a number of cells, so an offset that is
one off reads another kind of cell. A node of the hash table is the record of its
postings and frequencies. `ImpactOrder` is the bucket sort by term frequency with its
impact header; `Packed` and `Unpacked` put one or two postings into the fields of a
dictionary entry, where a difference must become a number; `ReadAndDecompress` is the
search engine's reading of the first k, which may stop inside a quantum, and the static
prune point bounds both sides. `Compress` is the chooser among codecs as it is written,
with the mix-up of its two numbers; with one codec the numbers cannot be confused, so
`index_file` runs with one.

`Dictionary` writes a node (`WriteNode`) for each term shorter than the prefix and one for
all the terms with a common prefix, as `find_end_of_node()` tells them apart, then the
root; `LeafPosition` and `InNode` are the two binary searches, with the code's adjustment
when the search ends beside the term; `First` and `Following` are
`ANT_btree_iterator`. `IndexFile` has the variables, the two passes over the hash table
(`SerialiseBucket` counts terms and writes postings, `GenerateTermList` collects them
again) with every way of culling.

### Merge

`CopyDocuments`, `CopyFilenames` and `MergeLengths` take one index a step and share no
counter: `DocumentsInStep` is that they agree. `terms` is the term each iterator is at;
`PreloadPostings` reads the impact headers of those at the least term, `MergeQuanta`
puts together their quanta of each impact, and `WriteTerm` packs or compresses the result.
`NextTerms` advances the iterators that were at it, and `TermsMerged` is the end of all.
`Wanted` is the filter of special terms and of the list given with an intersection.
`Merged` computes the postings that the merged index is to have from the documents of all
indexes, without quanta or packing.

### ResultsList

A pointer to an accumulator is the number of its document, and the order of addresses
that of the numbers. `Search` is `init_accumulators()` with `set_accumulator_width()`;
`AddRsv` is `add_rsv()` with its three branches (`AddToCompletion`, `AddToList`,
`AddToHeap`); `Rank` and `RankBoolean` end a query. `Sift` is the way down that
`min_insert()`, `min_update()` and `min_heapify()` share, given as the path it takes.
`total` is what the scores of this query add up to, exactly; `RowsAgree` ties the 16-bit
accumulators of the rows that were cleared to it. The heap keeps no record of who is in
it: `InHeap` tells it from the accumulator, and `HoldsBest` says that this is enough as
long as every score counts and the sums fit (`ScoresCount`, `SumsFit`).

## What the runs show

| Run | Bounds | States | Shows |
|---|---|---|---|
| `producer_consumer` | 2 producers, 2 consumers, 2 slots, 2 objects | 10 688 | the conjuncts that are proved, `ImplementsQueue`, `KeepsMoving` |
| `pipeline` | 2 sources of 0 or 1 documents, 1 compressing and 2 preindexing threads | 20 206 | ends counted, `main()` returns, threads done before it when there is a document, `ImplementsIterator` |
| `pipeline_empty_delete` | 1 empty source, 2 threads | violation | a thread may still be adding when the chain is deleted |
| `hash_node` | 3 workloads: gaps of 1, 3 and 5 bytes, 4 additions; 11 additions of 3 bytes; 6 additions with failing allocations | 24 676 | the node is a `PostingsList`, sizes recomputed, serialises to it, retries end |
| `term_tree` | 4 terms, 1 inserter, 1 reader or rb=3 | 61 186 | search tree, postings not lost, readers safe and finite, low after rebalancing |
| `indexing_loop` | 5 documents of 6 kinds, texts kept | 8 593 | numbering in step, counts capped, tags of discarded documents in one place only |
| `results_list` | 4 documents, rows of 2, scores 1 and 2, 5 scores over 2 searches for 1, 3, 4 or 5 results | 545 057 | the heap holds the best, rows agree, `ImplementsTopK` |
| `results_list_boolean` | 3 documents, 1 result asked for | violation | the document after the list is full is lost |
| `index_file` | 0, 2 or 7 terms of 1 to 4 postings, prefixes of 2 letters, 3 ways of culling, prune point 3, 13 strings looked up | 6 709 | the file is a `SortedIndex`, the lengths come back |
| `index_file_schemes` | the same with two codecs | violation | a list is not written |
| `repository` | 4 documents of 2 names and 2 texts, chunks of a pointer and 3 cells, blocks of 7, 2 other allocations of 1, 4 or 8 | 662 771 | nothing granted twice, names collected, `ImplementsStore` |
| `merge` | 7 merges of 1 to 3 indexes of 3 or 4 documents, 4 ways of culling, an intersection, with texts or without, 2 prune points | 13 892 | documents in step, the result is a `SortedIndex` of all |

Why the bounds are enough. Two slots and two threads on each side make the ring wrap, fill
and empty with a rival at both ends, and the proofs cover all other sizes. The pipeline
has every kind of thread, a stage with rivals for `next()`, more documents than one
thread takes, and sources that end at different times. The first docid piece is 8 bytes
and the second 12, so 11 postings of three bytes reach the third piece of both lists and
every split; 5-byte codes split after each of their bytes. Four terms give every shape of
tree with four nodes, and rotations of trees that are and are not full. Five documents
let a kept one follow and precede a discarded one of each kind; one of the six kinds holds a
word 300 times, and two discarded ones together more tags than are counted. Five scores fill a heap
of three and displace or raise a member twice, or leave both rows stale for a second
search; one, three, four and five results are the heap of one, a heap with a parent and
two children, the list without a heap, and more than there are documents. The seven words
of `index_file` are shorter than a prefix, as long and longer, alone in a node and not,
and what is looked up lies before, between and after them; lists of one to four postings
take each of the four formats, and a prune point of three and questions for one and three
postings end at and inside a quantum. A chunk of names that holds three cells makes a name
with its end fit, just fit and split; four documents fill three chunks and two chunks of
the index; requests of one, four and eight fit a block, fit a new one, and exceed the size
of a block. The indexes that are merged have terms of their own and in common, the same
impacts and different ones, one to seven postings together, and stand first, in the middle
and last.

Integers: `Short` keeps the 16 bits of an accumulator; `Word` is the 32-bit range that a
posting in a dictionary field must fit, small in the instances. Every other number stays
far below its width in the instances.

### Fairness

`ProducerConsumer` and `DocumentPipeline` assume weak fairness of each thread (of the main
thread as a whole): a POSIX scheduler runs every thread that is not blocked, and the
threads call `next()` and `add()` in loops until their stream ends, or the process does. Strong fairness of
the mutex is not assumed. `KeepsMoving` therefore speaks of producers and consumers as
groups, not of each thread. `HashNode` assumes that a started serialisation goes on, one
thread's loop; `TermTree` that a reader in `find_node()` takes its next step. The other
modules are programs of one thread with safety properties only, and assume none.

## What is proved

`Indexing_proofs` holds what is proved of `ProducerConsumer` and, further on, of
`IndexingLoop`. Of the first, for all finite disjoint sets of producers and consumers, any
set of objects and any positive length (`ThreadsAssumption`, `QueueLengthAssumption`):

* `Invariance`: `Spec => []IInv`, with `IInv` the conjunction of `TypeOK`,
  `MutualExclusion`, `PlacesConserved` and `RingConsistent`;
* `TypeCorrect`, `PlacesAreConserved`, `RingStaysConsistent`: its parts.

No conjunct is inductive alone. That a semaphore stays below its maximum needs
`PlacesConserved`: `EmptyLeave` may increment `empty_count` because the thread that does
it is itself counted as busy. `RingConsistent` speaks of where the points will be once
the thread in the critical section has advanced, so a step that advances needs
`MutualExclusion` for there to be one such thread only. And that a producer finds a free
slot (`Room`) needs the count of places to bound `Occupancy` below `QueueLength`, or the
remainder in `RingConsistent` would not tell a full ring from an empty one. The proof has
one lemma for each action; each rests on `CountStep`, which says how a thread that moves
from one statement to another changes the number of threads at a set of statements.

The refinement, from the same assumptions and `IInv`:

* `QueueImplemented`: `Spec => ImplementsQueue`. Eight statements change nothing of the
  queue (`*Stutters`, `ContentsUnchanged`). `CopyInPuts`: the slot that a producer writes
  is the one after the objects in the ring, so `Contents` grows at its end and no object
  in it changes (`SlotsApart`), and the queue has a place for it since the producers that
  have claimed one, those that are adding and the consumers that are removing are
  different busy threads (`PlaceLeft`). `CopyOutGets`: the slot read is the first.
  `FillLeaveReturns` and `EmptyLeaveReturns` are the ends of `add()` and `remove()`.

`DocumentPipeline_proofs`, for every number of stages, every crew and every collection
(`PipelineAssumption`):

* `TypeCorrect`: `Spec => []TypeOK`: the types, that no queue holds more objects than its
  stage has threads, and that a count of active threads stays between zero and the number
  of threads that were started;
* `OnlyTheHolderRemoves`: a thread waiting in `remove()` holds the mutex of its iterator,
  and an end of that stream is still to come.

`IInv` is `TypeOK` with `Functions` (the types that `TypeOK` gives element by element),
`Held` and `Primed`. That the count does not pass below zero is where `Held` is needed:
`next()` looks at `active_threads` and then waits, and only because the mutex is kept while
it waits can no other thread take the last end in between. `Primed` keeps the main thread
from adding to a stage that is not there.

The refinement and what it needs, from the same assumption, as many threads as there are:

* `IteratorImplemented`: `Spec => ImplementsIterator`. `Index` is a `Deliver`, `Finish` is
  the `End`, and everything else changes nothing of the iterator;
* `AllQuiet`: `Spec => []QuietAtEnd`;
* `CountIsExact`: `Spec => []EndsCounted`, of the empty collection too.

The invariant is `JInv`. `Placed`: a document that its source has given and the main loop
has not yet got is in one place, the hands of one thread or one slot of one queue, and
every step that moves it takes it out of the one and puts it in the other. `Unprimed`: a
stage whose `first()` has not been called has no running thread, and nothing in its queue
but what the `first()` before it is adding. `Flow`: the active threads of an iterator are
exactly those that have not added their end and those whose end is in the queue
(`Counted`); when all have, nothing follows the last end in the queue (`Closed`); a thread
that was told that its stream has ended saw the count of the stage before at zero, a
source has read all that it has, and a count of zero means zeros at all stages before.
From these `Drained`: when the count of the last stage is zero no document is on its way.

`Flow` holds only of a collection with a document. An empty one lets `first()` add an end
that no thread stands for (`Surplus`, and the run `pipeline_empty_delete`), so the proof has
to show that `first()` adds none otherwise: had it been told that the stream has ended,
everything would have been delivered before the main loop began (`FirstIsDocument`). For
the empty collection the refinement is immediate, as there is nothing to deliver, and
`QuietAtEnd` says nothing. `AllQuiet` needs one invariant more, `Returning`: a thread that
has yet to return from `add()` has an object in the queue, so none is left in an empty one.
Of a collection with a document `CountIsExact` is `Counted`; of the empty one it is
`Balanced`, an invariant of its own that counts the end of `first()` as well.

`Repository_proofs`, for all sizes of blocks, headers and requests and
any ceiling (`MemoryAssumption`, `RepositoryAssumption`):

* `MemoryApart`: `MemorySpec => [](InBlocks /\ Apart /\ WithinAllocated)`;
* `RepositoryApart`: `RepositorySpec => [](InBlocks /\ Apart)` for the memory that the names of the
  documents and the dictionary share.

`Apart` is inductive with `Frontier`, that all that was granted from the newest block ends
at or before `at`, and with `InBlocks`, for the blocks before it, which are never granted
from again. `Slack`, that the rest of the block is counted in what is allocated and not
used, is needed for `used` to stay below `allocated`; a `realign()` past the end of the
block makes the rest negative and both conjuncts stand. `Repository_proofs` shows that every
step of `Repository` is a step of `Memory` or leaves its variables alone.

And of the names, for any names that fit a chunk and any chunk larger than its pointer:

* `NamesAlwaysCollected`: `RepositorySpec => []NamesCollected`;
* `TypeCorrect`: `RepositorySpec => []RepositoryTypes`.

`NamesCollected` walks the chunks from the newest back, so the invariant, `NamesInv`, is about
that chain (`Chained`): each chunk is memory that `malloc()` granted, no two are the same and
each points to the one before; every chunk but the newest is full; and what they hold from
the oldest on is the names with their ends. It rests on `Apart`, as a chunk that the
dictionary or a later chunk overlapped could be overwritten. `Indexed` says that the chunks
of the index, put together, are where each name starts. `ChainFills` is a name written on in
the newest chunk, `ChainGrows` one that goes on into another, `CollectedArePieces` the walk.

And of what is read, unless variable byte and Simple-9 are both tried (`ListsAreWritten`, by
default there is one codec; with both, the run `index_file_schemes` shows a list that is not
written):

* `StoreImplemented`: `RepositorySpec => ImplementsStore`.

The invariant is `FileInv`, one conjunct for each thing that is in the file. `TextsInFile`: each
text is where the differences in `~documentoffsets` add up to, and ends where the next one
starts or, until `serialise()` adds the end, where the file ends; a text has at least one byte
(the scheme of its compression comes first), so every document is a posting of its own
(`OffsetAdded`). `NamesInFile`: from `start` on are the names and from `index start` on where
each starts and the last ends. `OffsetsInFile` and `IsOpen`: the list of offsets can be read
back, and the search engine has it and the three variables, each of which was stored in two
halves as if it were two postings (`VariableRead`). The file only grows, so what is kept in it
stays (`KeptStays`). The names follow from where each starts (`NameRead`) or one from the
other, as each ends in its first zero (`UptoIs`); the texts from two offsets (`TextRead`). Of an
index of one document `DocumentStore` promises no text, since its two offsets are packed and
not read as they were packed ("Seen while modelling").

`IndexFile_proofs`, for every collection of terms and postings, every size of the hash table
and every hash of the terms, any length of the prefix, any prune point and every way of
culling. `IndexAssumption` says what a collection is: finitely many terms, which are not empty
and hold no `'\0'`, and of each a hash node with at least one posting, as many frequencies as
postings, positive differences, and frequencies and a number of postings that fit a word of
the file (the code caps the first at 255, and documents are numbered in 32 bits):

* `IndexTypeCorrect`: `Spec => []TypeOK`: above all, the pass over the hash table that counts
  the terms and the one that collects them agree, whatever is culled in between.

And, provided the codecs write every list (`ListsAreWritten`, as for the repository):

* `PostingsAlwaysReadBack`: `Spec => []PostingsReadBack`, the property of which the run
  `index_file_schemes` is a counterexample without that assumption;
* `LengthsAlwaysRead`: `Spec => []LengthsRead`, when every collection has more than two
  documents. Of fewer the list of lengths is packed into the dictionary and `open()` reads
  something else ("Seen while modelling"), so the theorem is false without it;
* `IndexImplemented`: `Spec => ImplementsIndex`.

The invariant is `IndexInv`. `BucketsWritten`: the terms of the buckets before `hash_val`, but
for those that are culled, are in `in_disk`, `unique_terms` is their number, and each is
`Placed`: its entry holds its one or two postings, or says where in the file its list is.
`TermsSorted`: `term_list` then has these terms in order. `InNodes`: the nodes written so far
hold the terms up to `here`, the boundaries between nodes are where the prefix changes, no
node is shared with a term still to come, and the cells of each node are in the file from its
`disk_pos` to where the next one begins. `IsWritten`: the root, read back from the end of the
file, is what was written (`TheRoot`). `IsOpenIndex`: so is the root that the search engine
holds, and an iterator that has not ended stands at a term (`Walking`). `TypeOK` says
nothing of the file, and is not inductive: that the counts of the two passes are the same
needs `BucketsWritten`, and that a term is found needs the node that `LeafPosition` chooses
to be the one that the writer put it in, which is `InNodes`. Cells that
are in a file stay where they are when something is added behind them, which is all that
`serialise()` does (`FileGrows`).

What the invariant is made of comes first in the module. `StrLess` is a strict order of
strings (`StrLessOrders`), and of two strings with different prefixes the prefixes decide. Of
a finite set there is one list in that order, which the sort returns. A recursive function
that halves a range (`LowerBound`) finds how many strings of a sorted list are less than what
is looked up (`LowerBoundIs`); from that the two binary searches together find the term or the
place where it would be (`PlaceOf`). What is read at the places of a node, of the root and of the
postings is what was written. For the postings of one term, `Arranged` says what the order by
impacts is, list by list (`ImpactOrder` is one such, and so are the four formats of one or two
postings in an entry), `Readable` what a buffer must hold for the search engine, and
`Taken` how far its loop has come; an answer is then a beginning of the postings by falling
impact, and long enough (`ReadEnough`).

For the refinement, `Entries` is the map from terms to postings that `SortedIndex` has from
the start. It never changes (`EntriesStay`), though the program writes it bit by bit: until
the file is open nobody can ask. Then `Search` answers from it (`SearchRefines`), and `First`
and `Following` are its least string that is not before, or after, another (`LeastIs`,
`FirstRefines`, `FollowingRefines`).

`HashNode_proofs`, for every set of workloads (`HashNodeAssumption`) in which no move from the
early postings to the lists fails halfway (`MovesSucceed`, below), with any gaps, any term
frequencies, any number of calls, and allocations that fail anywhere else:

* `TypeCorrect`: `Spec => []TypeOK`: `used` never exceeds what the last piece has;
* `ListsAlwaysAgree`: `Spec => []ListsAgree`: whole codes, as many frequencies, and pieces of
  the sizes that serialisation recomputes;
* `SerialisationIsFaithful`: `Spec => []SerialisedFaithfully`;
* `NodeImplementsList`: `Spec => ImplementsList`.

The invariant says that there are gaps and term frequencies that the node holds (`Kept`):
the early postings are them, or the pieces up to `used` are the codes of the gaps one after
another and the frequencies in order. `DocList` and `TfList` give the length of every piece
from those before it, which is what `serialise_postings()` computes again (`Walk`). That
codes can be read at all is `Reads`, by induction over the postings: a code ends in its last
byte and nowhere else, so the codes put together come apart as the same gaps however they
were split over pieces. A refused allocation leaves at most an empty piece at the end of the
term frequencies, which holds nothing and is filled by the next posting.

`MovesSucceed` excludes two defects of the program, without which the theorems are false
("Seen while modelling"): when memory ends right after the first piece of each list, the copy
of the early postings or the third posting can fail halfway. It says that differences are
short where memory can end there; a workload whose memory ends elsewhere, or never, may have
any. TLC evaluates it for the workloads of the run.

`Indexing_proofs`, of `IndexingLoop`, for every collection of any documents, with texts or
without (`IndexingAssumption`; the words are finitely many, as strings of a bounded length
are):

* `LoopTypesCorrect`: `LoopSpec => []LoopTypes`;
* `TextsAreFound`: `LoopSpec => []TextsInStep`;
* `CollectionIsHeld`: `LoopSpec => ImplementsCollection`.

The invariant is `InStep`. `Lists`: in every list of postings the gaps add up to the number of
the last document (`Current`), which is at most the number of documents kept, and one more
for tags, whose postings stay when a document is discarded; lengths and names are as many as
the documents. `Texts`: the offsets, added up, are where the texts start, each text ends where
the next starts, and one offset more follows at the end; this holds of one document too, where
`TextsInStep` says less, because its offsets are not stored as a list. That the loop implements
`Collection` follows when what the lists say of old documents does not change and what they
say of the document just kept is what was counted: a posting at the end of a list changes no
sum before it (`PostingAdded`), a number above `current_docno` is in no list, and more of a
document that is already the last of a list adds to its last frequency and to no other, as far
as the limit (`SameFrequency`). `FrequencyAdded` puts the two cases together: a discarded
document has left a posting under the next number, or it has not.

`ListLemmas` is what the proofs about lists rest on. The library's induction theorems take an operator,
which no prover here can instantiate, so `Induction` is stated for a set of numbers instead:
one that holds 0 and with a number the next holds all. From it come that a function defined
by recursion over the numbers exists (`RecursionExists`), and what `SumSeq` and `FlattenSeq`,
which are folds in the library, do at every element; and that in an order of finitely many
things each has a rank of its own (`Ranks`), which is what sorting by rank needs.

`ResultsList_proofs`, for every number of documents, every width of a row, any integer
scores and any sequence of queries of either kind (`ResultsAssumption`):

* `RowsAlwaysAgree`: `Spec => []RowsAgree`. `RowsAgree` is inductive with the types of the
  accumulators and the sums (`IInv`). A score that is the first of its row finds sums of
  zero in all of it (`ClearedAgrees`); reducing to 16 bits after every addition is reducing
  once (`ShortOfSum`), so the theorem covers sums that wrap around, which no run reaches.

and, when every score is at least 1 (`ScoresCount`):

* `TypeCorrect`: `Spec /\ []SumsFit => []TypeOK`;
* `AlwaysHeap`: `Spec /\ []SumsFit => []HeapOrdered`;
* `AlwaysBest`: `Spec /\ []SumsFit => []HoldsBest`;
* `TopKImplemented`: `Spec /\ []SumsFit => ImplementsTopK`, with `MaxSurplus = 0`.

`SumsFit` says that no sum exceeds 32767. It is a hypothesis because the code takes it for
granted and never checks it: beyond it an accumulator becomes negative and the heap loses
its order (`search_engine_accumulator.h:76` in the hazards). It restricts the scores of one
query, not how many queries follow one another. `MaxSurplus = 0` excludes the Boolean queries
for which the theorem is false (`results_list_boolean`).

The invariant is `RInv`: `IInv`, the sums (`Sums`), the settings of the query (`Settings`) and,
while it ranks, `KeptBy`: each document is on the list once; only those with a score are, all
of them until the list is full; none that is left out is above one that is listed; and the
full list is a heap. `HoldsBest` alone is not inductive, since without the heap the root need
not be the lowest of the list, and the root is what `add_rsv()` replaces; `HeapOrdered` alone
is not, since a document that is on the list twice, or is taken for a member when it is not,
would be moved in the wrong place. That the code may read off an accumulator whether its
document is in the heap, instead of recording it, rests on `TopIsLeast`, by which every other
member is above the root, and on everything outside being below it.

About the heap itself: `PathsExist` and `PathIsWayDown` say what the way down of `Sift`, a
recursive function, is: each place the smaller of two children of the one before; `SiftOrders`, that
`Sift` repairs a heap that is wrong only at the place where it starts, and `SiftKeeps`, that
it loses no document; `BuildIs` applies them from the last inner place to the root, and
`MinInsertIs` and `MinUpdateIs` at one place. The documents are ordered strictly, by score
and then by number, so `Ranks` gives each a place of its own in the answer (`SortedIs`), and
the document of each rank is the one that `TopK` wants there (`AnswerIs`). `RebuiltHolds` is
what a Boolean query puts on its list when there is room for all.

`TermTree_proofs`, for every number of terms, inserters and readers, in the builds that do
not rebalance (`TermTreeAssumption`, and `NeverRebalances` in each theorem; that is the
default, and the build in which readers run):

* `TypeCorrect`: `[]TypeOK`;
* `AlwaysSearchTree`: `[]SearchTree`, with any number of inserters at once;
* `AlwaysSafe`: `[]ReadersSafe`;
* `AlwaysInTree`: `[]PostingsInTree`, with one inserter (`OneInserter`), as in the indexer.

The first part of the module is about trees as such. `Reach` is the least closed set of
pointers, which makes the proofs first-order: a set that is closed and holds the root holds
what is reached from it, and no induction over paths is needed. The invariant is `TInv`. A
tree is `Ordered`; it is `Nested` (of two nodes above a third, one is above the other); and a
node outside it is `Blank`. An inserter that descends is at a node that is `OnPath` for its
string, and has missed no other node that is (`Search`), so when it comes to a NULL pointer
no node for the string is anywhere (`SearchFails`), and its own node belongs exactly there
(`PutShape`). The second half of `Search` is what survives the other inserters: a node that
one of them puts on the path is put below (`PutSearch`). `Reading` says that a pointer a
reader has seen is not taken away: without rotations pointers only go from NULL to a node.
`Own`, for `AlwaysInTree`, is that the compare-and-swap of the only inserter succeeds; with
two the node that is loaded after it may be another's, see "Seen while modelling".

Only model-checked: liveness (TLAPS has no backend for it here); merging (`Merge`), which has
its own writer of every part of a file and several readers at once; rotations (`TermTree` with
`rb=N`, `BalancedLow`). The types of `ResultsList` do not hold for all scores: with scores
that add up to zero a document can be put on the full list twice, hence `ScoresCount`.

## Bugs found

Three runs of the list above are counterexamples; `PROJECT.json` quotes, for each, the
comment or check in the source that the behaviour contradicts:

* `pipeline_empty_delete`: when a collection is empty, `first()` adds an end-of-stream
  object for which no thread stands, and the chain is deleted while a thread still adds;
* `results_list_boolean`: the document that follows when a Boolean query has filled its
  list is lost, whatever its score;
* `index_file_schemes`: the chooser of a codec compares the identifier of one codec with the
  place of another and, when they are equal, writes nothing.

### Seen while modelling

Not run; each was read in the code and not executed.

* The union of a hash node is overwritten before an allocation that can fail
  (`memory_index_hash_node.c:253-258`): with large differences the third posting's code
  needs a second piece, and when that is refused the early postings are gone. When it is the
  copy of the early postings that fails (246-250), `docid_node_used` keeps what was copied
  and the next attempt starts behind it, after bytes that nobody wrote.
* The postings of a discarded document's tags are kept under the number that the next
  document gets (`memory_index.c:463`), and a search for such a tag finds that document,
  against the comment at `index.c:537`, "pretend we never saw the document". `Collection`
  says what the program does (`left`). An empty file, which is NULL, is dereferenced
  (`directory_iterator_preindex.c:61`).
* When the last document is discarded, `largest_docno` (`memory_index.c:467`) stays one
  above the number of lengths, and `serialise()` counts it (1531).
* With `make rb=N` and preindexing threads the rotation at `memory_index.c:334` sets to NULL
  a pointer that `find_node()` has checked at 143 and loads again at 146.
* With two inserters a node found again may not be the one inserted: the result of the
  compare-and-swap is not looked at, against the comment at `memory_index.c:164`. The
  indexer has one inserter.
* The comment at `memory_index_hash_node.h:146` recalls a cap of 254 for the term frequency
  where the code caps at 255.
* `realign()` pads by `used`, where the comment at `memory.c:258` speaks of where memory is
  next given out from. A refused request leaves `block_size` grown. A block that the C
  library does not have is not noticed. A name longer than a chunk overflows it.
* In an index of one or two documents the lengths and offsets of documents are packed into
  the dictionary, and `open()` decompresses them as if they were a list
  (`search_engine.c:229-255`). For a special term of more documents
  `get_decompressed_postings()` expects the list where `get_postings()` has put a header.
  `get_postings()` overwrites the impacted length it was given.
* `topsig_feedback()` (`atire_api.c:1625`) searches on without clearing the rows of the query
  before it. A negative score below the top of a full heap is taken for a member of the heap
  (`search_engine_result.h:304`).
* `atire_merge -K` is documented to write no more than so many postings per list, but only
  the prune point is written. The array of lengths is reused as a buffer for postings and is
  as long as there are documents. The buffer for compressed documents is as long as the
  longest uncompressed one. The highest document frequency and longest term are written as
  zero.

## Not modelled

Parsing, sources of documents, streams, compression of integers and texts, ranking
formulas, query parsing, snippets, relevance feedback, servers, evaluation: they are
sequential functions over one input, I/O, or wrappers around libraries. The reason for
each is in `PROJECT.json`. Of the modelled components: `HashNode` leaves out `set()` and
`decompress()`; `TermTree` the tree of a single document, which only one thread touches;
`IndexingLoop` the command line, statistics and pregens; `IndexFile` the quantisation of
impacts and extra length vectors; `Merge` the refusal of quantized indexes and the
build without `IMPACT_HEADER`, and the model has no `atire_reorder.c`; `ResultsList`
`set_rsv()`, `boolean_results_list()`, quantum-at-a-time processing, feedback and pregens;
`DocumentPipeline` what the destructors free. Threads that die, and the Windows build, are not
modelled. Nothing of the index survives a crash while it is written, and nothing in the
code tries to recover one, so there is no model of it.

Within what is modelled, these details are simpler than the code. `BytesNeeded` counts up to
five bytes, for numbers below 2^35; the code goes on to nine. `ImpactPostings` takes
every codec to need what small numbers need. From 2^21 on a number has four bytes or more of
variable byte, as many as it has uncompressed, so of lists of such numbers nothing is said
when those two are both tried, which is not the default.
`ReadAndDecompress` reads the first k postings and leaves out that the search engine reads
fewer bytes for them (`search_engine.c:951-960`). `SerialiseBucket` writes the terms of a
bucket in ascending order and not in that of the tree, which decides positions in the file
only. That `realign()` may pass the end of a block is covered by `MemoryApart`; the run of
`Repository` does not come to it.

## Plan

Done: the core, in the order queue, pipeline, postings, trees, main loop, results list; the
arena, the names and texts, the file, merging; the proofs above. Left, most important first:

1. Feedback and quantum-at-a-time processing in `ResultsList`.
2. `atire_reorder.c` and quantisation over `ImpactPostings`.
3. The types of `Merge`, and that what it writes is the index of all documents, from the lemmas
   of `IndexFile_proofs` about nodes, root and postings.
