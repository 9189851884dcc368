------------------------- MODULE Repository_proofs -------------------------
(***************************************************************************)
(* ANT_memory never gives out a byte twice, for any sizes of its blocks    *)
(* and requests and any ceiling.  What is granted in the newest block ends *)
(* at or before `at`, which malloc() only moves on; realign() may take it  *)
(* past the end of the block, where nothing fits any more; and the blocks  *)
(* before the newest are never given out from again.                       *)
(*                                                                         *)
(* The repository gets its memory only from malloc(), so the same holds of *)
(* the chunks of names and of the dictionary that share it, for any sizes  *)
(* and any number of documents.                                            *)
(*                                                                         *)
(* And the names: the chunks, from the oldest to the newest, are a list of *)
(* places that were granted, each with a pointer to the one before and a   *)
(* piece of the names, and the pieces one after the other are all the      *)
(* names that were added.                                                  *)
(*                                                                         *)
(* And what is read back: serialise() writes those names, where each       *)
(* starts, and the list of where the texts start, and the search engine    *)
(* finds with them every name and text that was added, under its number.   *)
(***************************************************************************)
EXTENDS Repository, ListLemmas

Allocation == [block : Nat, start : Nat, bytes : Nat]

MemoryTypes ==
    /\ blocks \in Seq(Nat)
    /\ at \in Nat /\ chunk_end \in Nat
    /\ used \in Nat /\ allocated \in Nat /\ block_size \in Nat
    /\ granted \in SUBSET Allocation

\* Where the newest block has been given out to.
Frontier ==
    /\ \A a \in granted : a.block = Len(blocks) => a.start + a.bytes <= at
    /\ blocks # <<>> => /\ chunk_end = blocks[Len(blocks)]
                        /\ HeaderSize <= at

\* What is left in the newest block is a part of what is allocated and not used.
Slack == WithinAllocated /\ chunk_end - at <= allocated - used

IInv == MemoryTypes /\ InBlocks /\ Frontier /\ Apart /\ Slack

LEMMA InitIInv == MemoryInit => IInv
  BY MemoryAssumption DEF MemoryInit, IInv, MemoryTypes, InBlocks, Frontier, Apart, Slack,
     WithinAllocated

\* What malloc() grants after `at` in the newest block overlaps nothing that was granted.
LEMMA GrantedApart ==
  ASSUME NEW old, old \subseteq Allocation,
         NEW a \in Allocation,
         \A b \in old : ~Overlap(a, b) /\ ~Overlap(b, a),
         \A b, c \in old : b # c => ~Overlap(b, c)
  PROVE  \A b, c \in old \cup {a} : b # c => ~Overlap(b, c)
  OBVIOUS

LEMMA HereKeeps ==
  ASSUME IInv, NEW bytes \in Nat, MallocHere(bytes)
  PROVE  IInv'
<1>. DEFINE new == [block |-> Len(blocks), start |-> at, bytes |-> bytes]
<1>. USE DEF IInv
<1>1. /\ blocks \in Seq(Nat) /\ blocks # <<>> /\ at + bytes <= chunk_end
      /\ blocks' = blocks /\ at' = at + bytes /\ chunk_end' = chunk_end
      /\ granted' = granted \cup {new}
      /\ used' = used + bytes /\ allocated' = allocated /\ block_size' = block_size
  BY DEF MallocHere, Fits, MemoryTypes
<1>2. Len(blocks) \in DOMAIN blocks /\ Len(blocks) \in Nat
  BY <1>1
<1>3. chunk_end = blocks[Len(blocks)] /\ HeaderSize <= at
  BY <1>1 DEF Frontier
<1>4. new \in Allocation
  BY <1>2 DEF Allocation, MemoryTypes
<1>5. MemoryTypes'
  BY <1>1, <1>4 DEF MemoryTypes
<1>6. InBlocks'
  BY <1>1, <1>2, <1>3, MemoryAssumption DEF InBlocks, MemoryTypes
<1>7. Frontier'
  <2>1. ASSUME NEW a \in granted', a.block = Len(blocks')
        PROVE  a.start + a.bytes <= at'
    <3>1. CASE a \in granted
      BY <1>1, <2>1, <3>1 DEF Frontier, MemoryTypes, Allocation
    <3>2. CASE a = new
      BY <1>1, <3>2 DEF MemoryTypes
    <3>. QED BY <1>1, <2>1, <3>1, <3>2
  <2>. QED BY <1>1, <1>3, <2>1, MemoryAssumption DEF Frontier, MemoryTypes
<1>8. Apart'
  <2>1. ASSUME NEW b \in granted
        PROVE  ~Overlap(new, b) /\ ~Overlap(b, new)
    BY <2>1, <1>2, MemoryAssumption DEF Frontier, Overlap, MemoryTypes, Allocation
  <2>. QED BY <1>1, <1>4, <2>1, GrantedApart DEF Apart, MemoryTypes
<1>9. Slack'
  BY <1>1 DEF Slack, WithinAllocated, MemoryTypes
<1>. QED BY <1>5, <1>6, <1>7, <1>8, <1>9

LEMMA BlockKeeps ==
  ASSUME IInv, NEW bytes \in Nat, MallocBlock(bytes)
  PROVE  IInv'
<1>. DEFINE request == Larger(block_size, bytes) + HeaderSize
            new == [block |-> Len(blocks) + 1, start |-> HeaderSize, bytes |-> bytes]
<1>. USE DEF IInv
<1>1. /\ request \in Nat /\ HeaderSize \in Nat /\ HeaderSize + bytes <= request
      /\ Larger(block_size, bytes) \in Nat
  BY MemoryAssumption DEF Larger, MemoryTypes
<1>2. /\ blocks' = Append(blocks, request) /\ blocks' \in Seq(Nat)
      /\ Len(blocks') = Len(blocks) + 1 /\ Len(blocks) \in Nat
      /\ blocks'[Len(blocks) + 1] = request
      /\ \A i \in DOMAIN blocks : i \in DOMAIN blocks' /\ blocks'[i] = blocks[i]
  <2>1. blocks \in Seq(Nat) /\ blocks' = Append(blocks, request)
    BY DEF MallocBlock, MemoryTypes
  <2>. HIDE DEF request
  <2>2. Append(blocks, request) \in Seq(Nat)
    BY <1>1, <2>1
  <2>. QED BY <1>1, <2>1, <2>2
<1>3. /\ at' = HeaderSize + bytes /\ chunk_end' = request
      /\ used' = used + bytes /\ allocated' = allocated + request
      /\ block_size' = Larger(block_size, bytes)
      /\ granted' = granted \cup {new}
  BY <1>2 DEF MallocBlock
<1>4. new \in Allocation
  BY <1>1, <1>2 DEF Allocation
<1>5. MemoryTypes'
  BY <1>1, <1>2, <1>3, <1>4 DEF MemoryTypes
<1>6. \A a \in granted : a.block \in 1 .. Len(blocks)
  BY DEF InBlocks, MemoryTypes
<1>7. InBlocks'
  <2>1. ASSUME NEW a \in granted
        PROVE  a.block \in DOMAIN blocks' /\ HeaderSize <= a.start
               /\ a.start + a.bytes <= blocks'[a.block]
    BY <1>2, <2>1 DEF InBlocks
  <2>2. new.block \in DOMAIN blocks' /\ HeaderSize <= new.start
        /\ new.start + new.bytes <= blocks'[new.block]
    BY <1>1, <1>2
  <2>. QED BY <1>3, <2>1, <2>2 DEF InBlocks
<1>8. Frontier'
  <2>1. \A a \in granted : a.block # Len(blocks')
    BY <1>2, <1>6
  <2>. QED BY <1>1, <1>2, <1>3, <2>1 DEF Frontier
<1>9. Apart'
  <2>1. ASSUME NEW b \in granted
        PROVE  ~Overlap(new, b) /\ ~Overlap(b, new)
    BY <1>2, <1>6, <2>1 DEF Overlap
  <2>. QED BY <1>3, <1>4, <2>1, GrantedApart DEF Apart, MemoryTypes
<1>10. Slack'
  <2>. HIDE DEF request
  <2>. QED BY <1>1, <1>3 DEF Slack, WithinAllocated, MemoryTypes
<1>. QED BY <1>5, <1>7, <1>8, <1>9, <1>10

LEMMA RefusedKeeps ==
  ASSUME IInv, NEW bytes \in Nat, MallocRefused(bytes)
  PROVE  IInv'
  BY DEF MallocRefused, IInv, MemoryTypes, InBlocks, Frontier, Apart, Slack, WithinAllocated, Larger

LEMMA RealignKeeps == IInv /\ Realign => IInv'
<1>. SUFFICES ASSUME IInv, Realign PROVE IInv'
  OBVIOUS
<1>. DEFINE padding == IF used % LongSize = 0 THEN 0 ELSE LongSize - (used % LongSize)
<1>1. padding \in Nat
  BY MemoryAssumption DEF IInv, MemoryTypes
<1>. HIDE DEF padding
<1>2. /\ at' = at + padding /\ used' = used + padding /\ allocated' = allocated + padding
      /\ UNCHANGED <<blocks, chunk_end, block_size, granted>>
  BY DEF Realign, padding
<1>3. Frontier'
  BY <1>1, <1>2, MemoryAssumption DEF IInv, Frontier, MemoryTypes, Allocation
<1>4. MemoryTypes' /\ InBlocks' /\ Apart' /\ Slack'
  BY <1>1, <1>2 DEF IInv, MemoryTypes, InBlocks, Apart, Slack, WithinAllocated
<1>. QED BY <1>3, <1>4 DEF IInv

LEMMA RewindKeeps == IInv /\ Rewind => IInv'
  BY DEF Rewind, IInv, MemoryTypes, InBlocks, Frontier, Apart, Slack, WithinAllocated

LEMMA StepKeeps == IInv /\ [MemoryNext]_memory_vars => IInv'
<1>. SUFFICES ASSUME IInv, [MemoryNext]_memory_vars PROVE IInv'
  OBVIOUS
<1>1. CASE UNCHANGED memory_vars
  BY <1>1 DEF memory_vars, IInv, MemoryTypes, InBlocks, Frontier, Apart, Slack, WithinAllocated
<1>2. ASSUME NEW bytes \in Requests, Malloc(bytes) \/ MallocRefused(bytes)
      PROVE  IInv'
  BY <1>2, HereKeeps, BlockKeeps, RefusedKeeps, MemoryAssumption DEF Malloc
<1>. QED BY <1>1, <1>2, RealignKeeps, RewindKeeps DEF MemoryNext

\* Whatever is asked of ANT_memory, it grants no byte twice, only bytes of its own blocks,
\* and no more bytes than it has.
THEOREM MemoryApart == MemorySpec => [](InBlocks /\ Apart /\ WithinAllocated)
<1>1. MemorySpec => []IInv
  BY InitIInv, StepKeeps, PTL DEF MemorySpec
<1>2. IInv => InBlocks /\ Apart /\ WithinAllocated
  BY DEF IInv, Slack
<1>. QED BY <1>1, <1>2, PTL

-----------------------------------------------------------------------------
\* The memory of the repository

LEMMA AskForMemory ==
  ASSUME NEW bytes \in Requests, Malloc(bytes)
  PROVE  MemoryNext
  BY DEF MemoryNext

LEMMA AddUsesMemory ==
  ASSUME NEW name, NEW text, AddToDocumentRepository(name, text)
  PROVE  [MemoryNext]_memory_vars
<1>1. CASE UNCHANGED memory_vars
  BY <1>1
<1>2. CASE Malloc(document_filenames_chunk_size)
  BY <1>2, AskForMemory, RepositoryAssumption
<1>. QED
  BY <1>1, <1>2 DEF AddToDocumentRepository, AddToFilenameRepository

LEMMA StepUsesMemory == [RepositoryNext]_repository_vars => [MemoryNext]_memory_vars
<1>. SUFFICES ASSUME [RepositoryNext]_repository_vars PROVE [MemoryNext]_memory_vars
  OBVIOUS
<1>1. CASE OtherMalloc
  BY <1>1, AskForMemory DEF OtherMalloc
<1>2. CASE \E name \in FileNames, text \in Texts : AddToDocumentRepository(name, text)
  BY <1>2, AddUsesMemory
<1>3. CASE SerialiseOffsetsEnd \/ SerialiseFilenames \/ SerialiseFilenamesIndex \/ SerialiseOffsets
  BY <1>3 DEF SerialiseOffsetsEnd, SerialiseFilenames, SerialiseFilenamesIndex, SerialiseOffsets
<1>4. CASE OpenRepository
  BY <1>4 DEF OpenRepository
<1>5. ASSUME NEW question, NEW answer, Answer(question, answer)
      PROVE  UNCHANGED memory_vars
  BY <1>5 DEF Answer
<1>6. CASE \/ \E id \in 0 .. Len(stored) - 1 : GetDocumentFilename(id) \/ GetDocument(id)
           \/ GetDocumentFilenames
  BY <1>5, <1>6 DEF GetDocumentFilename, GetDocument, GetDocumentFilenames
<1>7. CASE UNCHANGED repository_vars
  BY <1>7 DEF repository_vars
<1>. QED
  BY <1>1, <1>2, <1>3, <1>4, <1>6, <1>7 DEF RepositoryNext

\* The names and the dictionary never get the same byte, and only bytes of the blocks.
THEOREM RepositoryApart == RepositorySpec => [](InBlocks /\ Apart)
<1>1. RepositoryInit => MemoryInit
  BY DEF RepositoryInit
<1>2. RepositorySpec => MemorySpec
  BY <1>1, StepUsesMemory, PTL DEF RepositorySpec, MemorySpec
<1>. QED
  BY <1>2, MemoryApart, PTL

-----------------------------------------------------------------------------
\* Cells in memory

Location(address, offset, i) == <<address.block, address.start + offset + i - 1>>

\* Some cells are at an offset from an address.
Holds(memory, address, offset, cells) ==
    \A i \in 1 .. Len(cells) :
        /\ Location(address, offset, i) \in DOMAIN memory
        /\ memory[Location(address, offset, i)] = cells[i]

LEMMA CopiedAt ==
  ASSUME NEW memory, NEW address \in Allocation, NEW offset \in Nat, NEW S, NEW cells \in Seq(S)
  PROVE  /\ Holds(Copied(memory, address, offset, cells), address, offset, cells)
         /\ \A place \in DOMAIN memory :
                (\A i \in 1 .. Len(cells) : place # Location(address, offset, i)) =>
                    /\ place \in DOMAIN Copied(memory, address, offset, cells)
                    /\ Copied(memory, address, offset, cells)[place] = memory[place]
<1>. DEFINE start == address.start + offset
            target == {<<address.block, start + i - 1>> : i \in DOMAIN cells}
            copied == Copied(memory, address, offset, cells)
<1>1. /\ address.start \in Nat /\ start \in Nat /\ DOMAIN cells = 1 .. Len(cells)
      /\ Len(cells) \in Nat
  BY DEF Allocation
<1>2. copied = [p \in DOMAIN memory \cup target |->
                    IF p \in target THEN cells[p[2] - start + 1] ELSE memory[p]]
  BY DEF Copied
<1>3. \A i \in 1 .. Len(cells) : Location(address, offset, i) = <<address.block, start + i - 1>>
  BY DEF Location
<1>4. ASSUME NEW i \in 1 .. Len(cells)
      PROVE  /\ Location(address, offset, i) \in DOMAIN copied
             /\ copied[Location(address, offset, i)] = cells[i]
  <2>1. Location(address, offset, i) \in target
    BY <1>1, <1>3
  <2>2. Location(address, offset, i)[2] - start + 1 = i
    BY <1>1, <1>3
  <2>. HIDE DEF copied, target, start
  <2>. QED BY <1>2, <2>1, <2>2
<1>5. ASSUME NEW place \in DOMAIN memory,
             \A i \in 1 .. Len(cells) : place # Location(address, offset, i)
      PROVE  place \in DOMAIN copied /\ copied[place] = memory[place]
  <2>1. place \notin target
    BY <1>1, <1>3, <1>5
  <2>. HIDE DEF copied, target, start
  <2>. QED BY <1>2, <2>1
<1>. QED BY <1>4, <1>5 DEF Holds

\* What is copied into one place that was granted leaves another alone.
LEMMA CopiedApart ==
  ASSUME NEW memory, NEW address \in Allocation, NEW offset \in Nat, NEW S, NEW cells \in Seq(S),
         offset + Len(cells) <= address.bytes,
         NEW other \in Allocation, ~Overlap(address, other),
         NEW o \in Nat, NEW T, NEW kept \in Seq(T), o + Len(kept) <= other.bytes,
         Holds(memory, other, o, kept)
  PROVE  Holds(Copied(memory, address, offset, cells), other, o, kept)
<1>1. ASSUME NEW i \in 1 .. Len(kept), NEW j \in 1 .. Len(cells)
      PROVE  Location(other, o, i) # Location(address, offset, j)
  <2>1. /\ address.start \in Nat /\ address.bytes \in Nat /\ other.start \in Nat /\ other.bytes \in Nat
        /\ i \in Nat /\ j \in Nat /\ Len(kept) \in Nat /\ Len(cells) \in Nat
    BY DEF Allocation
  <2>2. SUFFICES ASSUME address.block = other.block,
                        other.start + o + i - 1 = address.start + offset + j - 1
                 PROVE  FALSE
    BY DEF Location
  <2>3. /\ address.start < other.start + other.bytes
        /\ other.start < address.start + address.bytes
    <3>1. ASSUME NEW a \in Nat, NEW b \in Nat, NEW x \in Nat, NEW y \in Nat, NEW p \in Nat,
                 NEW q \in Nat, i <= p, j <= q, 1 <= i, 1 <= j, offset + q <= x, o + p <= y,
                 b + o + i - 1 = a + offset + j - 1
          PROVE  a < b + y /\ b < a + x
      BY <2>1, <3>1
    <3>2. 1 <= i /\ i <= Len(kept) /\ 1 <= j /\ j <= Len(cells)
      BY <2>1
    <3>. QED BY <2>1, <2>2, <3>1, <3>2
  <2>. QED BY <2>2, <2>3 DEF Overlap
<1>2. \A place \in DOMAIN memory :
        (\A i \in 1 .. Len(cells) : place # Location(address, offset, i)) =>
            /\ place \in DOMAIN Copied(memory, address, offset, cells)
            /\ Copied(memory, address, offset, cells)[place] = memory[place]
  BY CopiedAt
<1>. QED BY <1>1, <1>2 DEF Holds

\* What is copied into one place leaves what is beside it alone.
LEMMA CopiedBeside ==
  ASSUME NEW memory, NEW address \in Allocation, NEW offset \in Nat, NEW S, NEW cells \in Seq(S),
         NEW o \in Nat, NEW T, NEW kept \in Seq(T),
         o + Len(kept) <= offset \/ offset + Len(cells) <= o,
         Holds(memory, address, o, kept)
  PROVE  Holds(Copied(memory, address, offset, cells), address, o, kept)
<1>1. ASSUME NEW i \in 1 .. Len(kept), NEW j \in 1 .. Len(cells)
      PROVE  Location(address, o, i) # Location(address, offset, j)
  BY DEF Location, Allocation
<1>2. \A place \in DOMAIN memory :
        (\A i \in 1 .. Len(cells) : place # Location(address, offset, i)) =>
            /\ place \in DOMAIN Copied(memory, address, offset, cells)
            /\ Copied(memory, address, offset, cells)[place] = memory[place]
  BY CopiedAt
<1>. QED BY <1>1, <1>2 DEF Holds

\* Cells after cells.
LEMMA HoldsBoth ==
  ASSUME NEW memory, NEW address \in Allocation, NEW offset \in Nat, NEW S, NEW first \in Seq(S),
         NEW second \in Seq(S), Holds(memory, address, offset, first),
         Holds(memory, address, offset + Len(first), second)
  PROVE  Holds(memory, address, offset, first \o second)
<1>1. /\ Len(first) \in Nat /\ Len(second) \in Nat /\ Len(first \o second) = Len(first) + Len(second)
      /\ address.start \in Nat
  BY DEF Allocation
<1>2. ASSUME NEW i \in 1 .. Len(first \o second)
      PROVE  /\ Location(address, offset, i) \in DOMAIN memory
             /\ memory[Location(address, offset, i)] = (first \o second)[i]
  <2>1. CASE i <= Len(first)
    <3>1. i \in 1 .. Len(first) /\ (first \o second)[i] = first[i]
      BY <1>1, <2>1
    <3>. QED BY <3>1 DEF Holds
  <2>2. CASE i > Len(first)
    <3>1. /\ i - Len(first) \in 1 .. Len(second)
          /\ (first \o second)[i] = second[i - Len(first)]
      BY <1>1, <2>2
    <3>2. Location(address, offset + Len(first), i - Len(first)) = Location(address, offset, i)
      BY <1>1 DEF Location
    <3>. QED BY <3>1, <3>2 DEF Holds
  <2>. QED BY <1>1, <2>1, <2>2
<1>. QED BY <1>2 DEF Holds

-----------------------------------------------------------------------------
\* ANT_memory_index_filename_index

LEMMA IndexAddAppends ==
  ASSUME NEW chunks \in Seq(Seq(Nat)), NEW value \in Nat,
         \A i \in 1 .. Len(chunks) : Len(chunks[i]) \in 1 .. members_per_chunk
  PROVE  /\ IndexAdd(chunks, value) \in Seq(Seq(Nat))
         /\ \A i \in 1 .. Len(IndexAdd(chunks, value)) :
                Len(IndexAdd(chunks, value)[i]) \in 1 .. members_per_chunk
         /\ FlattenSeq(IndexAdd(chunks, value)) = Append(FlattenSeq(chunks), value)
<1>. DEFINE n == Len(chunks)
            more == IndexAdd(chunks, value)
<1>1. <<value>> \in Seq(Nat) /\ Len(<<value>>) = 1 /\ members_per_chunk \in Nat \ {0} /\ n \in Nat
  BY RepositoryAssumption
<1>2. FlattenSeq(chunks) \in Seq(Nat)
  BY <1>1, FlattenSteps
<1>3. Append(FlattenSeq(chunks), value) = FlattenSeq(chunks) \o <<value>>
  BY <1>2, AppendIsConcat
<1>4. CASE chunks = <<>> \/ Len(chunks[n]) >= members_per_chunk
  <2>1. more = Append(chunks, <<value>>)
    BY <1>4 DEF IndexAdd
  <2>2. more \in Seq(Seq(Nat)) /\ Len(more) = n + 1 /\ more[n + 1] = <<value>>
    BY <1>1, <2>1
  <2>3. \A i \in 1 .. n : more[i] = chunks[i]
    BY <1>1, <2>1
  <2>. HIDE DEF more
  <2>4. \A i \in 1 .. Len(more) : Len(more[i]) \in 1 .. members_per_chunk
    <3>. TAKE i \in 1 .. Len(more)
    <3>1. i = n + 1 \/ i \in 1 .. n
      BY <1>1, <2>2
    <3>2. 1 \in 1 .. members_per_chunk
      BY <1>1
    <3>. QED BY <1>1, <2>2, <2>3, <3>1, <3>2
  <2>5. FlattenSeq(more) = FlattenSeq(chunks) \o <<value>>
    BY <1>1, <2>1, FlattenSteps
  <2>. QED BY <1>3, <2>2, <2>4, <2>5 DEF more
<1>5. CASE ~(chunks = <<>> \/ Len(chunks[n]) >= members_per_chunk)
  <2>1. chunks # <<>> /\ n \in 1 .. n /\ chunks[n] \in Seq(Nat) /\ Len(chunks[n]) < members_per_chunk
        /\ Len(chunks[n]) \in Nat
    BY <1>1, <1>5
  <2>2. Append(chunks[n], value) = chunks[n] \o <<value>>
    BY <2>1, AppendIsConcat
  <2>3. more = LastExtended(chunks, <<value>>)
    BY <1>5, <2>1, <2>2 DEF IndexAdd, LastExtended
  <2>. HIDE DEF more
  <2>4. /\ more \in Seq(Seq(Nat)) /\ Len(more) = n /\ more[n] = chunks[n] \o <<value>>
        /\ \A i \in 1 .. n - 1 : more[i] = chunks[i]
        /\ FlattenSeq(more) = FlattenSeq(chunks) \o <<value>>
    BY <1>1, <2>1, <2>3, ExtendedIs, SMTT(30), ZenonT(30)
  <2>5. Len(more[n]) = Len(chunks[n]) + 1
    BY <1>1, <2>1, <2>4
  <2>6. \A i \in 1 .. Len(more) : Len(more[i]) \in 1 .. members_per_chunk
    <3>. TAKE i \in 1 .. Len(more)
    <3>1. i = n \/ i \in 1 .. n - 1
      BY <1>1, <2>4
    <3>2. Len(chunks[n]) + 1 \in 1 .. members_per_chunk
      BY <1>1, <2>1
    <3>3. \A j \in 1 .. n - 1 : Len(more[j]) \in 1 .. members_per_chunk
      <4>. TAKE j \in 1 .. n - 1
      <4>1. j \in 1 .. n
        BY <1>1
      <4>. QED BY <2>4, <4>1
    <3>. QED BY <2>5, <3>1, <3>2, <3>3
  <2>. QED BY <1>3, <2>4, <2>6 DEF more
<1>. QED BY <1>4, <1>5

\* The names as strings, and where each starts in all of them one after the other.
StringsOf(documents) == [i \in 1 .. Len(documents) |-> Append(documents[i].name, 0)]
Position(strings, i) == Len(FlattenSeq(SubSeq(strings, 1, i - 1)))
Positions(strings) == [i \in 1 .. Len(strings) |-> Position(strings, i)]

Document == [name : FileNames, text : Texts \cup {<<>>}]

LEMMA StringsAppend ==
  ASSUME NEW documents \in Seq(Document), NEW document \in Document
  PROVE  /\ StringsOf(documents) \in Seq(Seq(Nat)) /\ Len(StringsOf(documents)) = Len(documents)
         /\ Append(document.name, 0) \in Seq(Nat) /\ Len(document.name) \in Nat
         /\ Len(Append(document.name, 0)) = Len(document.name) + 1
         /\ StringsOf(Append(documents, document))
                = Append(StringsOf(documents), Append(document.name, 0))
<1>1. \A d \in Document : /\ d.name \in Seq(Nat) /\ Append(d.name, 0) \in Seq(Nat)
                          /\ Len(d.name) \in Nat /\ Len(Append(d.name, 0)) = Len(d.name) + 1
  <2>. TAKE d \in Document
  <2>1. d.name \in Seq(Nat \ {0})
    BY RepositoryAssumption DEF Document
  <2>2. d.name \in Seq(Nat) /\ 0 \in Nat
    BY <2>1
  <2>. QED BY <2>2
<1>. DEFINE strings == StringsOf(documents)
            n == Len(documents)
            all == Append(documents, document)
            string == Append(document.name, 0)
<1>2. \A i \in 1 .. n : documents[i] \in Document
  OBVIOUS
<1>3. strings \in Seq(Seq(Nat)) /\ Len(strings) = n /\ n \in Nat
  BY <1>1, <1>2 DEF StringsOf
<1>4. \A i \in 1 .. n : strings[i] = Append(documents[i].name, 0)
  BY DEF StringsOf
<1>5. all \in Seq(Document) /\ Len(all) = n + 1 /\ all[n + 1] = document
      /\ \A i \in 1 .. n : all[i] = documents[i]
  OBVIOUS
<1>6. Append(strings, string) = [i \in 1 .. n + 1 |-> IF i = n + 1 THEN string ELSE strings[i]]
  <2>1. string \in Seq(Nat)
    BY <1>1
  <2>. HIDE DEF strings, string
  <2>. QED BY <1>3, <2>1, AppendIs
<1>7. StringsOf(all) = [i \in 1 .. n + 1 |-> Append(all[i].name, 0)]
  BY <1>5 DEF StringsOf
<1>8. \A i \in 1 .. n + 1 : Append(all[i].name, 0) = IF i = n + 1 THEN string ELSE strings[i]
  <2>. TAKE i \in 1 .. n + 1
  <2>1. CASE i = n + 1
    BY <1>5, <2>1
  <2>2. CASE i # n + 1
    <3>1. i \in 1 .. n
      BY <1>3, <2>2
    <3>. QED BY <1>4, <1>5, <2>2, <3>1
  <2>. QED BY <2>1, <2>2
<1>9. StringsOf(all) = Append(strings, string)
  <2>. HIDE DEF strings, string, all
  <2>. QED BY <1>6, <1>7, <1>8
<1>. QED BY <1>1, <1>3, <1>9

\* Where the strings before start does not change when one is added, and it starts where the
\* last ended.
LEMMA PositionsAppend ==
  ASSUME NEW strings \in Seq(Seq(Nat)), NEW string \in Seq(Nat)
  PROVE  /\ Positions(Append(strings, string)) = Append(Positions(strings), Len(FlattenSeq(strings)))
         /\ Positions(strings) \in Seq(Nat)
         /\ Len(FlattenSeq(strings)) \in Nat
         /\ FlattenSeq(Append(strings, string)) = FlattenSeq(strings) \o string
         /\ Len(FlattenSeq(Append(strings, string))) = Len(FlattenSeq(strings)) + Len(string)
<1>. DEFINE n == Len(strings)
            all == Append(strings, string)
            size == Len(FlattenSeq(strings))
<1>1. all \in Seq(Seq(Nat)) /\ Len(all) = n + 1 /\ n \in Nat
  OBVIOUS
<1>2. FlattenSeq(strings) \in Seq(Nat) /\ FlattenSeq(all) = FlattenSeq(strings) \o string
      /\ Len(string) \in Nat
  BY FlattenSteps
<1>3. size \in Nat /\ Len(FlattenSeq(all)) = size + Len(string)
  BY <1>2
<1>4. \A i \in 1 .. n + 1 : SubSeq(all, 1, i - 1) = SubSeq(strings, 1, i - 1)
  BY <1>1
<1>5. \A i \in 1 .. n : Position(strings, i) \in Nat
  <2>. TAKE i \in 1 .. n
  <2>1. SubSeq(strings, 1, i - 1) \in Seq(Seq(Nat))
    BY <1>1
  <2>2. FlattenSeq(SubSeq(strings, 1, i - 1)) \in Seq(Nat)
    BY <1>2, <2>1, FlattenSteps
  <2>. QED BY <2>2 DEF Position
<1>6. Positions(strings) \in Seq(Nat) /\ Len(Positions(strings)) = n
  BY <1>1, <1>5 DEF Positions
<1>7. \A i \in 1 .. n : Positions(strings)[i] = Position(strings, i)
  BY DEF Positions
<1>8. Position(all, n + 1) = size
  <2>1. SubSeq(strings, 1, n) = strings
    BY <1>1
  <2>2. SubSeq(all, 1, (n + 1) - 1) = SubSeq(strings, 1, (n + 1) - 1) /\ (n + 1) - 1 = n
    BY <1>1, <1>4
  <2>. QED BY <2>1, <2>2 DEF Position
<1>9. \A i \in 1 .. n : Position(all, i) = Positions(strings)[i]
  <2>. TAKE i \in 1 .. n
  <2>1. i \in 1 .. n + 1
    BY <1>1
  <2>2. SubSeq(all, 1, i - 1) = SubSeq(strings, 1, i - 1)
    BY <1>4, <2>1
  <2>. HIDE DEF all
  <2>. QED BY <1>7, <2>2 DEF Position
<1>10. Positions(all) = [i \in 1 .. n + 1 |-> Position(all, i)]
  BY <1>1 DEF Positions
<1>11. /\ Append(Positions(strings), size) \in Seq(Nat)
       /\ Len(Append(Positions(strings), size)) = n + 1
       /\ Append(Positions(strings), size)[n + 1] = size
       /\ \A i \in 1 .. n : Append(Positions(strings), size)[i] = Positions(strings)[i]
  <2>. DEFINE before == Positions(strings)
  <2>1. before \in Seq(Nat) /\ Len(before) = n
    BY <1>6
  <2>. HIDE DEF before, n, size
  <2>2. /\ Append(before, size) \in Seq(Nat) /\ Len(Append(before, size)) = n + 1
        /\ Append(before, size)[n + 1] = size
        /\ \A i \in 1 .. n : Append(before, size)[i] = before[i]
    BY <1>1, <1>3, <2>1
  <2>. QED BY <2>2 DEF before
<1>12. /\ Positions(all) \in Seq(Nat) /\ Len(Positions(all)) = n + 1
       /\ \A i \in 1 .. n + 1 : Positions(all)[i] = Position(all, i)
  <2>1. \A i \in 1 .. n + 1 : Position(all, i) \in Nat
    <3>. TAKE i \in 1 .. n + 1
    <3>1. i = n + 1 \/ i \in 1 .. n
      BY <1>1
    <3>2. CASE i = n + 1
      <4>. HIDE DEF all, size
      <4>. QED BY <1>3, <1>8, <3>2
    <3>3. CASE i \in 1 .. n
      <4>1. Positions(strings)[i] \in Nat
        BY <1>5, <1>7, <3>3
      <4>. HIDE DEF all
      <4>. QED BY <1>9, <3>3, <4>1
    <3>. QED BY <3>1, <3>2, <3>3
  <2>. HIDE DEF all
  <2>. QED BY <1>1, <1>10, <2>1
<1>13. Positions(all) = Append(Positions(strings), size)
  <2>. DEFINE after == Positions(all)
              other == Append(Positions(strings), size)
  <2>1. ASSUME NEW i \in 1 .. Len(after) PROVE after[i] = other[i]
    <3>1. i \in 1 .. n + 1 /\ (i = n + 1 \/ i \in 1 .. n)
      BY <1>1, <1>12
    <3>. HIDE DEF all, size
    <3>. QED BY <1>8, <1>9, <1>11, <1>12, <3>1
  <2>2. after \in Seq(Nat) /\ other \in Seq(Nat) /\ Len(after) = n + 1 /\ Len(other) = n + 1
    BY <1>11, <1>12
  <2>. HIDE DEF after, other
  <2>3. Agree(after, other)
    BY <2>1, <2>2 DEF Agree
  <2>4. after = other
    BY <2>2, <2>3, SameLists
  <2>. QED BY <2>4 DEF after, other
<1>. QED BY <1>2, <1>3, <1>6, <1>13

-----------------------------------------------------------------------------
\* The chain of chunks

chunk_size == document_filenames_chunk_size

Previous(chain, i) == IF i = 1 THEN NULL ELSE chain[i - 1]
Newest(chain) == IF chain = <<>> THEN NULL ELSE chain[Len(chain)]
Upto(chain, upto, i) == IF i = Len(chain) THEN upto ELSE chunk_size

\* A chunk of the chain: the pointer to the one before, and a piece of the names.
IsChunk(chain, pieces, memory, upto, i) ==
    /\ chain[i].bytes = chunk_size
    /\ PointerSize + Len(pieces[i]) = Upto(chain, upto, i)
    /\ Holds(memory, chain[i], 0, <<Previous(chain, i)>>)
    /\ Holds(memory, chain[i], PointerSize, pieces[i])

Separate(got) == \A a, b \in got : a # b => ~Overlap(a, b)
Distinct(chain) == \A i, j \in 1 .. Len(chain) : i # j => chain[i] # chain[j]

\* Some addresses, of what was got, are the chain of chunks and hold the pieces, in the
\* newest of them up to an offset.
IsChain(chain, pieces, memory, got, upto) ==
    /\ got \subseteq Allocation /\ Separate(got)
    /\ chain \in Seq(got) /\ pieces \in Seq(Seq(Nat)) /\ Len(pieces) = Len(chain)
    /\ upto \in PointerSize .. chunk_size
    /\ chain = <<>> => upto = chunk_size
    /\ Distinct(chain)
    /\ \A i \in 1 .. Len(chain) : IsChunk(chain, pieces, memory, upto, i)

\* What malloc() returns, given what it returned before.
IsNew(address, bytes, got) ==
    /\ address \in Allocation /\ address.bytes = bytes /\ address.block # 0
    /\ \A a \in got : ~Overlap(address, a) /\ ~Overlap(a, address)

LEMMA ChunkSizes ==
  /\ chunk_size \in Nat /\ PointerSize \in Nat \ {0} /\ PointerSize < chunk_size
  /\ Requests \subseteq Nat /\ chunk_size \in Requests
  BY RepositoryAssumption, MemoryAssumption DEF chunk_size

\* A chunk is left alone by what is written in another place, and by more chunks.
LEMMA ChunkStays ==
  ASSUME NEW chain, NEW pieces, NEW memory, NEW upto \in Nat, NEW i \in Nat,
         chain[i] \in Allocation, pieces[i] \in Seq(Nat), Upto(chain, upto, i) <= chunk_size,
         IsChunk(chain, pieces, memory, upto, i),
         NEW address \in Allocation, ~Overlap(address, chain[i]),
         NEW offset \in Nat, NEW S, NEW cells \in Seq(S), offset + Len(cells) <= address.bytes
  PROVE  IsChunk(chain, pieces, Copied(memory, address, offset, cells), upto, i)
<1>. DEFINE pointer == <<Previous(chain, i)>>
            T == {Previous(chain, i)}
<1>1. pointer \in Seq(T) /\ Len(pointer) = 1
  OBVIOUS
<1>2. chain[i].bytes = chunk_size /\ Holds(memory, chain[i], 0, pointer)
      /\ Holds(memory, chain[i], PointerSize, pieces[i])
      /\ PointerSize + Len(pieces[i]) <= chunk_size /\ 0 + Len(pointer) <= chunk_size
  BY <1>1, ChunkSizes DEF IsChunk
<1>. HIDE DEF pointer
<1>3. Holds(Copied(memory, address, offset, cells), chain[i], 0, pointer)
  BY <1>1, <1>2, CopiedApart
<1>4. Holds(Copied(memory, address, offset, cells), chain[i], PointerSize, pieces[i])
  BY <1>2, ChunkSizes, CopiedApart
<1>. QED BY <1>3, <1>4 DEF IsChunk, pointer

\* Where every chunk is, and how far it is filled.
LEMMA ChainTypes ==
  ASSUME NEW chain, NEW pieces, NEW memory, NEW got, NEW upto,
         IsChain(chain, pieces, memory, got, upto)
  PROVE  /\ Len(chain) \in Nat /\ Len(pieces) = Len(chain) /\ upto \in Nat /\ upto <= chunk_size
         /\ PointerSize <= upto
         /\ \A i \in 1 .. Len(chain) :
                /\ chain[i] \in got /\ chain[i] \in Allocation /\ pieces[i] \in Seq(Nat)
                /\ Upto(chain, upto, i) <= chunk_size
                /\ IsChunk(chain, pieces, memory, upto, i)
  BY ChunkSizes DEF IsChain, Upto

\* Another user of the memory gets some and fills it.
LEMMA ChainStays ==
  ASSUME NEW chain, NEW pieces, NEW memory, NEW got, NEW upto,
         IsChain(chain, pieces, memory, got, upto),
         NEW bytes \in Nat, NEW address, IsNew(address, bytes, got),
         NEW S, NEW cells \in Seq(S), Len(cells) <= bytes
  PROVE  IsChain(chain, pieces, Copied(memory, address, 0, cells), got \cup {address}, upto)
<1>. DEFINE all == got \cup {address}
<1>1. address \in Allocation /\ address.bytes = bytes
      /\ \A a \in got : ~Overlap(address, a) /\ ~Overlap(a, address)
  BY DEF IsNew
<1>2. got \subseteq Allocation /\ Separate(got) /\ chain \in Seq(got)
  BY DEF IsChain
<1>3. all \subseteq Allocation /\ Separate(all)
  BY <1>1, <1>2, GrantedApart DEF Separate
<1>4. chain \in Seq(all)
  BY <1>2
<1>5. ASSUME NEW i \in 1 .. Len(chain)
      PROVE  IsChunk(chain, pieces, Copied(memory, address, 0, cells), upto, i)
  <2>1. /\ chain[i] \in got /\ chain[i] \in Allocation /\ pieces[i] \in Seq(Nat)
        /\ Upto(chain, upto, i) <= chunk_size /\ upto \in Nat /\ i \in Nat
        /\ IsChunk(chain, pieces, memory, upto, i)
    BY ChainTypes
  <2>2. ~Overlap(address, chain[i]) /\ 0 \in Nat /\ 0 + Len(cells) <= address.bytes
    BY <1>1, <2>1
  <2>. QED BY <1>1, <2>1, <2>2, ChunkStays
<1>. HIDE DEF all
<1>6. IsChain(chain, pieces, Copied(memory, address, 0, cells), all, upto)
  BY <1>3, <1>4, <1>5 DEF IsChain
<1>. QED BY <1>6 DEF all

\* A part of a name goes on in the newest chunk.
LEMMA ChainFills ==
  ASSUME NEW chain, NEW pieces, NEW memory, NEW got, NEW upto,
         IsChain(chain, pieces, memory, got, upto), chain # <<>>,
         NEW x \in Seq(Nat), upto + Len(x) <= chunk_size
  PROVE  IsChain(chain, LastExtended(pieces, x), Copied(memory, Newest(chain), upto, x), got,
                 upto + Len(x))
<1>. DEFINE n == Len(chain)
            newest == chain[n]
            more == Copied(memory, newest, upto, x)
            longer == LastExtended(pieces, x)
            after == upto + Len(x)
            piece == pieces[n]
<1>1. /\ got \subseteq Allocation /\ Separate(got) /\ chain \in Seq(got) /\ Distinct(chain)
      /\ pieces \in Seq(Seq(Nat)) /\ Len(pieces) = n /\ n \in Nat \ {0} /\ n \in 1 .. n
      /\ pieces # <<>>
  BY DEF IsChain
<1>2. /\ newest \in got /\ newest \in Allocation /\ piece \in Seq(Nat)
      /\ IsChunk(chain, pieces, memory, upto, n)
      /\ upto \in Nat /\ PointerSize <= upto /\ Len(x) \in Nat /\ after \in Nat
  BY <1>1, ChainTypes
<1>3. /\ longer \in Seq(Seq(Nat)) /\ Len(longer) = n /\ longer[n] = piece \o x
      /\ \A i \in 1 .. n - 1 : longer[i] = pieces[i]
  <2>1. pieces \in Seq(Seq(Nat)) /\ pieces # <<>> /\ x \in Seq(Nat)
    BY <1>1
  <2>. HIDE DEF n, longer
  <2>2. /\ LastExtended(pieces, x) \in Seq(Seq(Nat))
        /\ Len(LastExtended(pieces, x)) = Len(pieces)
        /\ LastExtended(pieces, x)[Len(pieces)] = pieces[Len(pieces)] \o x
        /\ \A i \in 1 .. Len(pieces) - 1 : LastExtended(pieces, x)[i] = pieces[i]
    BY <2>1, ExtendedIs, SMTT(30), ZenonT(30)
  <2>. QED BY <1>1, <2>2 DEF longer
<1>4. newest.bytes = chunk_size /\ PointerSize + Len(piece) = upto /\ Len(piece) \in Nat
  BY <1>2 DEF IsChunk, Upto
<1>5. ASSUME NEW i \in 1 .. n, i # n
      PROVE  IsChunk(chain, longer, more, after, i)
  <2>1. /\ chain[i] \in got /\ chain[i] \in Allocation /\ pieces[i] \in Seq(Nat)
        /\ Upto(chain, upto, i) <= chunk_size /\ i \in Nat
        /\ IsChunk(chain, pieces, memory, upto, i)
    BY ChainTypes
  <2>2. chain[n] # chain[i]
    BY <1>1, <1>5 DEF Distinct
  <2>3. ~Overlap(newest, chain[i]) /\ upto + Len(x) <= newest.bytes
    BY <1>1, <1>2, <1>4, <2>1, <2>2 DEF Separate
  <2>. HIDE DEF newest
  <2>4. IsChunk(chain, pieces, more, upto, i)
    BY <1>2, <2>1, <2>3, ChunkStays
  <2>5. i \in 1 .. n - 1
    BY <1>1, <1>5
  <2>6. longer[i] = pieces[i] /\ Upto(chain, after, i) = Upto(chain, upto, i)
    BY <1>3, <1>5, <2>5 DEF Upto
  <2>. HIDE DEF more, longer, after
  <2>. QED BY <2>4, <2>6 DEF IsChunk
<1>6. IsChunk(chain, longer, more, after, n)
  <2>. DEFINE pointer == <<Previous(chain, n)>>
              T == {Previous(chain, n)}
  <2>1. pointer \in Seq(T) /\ Len(pointer) = 1 /\ Holds(memory, newest, 0, pointer)
        /\ Holds(memory, newest, PointerSize, piece)
    BY <1>2 DEF IsChunk
  <2>2. PointerSize \in Nat /\ 0 \in Nat /\ 0 + 1 <= upto
    BY <1>2, ChunkSizes
  <2>. HIDE DEF pointer, newest, piece
  <2>3. 0 + Len(pointer) <= upto /\ PointerSize + Len(piece) <= upto
    BY <1>2, <1>4, <2>1, <2>2
  <2>4. Holds(more, newest, 0, pointer)
    BY <1>2, <2>1, <2>2, <2>3, CopiedBeside
  <2>5. Holds(more, newest, PointerSize, piece)
    BY <1>2, <2>1, <2>2, <2>3, CopiedBeside
  <2>6. Holds(more, newest, PointerSize + Len(piece), x)
    BY <1>2, <1>4, CopiedAt
  <2>. HIDE DEF more
  <2>7. Holds(more, newest, PointerSize, piece \o x)
    BY <1>2, <2>2, <2>5, <2>6, HoldsBoth
  <2>8. PointerSize + Len(piece \o x) = after
    <3>1. Len(piece \o x) = Len(piece) + Len(x)
      BY <1>2
    <3>2. \A a, b, c \in Nat : a + (b + c) = (a + b) + c
      OBVIOUS
    <3>3. PointerSize + (Len(piece) + Len(x)) = (PointerSize + Len(piece)) + Len(x)
      BY <1>2, <1>4, <2>2, <3>2
    <3>. QED BY <1>4, <3>1, <3>3
  <2>. HIDE DEF longer, after
  <2>9. Upto(chain, after, n) = after
    BY DEF Upto
  <2>. QED BY <1>3, <1>4, <2>4, <2>7, <2>8, <2>9 DEF IsChunk, pointer, newest
<1>7. after \in PointerSize .. chunk_size
  BY <1>2, ChunkSizes
<1>8. Newest(chain) = newest
  BY <1>1 DEF Newest
<1>. HIDE DEF more, longer, after
<1>9. IsChain(chain, longer, more, got, after)
  BY <1>1, <1>3, <1>5, <1>6, <1>7 DEF IsChain
<1>. QED BY <1>8, <1>9 DEF more, longer, after

\* The rest of a name, or all of the first, goes to a new chunk.
LEMMA ChainGrows ==
  ASSUME NEW chain, NEW pieces, NEW memory, NEW got, IsChain(chain, pieces, memory, got, chunk_size),
         NEW address, IsNew(address, chunk_size, got),
         NEW rest \in Seq(Nat), PointerSize + Len(rest) <= chunk_size
  PROVE  IsChain(Append(chain, address), Append(pieces, rest),
                 Copied(Copied(memory, address, 0, <<Newest(chain)>>), address, PointerSize, rest),
                 got \cup {address}, PointerSize + Len(rest))
<1>. DEFINE n == Len(chain)
            pointer == <<Newest(chain)>>
            T == {Newest(chain)}
            linked == Copied(memory, address, 0, pointer)
            more == Copied(linked, address, PointerSize, rest)
            chain2 == Append(chain, address)
            pieces2 == Append(pieces, rest)
            after == PointerSize + Len(rest)
            all == got \cup {address}
<1>1. /\ got \subseteq Allocation /\ Separate(got) /\ chain \in Seq(got) /\ Distinct(chain)
      /\ pieces \in Seq(Seq(Nat)) /\ Len(pieces) = n /\ n \in Nat
  BY DEF IsChain
<1>2. /\ address \in Allocation /\ address.bytes = chunk_size
      /\ \A a \in got : ~Overlap(address, a) /\ ~Overlap(a, address)
  BY DEF IsNew
<1>3. pointer \in Seq(T) /\ Len(pointer) = 1
  OBVIOUS
<1>4. /\ Len(rest) \in Nat /\ PointerSize \in Nat /\ after \in Nat /\ chunk_size \in Nat
      /\ after \in PointerSize .. chunk_size /\ 1 <= PointerSize /\ 0 \in Nat
      /\ 1 <= chunk_size
  BY ChunkSizes
<1>5. all \subseteq Allocation /\ Separate(all)
  BY <1>1, <1>2, GrantedApart DEF Separate
<1>6. /\ chain2 \in Seq(all) /\ Len(chain2) = n + 1 /\ chain2[n + 1] = address
      /\ \A i \in 1 .. n : chain2[i] = chain[i]
  <2>1. chain \in Seq(all) /\ address \in all
    BY <1>1
  <2>. HIDE DEF all
  <2>. QED BY <1>1, <2>1
<1>7. /\ pieces2 \in Seq(Seq(Nat)) /\ Len(pieces2) = n + 1 /\ pieces2[n + 1] = rest
      /\ \A i \in 1 .. n : pieces2[i] = pieces[i]
  BY <1>1
<1>8. address \notin got
  <2>1. Overlap(address, address)
    BY <1>2, <1>4 DEF Overlap, Allocation
  <2>. QED BY <1>2, <2>1
<1>9. Distinct(chain2)
  <2>. SUFFICES ASSUME NEW i \in 1 .. n + 1, NEW j \in 1 .. n + 1, i # j
                PROVE  chain2[i] # chain2[j]
    BY <1>6 DEF Distinct
  <2>1. \A k \in 1 .. n : chain[k] \in got
    BY <1>1
  <2>2. (i = n + 1 \/ i \in 1 .. n) /\ (j = n + 1 \/ j \in 1 .. n)
    BY <1>1
  <2>. HIDE DEF chain2, n
  <2>. QED BY <1>1, <1>6, <1>8, <2>1, <2>2 DEF Distinct, n
<1>10. ASSUME NEW i \in 1 .. n
       PROVE  IsChunk(chain2, pieces2, more, after, i)
  <2>1. /\ chain[i] \in got /\ chain[i] \in Allocation /\ pieces[i] \in Seq(Nat)
        /\ Upto(chain, chunk_size, i) <= chunk_size /\ i \in Nat
        /\ IsChunk(chain, pieces, memory, chunk_size, i)
    BY ChainTypes
  <2>2. ~Overlap(address, chain[i]) /\ 0 + Len(pointer) <= address.bytes
        /\ PointerSize + Len(rest) <= address.bytes
    BY <1>2, <1>3, <1>4, <2>1
  <2>. HIDE DEF pointer, T, n
  <2>3. IsChunk(chain, pieces, linked, chunk_size, i)
    BY <1>2, <1>3, <1>4, <2>1, <2>2, ChunkStays
  <2>. HIDE DEF linked
  <2>4. IsChunk(chain, pieces, more, chunk_size, i)
    BY <1>2, <1>4, <2>1, <2>2, <2>3, ChunkStays
  <2>5. chain2[i] = chain[i] /\ pieces2[i] = pieces[i]
    BY <1>6, <1>7
  <2>6. Upto(chain2, after, i) = chunk_size /\ Upto(chain, chunk_size, i) = chunk_size
    BY <1>1, <1>6, <1>10 DEF Upto, n
  <2>7. Previous(chain2, i) = Previous(chain, i)
    <3>1. i = 1 \/ i - 1 \in 1 .. n
      BY <1>1, <1>10 DEF n
    <3>. HIDE DEF chain2
    <3>. QED BY <1>6, <3>1 DEF Previous
  <2>. HIDE DEF more, chain2, pieces2, after
  <2>. QED BY <2>4, <2>5, <2>6, <2>7 DEF IsChunk
<1>11. IsChunk(chain2, pieces2, more, after, n + 1)
  <2>1. Previous(chain2, n + 1) = Newest(chain)
    <3>1. CASE chain = <<>>
      BY <3>1 DEF Previous, Newest
    <3>2. CASE chain # <<>>
      <4>1. n \in 1 .. n /\ n + 1 # 1 /\ (n + 1) - 1 = n
        BY <1>1, <3>2
      <4>. HIDE DEF chain2
      <4>. QED BY <1>6, <3>2, <4>1 DEF Previous, Newest
    <3>. QED BY <3>1, <3>2
  <2>. HIDE DEF pointer, T, n
  <2>2. Holds(linked, address, 0, pointer)
    BY <1>2, <1>3, <1>4, CopiedAt
  <2>. HIDE DEF linked
  <2>3. 0 + Len(pointer) <= PointerSize
    BY <1>3, <1>4
  <2>4. Holds(more, address, 0, pointer)
    BY <1>2, <1>3, <1>4, <2>2, <2>3, CopiedBeside
  <2>5. Holds(more, address, PointerSize, rest)
    BY <1>2, <1>4, CopiedAt
  <2>6. Upto(chain2, after, n + 1) = after
    BY <1>6 DEF Upto
  <2>. HIDE DEF more, chain2, pieces2
  <2>. QED BY <1>2, <1>6, <1>7, <2>1, <2>4, <2>5, <2>6 DEF IsChunk, pointer
<1>12. \A i \in 1 .. n + 1 : IsChunk(chain2, pieces2, more, after, i)
  <2>. TAKE i \in 1 .. n + 1
  <2>1. i = n + 1 \/ i \in 1 .. n
    BY <1>1
  <2>. HIDE DEF more, chain2, pieces2, after, n
  <2>. QED BY <1>10, <1>11, <2>1
<1>13. chain2 # <<>>
  <2>1. Len(chain2) # 0
    BY <1>1, <1>6
  <2>. HIDE DEF chain2
  <2>. QED BY <2>1
<1>. HIDE DEF more, chain2, pieces2, all
<1>14. IsChain(chain2, pieces2, more, all, after)
  BY <1>4, <1>5, <1>6, <1>7, <1>9, <1>12, <1>13 DEF IsChain
<1>. QED BY <1>14 DEF more, chain2, pieces2, all, linked, pointer

-----------------------------------------------------------------------------
\* Reading the chain

Chunks(chain, depth) == IF depth < Len(chain) THEN chain[Len(chain) - depth] ELSE NULL

\* The chunk at a depth, given the one before.
NextChunk(source, depth) ==
    IF depth = 0 THEN document_filenames
    ELSE IF source[depth - 1] = NULL THEN NULL
    ELSE content[<<source[depth - 1].block, source[depth - 1].start>>]

IsSource(source, n) == source = [depth \in 0 .. n |-> NextChunk(source, depth)]

LEMMA SourceAt ==
  ASSUME NEW n, NEW source, IsSource(source, n)
  PROVE  \A depth \in 0 .. n : source[depth] = NextChunk(source, depth)
<1>. DEFINE g == [depth \in 0 .. n |-> NextChunk(source, depth)]
<1>1. source = g
  BY DEF IsSource
<1>2. \A depth \in 0 .. n : g[depth] = NextChunk(source, depth)
  OBVIOUS
<1>. HIDE DEF g
<1>. QED BY <1>1, <1>2

\* The addresses of the chain are those of blocks.
Real(got) == \A a \in got : a.block # 0

LEMMA ChainLinked ==
  ASSUME NEW chain, NEW pieces, IsChain(chain, pieces, content, granted, document_filenames_used),
         document_filenames = Newest(chain), Real(granted),
         NEW depth \in Nat, NEW source, depth # 0 => source[depth - 1] = Chunks(chain, depth - 1)
  PROVE  NextChunk(source, depth) = Chunks(chain, depth)
<1>1. /\ Len(chain) \in Nat /\ (chain = <<>> <=> Len(chain) = 0)
      /\ \A i \in 1 .. Len(chain) : chain[i] \in granted /\ chain[i] # NULL
  <2>1. Len(chain) \in Nat /\ \A i \in 1 .. Len(chain) : chain[i] \in granted
    BY ChainTypes
  <2>2. \A a \in granted : a # NULL
    BY DEF Real, NULL
  <2>3. chain = <<>> <=> Len(chain) = 0
    BY DEF IsChain
  <2>. QED BY <2>1, <2>2, <2>3
<1>2. CASE depth = 0
  BY <1>1, <1>2 DEF NextChunk, Chunks, Newest
<1>3. CASE depth # 0 /\ depth - 1 >= Len(chain)
  <2>1. ~(depth - 1 < Len(chain)) /\ ~(depth < Len(chain))
    BY <1>1, <1>3
  <2>. QED BY <1>3, <2>1 DEF NextChunk, Chunks
<1>4. CASE depth # 0 /\ depth - 1 < Len(chain)
  <2>. DEFINE i == Len(chain) - (depth - 1)
  <2>1. i \in 1 .. Len(chain) /\ i \in Nat /\ (i = 1 <=> ~(depth < Len(chain)))
        /\ i - 1 = Len(chain) - depth
    BY <1>1, <1>4
  <2>2. source[depth - 1] = chain[i]
    BY <1>4 DEF Chunks
  <2>3. IsChunk(chain, pieces, content, document_filenames_used, i) /\ chain[i] \in Allocation
    BY <2>1, ChainTypes
  <2>. HIDE DEF i
  <2>4. content[Location(chain[i], 0, 1)] = Previous(chain, i)
    BY <2>3 DEF IsChunk, Holds
  <2>5. Location(chain[i], 0, 1) = <<chain[i].block, chain[i].start>>
    BY <2>3 DEF Location, Allocation
  <2>6. NextChunk(source, depth) = Previous(chain, i)
    BY <1>1, <1>4, <2>1, <2>2, <2>4, <2>5 DEF NextChunk
  <2>7. Previous(chain, i) = Chunks(chain, depth)
    BY <2>1 DEF Previous, Chunks
  <2>. QED BY <2>6, <2>7
<1>. QED BY <1>1, <1>2, <1>3, <1>4

ChosenSource(n) == CHOOSE source : IsSource(source, n)

LEMMA SourceIs ==
  ASSUME NEW chain, NEW pieces, IsChain(chain, pieces, content, granted, document_filenames_used),
         document_filenames = Newest(chain), Real(granted), NEW n \in Nat
  PROVE  \A depth \in 0 .. n : ChosenSource(n)[depth] = Chunks(chain, depth)
<1>. DEFINE chosen == ChosenSource(n)
            g == [depth \in 0 .. n |-> Chunks(chain, depth)]
            T == {depth \in Nat : depth <= n => chosen[depth] = Chunks(chain, depth)}
<1>1. IsSource(g, n)
  <2>1. ASSUME NEW depth \in 0 .. n PROVE NextChunk(g, depth) = Chunks(chain, depth)
    <3>1. depth # 0 => depth - 1 \in 0 .. n
      OBVIOUS
    <3>2. \A k \in 0 .. n : g[k] = Chunks(chain, k)
      OBVIOUS
    <3>. HIDE DEF g
    <3>3. depth \in Nat /\ (depth # 0 => g[depth - 1] = Chunks(chain, depth - 1))
      BY <3>1, <3>2
    <3>. QED BY <3>3, ChainLinked
  <2>. QED BY <2>1 DEF IsSource
<1>2. IsSource(chosen, n)
  BY <1>1 DEF ChosenSource
<1>. HIDE DEF chosen, g
<1>3. \A depth \in 0 .. n : chosen[depth] = NextChunk(chosen, depth)
  BY <1>2, SourceAt
<1>4. 0 \in T
  <2>1. NextChunk(chosen, 0) = Chunks(chain, 0)
    BY ChainLinked
  <2>. QED BY <1>3, <2>1
<1>5. ASSUME NEW k \in Nat, k \in T PROVE k + 1 \in T
  <2>1. k + 1 \in Nat /\ (k + 1) - 1 = k
    OBVIOUS
  <2>. SUFFICES ASSUME k + 1 <= n PROVE chosen[k + 1] = Chunks(chain, k + 1)
    BY <2>1
  <2>2. chosen[(k + 1) - 1] = Chunks(chain, (k + 1) - 1)
    BY <1>5, <2>1
  <2>3. NextChunk(chosen, k + 1) = Chunks(chain, k + 1)
    BY <2>1, <2>2, ChainLinked
  <2>. QED BY <1>3, <2>1, <2>3
<1>. HIDE DEF T
<1>6. Nat \subseteq T
  BY <1>4, <1>5, Induction
<1>. QED BY <1>6 DEF T, chosen

\* What serialise_filenames() writes are the pieces in the chunks.
LEMMA CollectedArePieces ==
  ASSUME NEW chain, NEW pieces, IsChain(chain, pieces, content, granted, document_filenames_used),
         document_filenames = Newest(chain), Real(granted),
         Len(stored) \in Nat, Len(chain) <= Len(stored)
  PROVE  CollectedNames = FlattenSeq(pieces)
<1>. DEFINE N == Len(stored)
            L == Len(chain)
            source == ChosenSource(N)
            UsedAt(depth) == IF depth = 0 THEN document_filenames_used
                             ELSE document_filenames_chunk_size
            n == Cardinality({depth \in 0 .. N : source[depth] # NULL})
            Piece(k, i) == CellsOf(source[k - i], UsedAt(k - i) - PointerSize)
<1>1. CollectedNames = FlattenSeq([i \in 1 .. n |-> Piece(n, i)])
  BY DEF CollectedNames, ChosenSource, IsSource, NextChunk
<1>. HIDE DEF source
<1>2. \A depth \in 0 .. N : source[depth] = Chunks(chain, depth)
  BY SourceIs DEF source
<1>3. /\ L \in Nat /\ L <= N /\ Len(pieces) = L /\ pieces \in Seq(Seq(Nat))
      /\ \A i \in 1 .. L : /\ chain[i] \in granted /\ chain[i] \in Allocation
                           /\ pieces[i] \in Seq(Nat)
                           /\ IsChunk(chain, pieces, content, document_filenames_used, i)
  BY ChainTypes DEF IsChain
<1>4. n = L
  <2>1. \A i \in 1 .. L : chain[i] # NULL
    BY <1>3 DEF Real, NULL
  <2>2. \A depth \in 0 .. N : source[depth] # NULL <=> depth < L
    <3>. TAKE depth \in 0 .. N
    <3>1. CASE depth < L
      <4>1. L - depth \in 1 .. L
        BY <1>3, <3>1
      <4>. QED BY <1>2, <2>1, <3>1, <4>1 DEF Chunks
    <3>2. CASE ~(depth < L)
      BY <1>2, <3>2 DEF Chunks
    <3>. QED BY <3>1, <3>2
  <2>3. {depth \in 0 .. N : source[depth] # NULL} = 0 .. L - 1
    BY <1>3, <2>2
  <2>4. Cardinality(0 .. L - 1) = L
    <3>. HIDE DEF L
    <3>1. 0 \in Int /\ L - 1 \in Int /\ (0 > L - 1 <=> L = 0) /\ (L - 1) - 0 + 1 = L
      BY <1>3
    <3>. QED BY <3>1, FS_Interval
  <2>. QED BY <2>3, <2>4
<1>5. ASSUME NEW i \in 1 .. L PROVE Piece(L, i) = pieces[i]
  <2>1. L - i \in 0 .. N /\ L - i < L /\ L - (L - i) = i /\ (L - i = 0 <=> i = L)
    BY <1>3
  <2>2. source[L - i] = chain[i]
    BY <1>2, <2>1 DEF Chunks
  <2>3. Len(pieces[i]) \in Nat /\ pieces[i] = [j \in 1 .. Len(pieces[i]) |-> pieces[i][j]]
    BY <1>3
  <2>4. PointerSize + Len(pieces[i]) = Upto(chain, document_filenames_used, i)
    BY <1>3 DEF IsChunk
  <2>5. UsedAt(L - i) = Upto(chain, document_filenames_used, i)
    BY <2>1 DEF Upto, chunk_size
  <2>6. UsedAt(L - i) - PointerSize = Len(pieces[i])
    <3>. HIDE DEF UsedAt
    <3>. QED BY <2>3, <2>4, <2>5, ChunkSizes
  <2>7. \A j \in 1 .. Len(pieces[i]) :
            content[<<chain[i].block, chain[i].start + PointerSize + j - 1>>] = pieces[i][j]
    BY <1>3 DEF IsChunk, Holds, Location
  <2>8. CellsOf(chain[i], Len(pieces[i])) = [j \in 1 .. Len(pieces[i]) |-> pieces[i][j]]
    BY <2>7 DEF CellsOf
  <2>. HIDE DEF UsedAt
  <2>. QED BY <2>2, <2>3, <2>6, <2>8
<1>6. [i \in 1 .. L |-> Piece(L, i)] = pieces
  <2>1. pieces = [i \in 1 .. L |-> pieces[i]]
    BY <1>3
  <2>. HIDE DEF Piece, L
  <2>. QED BY <1>5, <2>1
<1>. HIDE DEF n, Piece, L
<1>. QED BY <1>1, <1>4, <1>6

-----------------------------------------------------------------------------
\* The inductive invariant of the names

\* The chunks hold the names, in order.
Chained ==
    \E chain, pieces :
        /\ IsChain(chain, pieces, content, granted, document_filenames_used)
        /\ document_filenames = Newest(chain)
        /\ Len(chain) <= Len(stored)
        /\ FlattenSeq(pieces) = FlattenSeq(StringsOf(stored))

\* The index holds where each name starts.
Indexed ==
    /\ chunk \in Seq(Seq(Nat))
    /\ \A i \in 1 .. Len(chunk) : Len(chunk[i]) \in 1 .. members_per_chunk
    /\ FlattenSeq(chunk) = Positions(StringsOf(stored))
    /\ document_filename_bytes_used = Len(FlattenSeq(StringsOf(stored)))

NamesInv ==
    /\ IInv
    /\ stored \in Seq(Document)
    /\ Chained
    /\ Indexed

LEMMA BlocksAreReal == IInv => Real(granted)
  BY DEF IInv, InBlocks, MemoryTypes, Real

LEMMA MallocIsNew ==
  ASSUME IInv, NEW bytes \in Nat, Malloc(bytes)
  PROVE  IsNew(ans', bytes, granted) /\ granted' = granted \cup {ans'}
<1>1. /\ blocks \in Seq(Nat) /\ at \in Nat /\ granted \subseteq Allocation
      /\ \A a \in granted : a.block \in 1 .. Len(blocks)
      /\ HeaderSize \in Nat /\ Len(blocks) \in Nat
  BY MemoryAssumption DEF IInv, MemoryTypes, InBlocks
<1>2. CASE MallocHere(bytes)
  <2>1. /\ ans' = [block |-> Len(blocks), start |-> at, bytes |-> bytes] /\ blocks # <<>>
        /\ granted' = granted \cup {ans'}
    BY <1>2 DEF MallocHere, Fits
  <2>2. ans' \in Allocation /\ ans'.block # 0 /\ ans'.bytes = bytes
    BY <1>1, <2>1 DEF Allocation
  <2>3. \A a \in granted : a.block = Len(blocks) => a.start + a.bytes <= at
    BY DEF IInv, Frontier
  <2>4. \A a \in granted : ~Overlap(ans', a) /\ ~Overlap(a, ans')
    BY <1>1, <2>1, <2>3 DEF Overlap, Allocation
  <2>. QED BY <2>1, <2>2, <2>4 DEF IsNew
<1>3. CASE MallocBlock(bytes)
  <2>1. /\ ans' = [block |-> Len(blocks'), start |-> HeaderSize, bytes |-> bytes]
        /\ granted' = granted \cup {ans'}
        /\ blocks' = Append(blocks, Larger(block_size, bytes) + HeaderSize)
    BY <1>3 DEF MallocBlock
  <2>2. Larger(block_size, bytes) + HeaderSize \in Nat
    BY <1>1 DEF IInv, MemoryTypes, Larger
  <2>3. Len(blocks') = Len(blocks) + 1
    BY <1>1, <2>1, <2>2
  <2>4. ans' \in Allocation /\ ans'.block = Len(blocks) + 1 /\ ans'.bytes = bytes /\ ans'.block # 0
    BY <1>1, <2>1, <2>3 DEF Allocation
  <2>5. \A a \in granted : ~Overlap(ans', a) /\ ~Overlap(a, ans')
    BY <1>1, <2>4 DEF Overlap
  <2>. QED BY <2>1, <2>4, <2>5 DEF IsNew
<1>. QED BY <1>2, <1>3 DEF Malloc

LEMMA InitNames == RepositoryInit => NamesInv
<1>. SUFFICES ASSUME RepositoryInit PROVE NamesInv
  OBVIOUS
<1>1. /\ granted = {} /\ document_filenames = NULL /\ stored = <<>> /\ chunk = <<>>
      /\ document_filenames_used = chunk_size /\ document_filename_bytes_used = 0
  BY DEF RepositoryInit, MemoryInit, chunk_size
<1>2. IInv
  BY InitIInv DEF RepositoryInit
<1>3. stored \in Seq(Document) /\ StringsOf(stored) = <<>> /\ Positions(<<>>) = <<>>
  BY <1>1 DEF StringsOf, Positions
<1>4. FlattenSeq(<<>>) = <<>>
  <2>1. <<>> \in Seq(Seq(Nat)) /\ <<>> \in Seq(Nat)
    OBVIOUS
  <2>. QED BY <2>1, FlattenSteps
<1>5. Indexed
  BY <1>1, <1>3, <1>4 DEF Indexed
<1>6. Chained
  <2>1. IsChain(<<>>, <<>>, content, granted, document_filenames_used)
    BY <1>1, ChunkSizes DEF IsChain, Separate, Distinct
  <2>2. Newest(<<>>) = NULL /\ Len(<<>>) <= Len(stored)
    BY <1>1 DEF Newest
  <2>. QED BY <1>1, <1>3, <1>4, <2>1, <2>2 DEF Chained
<1>. QED BY <1>2, <1>3, <1>5, <1>6 DEF NamesInv

\* The allocations by others.
LEMMA OthersKeepNames ==
  ASSUME NamesInv, OtherMalloc
  PROVE  NamesInv'
<1>1. PICK bytes \in Requests : /\ Malloc(bytes)
                                /\ content' = Copied(content, ans', 0, [i \in 1 .. bytes |-> -1])
  BY DEF OtherMalloc
<1>2. UNCHANGED <<document_filenames, document_filenames_used, chunk, document_filename_bytes_used, stored>>
  BY DEF OtherMalloc, names
<1>3. bytes \in Nat
  BY ChunkSizes
<1>4. IsNew(ans', bytes, granted) /\ granted' = granted \cup {ans'}
  BY <1>1, <1>3, MallocIsNew DEF NamesInv
<1>5. IInv'
  BY <1>1, <1>3, HereKeeps, BlockKeeps DEF NamesInv, Malloc
<1>. DEFINE cells == [i \in 1 .. bytes |-> -1]
<1>6. cells \in Seq({-1}) /\ Len(cells) <= bytes
  BY <1>3
<1>. HIDE DEF cells
<1>7. PICK chain, pieces :
        /\ IsChain(chain, pieces, content, granted, document_filenames_used)
        /\ document_filenames = Newest(chain)
        /\ Len(chain) <= Len(stored)
        /\ FlattenSeq(pieces) = FlattenSeq(StringsOf(stored))
  BY DEF NamesInv, Chained
<1>8. IsChain(chain, pieces, Copied(content, ans', 0, cells), granted \cup {ans'}, document_filenames_used)
  BY <1>3, <1>4, <1>6, <1>7, ChainStays
<1>9. IsChain(chain, pieces, content', granted', document_filenames_used')
  BY <1>1, <1>2, <1>4, <1>8 DEF cells
<1>10. Chained'
  BY <1>2, <1>7, <1>9 DEF Chained
<1>11. Indexed'
  BY <1>2 DEF NamesInv, Indexed
<1>. QED BY <1>2, <1>5, <1>10, <1>11 DEF NamesInv

\* add_to_filename_repository()
LEMMA NamesGoOn ==
  ASSUME NamesInv, NEW name \in FileNames, AddToFilenameRepository(name),
         NEW text \in Texts \cup {<<>>}, stored' = Append(stored, [name |-> name, text |-> text])
  PROVE  IInv' /\ Chained'
<1>. DEFINE document == [name |-> name, text |-> text]
            string == Append(name, 0)
            strings == StringsOf(stored)
            remaining == document_filenames_chunk_size - document_filenames_used
            first == SubSeq(string, 1, remaining)
            rest == SubSeq(string, remaining + 1, Len(string))
            filled == Copied(content, document_filenames, document_filenames_used, first)
<1>1. /\ document \in Document /\ document.name = name /\ stored \in Seq(Document)
      /\ Len(stored) \in Nat /\ Len(stored') = Len(stored) + 1
  BY DEF Document, NamesInv
<1>2. /\ strings \in Seq(Seq(Nat)) /\ string \in Seq(Nat) /\ Len(name) \in Nat
      /\ Len(string) = Len(name) + 1 /\ StringsOf(stored') = Append(strings, string)
  <2>. HIDE DEF document
  <2>. QED BY <1>1, StringsAppend DEF document
<1>. HIDE DEF strings
<1>3. /\ FlattenSeq(StringsOf(stored')) = FlattenSeq(strings) \o string
      /\ FlattenSeq(strings) \in Seq(Nat)
  BY <1>2, FlattenSteps
<1>4. PICK chain, pieces :
        /\ IsChain(chain, pieces, content, granted, document_filenames_used)
        /\ document_filenames = Newest(chain)
        /\ Len(chain) <= Len(stored)
        /\ FlattenSeq(pieces) = FlattenSeq(strings)
  BY DEF NamesInv, Chained, strings
<1>5. /\ document_filenames_used \in PointerSize .. chunk_size
      /\ document_filenames_used \in Nat /\ remaining \in Nat
      /\ document_filenames_used + remaining = chunk_size
      /\ chain = <<>> => document_filenames_used = chunk_size
      /\ Len(pieces) = Len(chain) /\ pieces \in Seq(Seq(Nat)) /\ Len(chain) \in Nat
      /\ chain # <<>> <=> pieces # <<>>
  <2>1. /\ document_filenames_used \in PointerSize .. chunk_size
        /\ chain = <<>> => document_filenames_used = chunk_size
        /\ Len(pieces) = Len(chain) /\ pieces \in Seq(Seq(Nat)) /\ Len(chain) \in Nat
        /\ chain \in Seq(granted)
    BY <1>4, ChainTypes DEF IsChain
  <2>2. chain # <<>> <=> Len(chain) # 0
    BY <2>1
  <2>3. pieces # <<>> <=> Len(pieces) # 0
    BY <2>1
  <2>. QED BY <2>1, <2>2, <2>3, ChunkSizes DEF chunk_size
<1>6. Len(string) <= chunk_size - PointerSize
  BY <1>2, RepositoryAssumption DEF chunk_size
<1>. HIDE DEF string
<1>7. CASE Len(string) <= remaining
  <2>1. /\ content' = Copied(content, document_filenames, document_filenames_used, string)
        /\ document_filenames_used' = document_filenames_used + Len(string)
        /\ document_filenames' = document_filenames /\ UNCHANGED memory_vars
    BY <1>7 DEF AddToFilenameRepository, string
  <2>2. document_filenames_used + Len(string) <= chunk_size /\ chain # <<>>
    BY <1>2, <1>5, <1>7
  <2>. DEFINE longer == LastExtended(pieces, string)
  <2>3. IsChain(chain, longer, Copied(content, Newest(chain), document_filenames_used, string),
                granted, document_filenames_used + Len(string))
    BY <1>2, <1>4, <2>2, ChainFills
  <2>4. FlattenSeq(longer) = FlattenSeq(pieces) \o string
    BY <1>2, <1>5, <2>2, ExtendedIs
  <2>. HIDE DEF longer
  <2>5. granted' = granted
    BY <2>1 DEF memory_vars
  <2>6. IsChain(chain, longer, content', granted', document_filenames_used')
    BY <1>4, <2>1, <2>3, <2>5
  <2>7. Len(chain) <= Len(stored')
    BY <1>1, <1>4, <1>5
  <2>8. FlattenSeq(longer) = FlattenSeq(StringsOf(stored'))
    BY <1>3, <1>4, <2>4
  <2>9. Chained'
    BY <1>4, <2>1, <2>6, <2>7, <2>8 DEF Chained
  <2>10. IInv'
    BY <2>1, StepKeeps DEF NamesInv
  <2>. QED BY <2>9, <2>10
<1>8. CASE ~(Len(string) <= remaining)
  <2>1. /\ Malloc(chunk_size)
        /\ content' = Copied(Copied(filled, ans', 0, <<document_filenames>>), ans', PointerSize, rest)
        /\ document_filenames' = ans'
        /\ document_filenames_used' = PointerSize + Len(rest)
    BY <1>8 DEF AddToFilenameRepository, string, chunk_size
  <2>2. /\ first \in Seq(Nat) /\ Len(first) = remaining
        /\ rest \in Seq(Nat) /\ Len(rest) = Len(string) - remaining /\ first \o rest = string
    <3>. HIDE DEF remaining
    <3>1. remaining <= Len(string) /\ string \in Seq(Nat) /\ remaining \in Nat
      BY <1>2, <1>5, <1>8
    <3>. QED BY <3>1, TwoParts
  <2>3. IsNew(ans', chunk_size, granted) /\ granted' = granted \cup {ans'}
    BY <2>1, ChunkSizes, MallocIsNew DEF NamesInv
  <2>4. IInv'
    BY <2>1, ChunkSizes, HereKeeps, BlockKeeps DEF NamesInv, Malloc
  <2>. HIDE DEF first, rest, filled, remaining
  <2>5. \E full : /\ IsChain(chain, full, filled, granted, chunk_size)
                  /\ FlattenSeq(full) = FlattenSeq(pieces) \o first
    <3>1. CASE chain # <<>>
      <4>1. document_filenames_used + Len(first) = chunk_size
            /\ document_filenames_used + Len(first) <= chunk_size
        BY <1>5, <2>2, ChunkSizes
      <4>2. IsChain(chain, LastExtended(pieces, first),
                    Copied(content, Newest(chain), document_filenames_used, first),
                    granted, document_filenames_used + Len(first))
        BY <1>4, <2>2, <3>1, <4>1, ChainFills
      <4>3. FlattenSeq(LastExtended(pieces, first)) = FlattenSeq(pieces) \o first
        BY <1>5, <2>2, <3>1, ExtendedIs
      <4>4. IsChain(chain, LastExtended(pieces, first), filled, granted, chunk_size)
        BY <1>4, <4>1, <4>2 DEF filled
      <4>. QED BY <4>3, <4>4
    <3>2. CASE chain = <<>>
      <4>1. document_filenames_used = chunk_size /\ Len(first) = 0 /\ pieces = <<>>
        BY <1>5, <2>2, <3>2, ChunkSizes
      <4>2. first = <<>>
        BY <2>2, <4>1
      <4>3. IsChain(chain, pieces, filled, granted, chunk_size)
        BY <1>4, <3>2, <4>1 DEF IsChain
      <4>4. FlattenSeq(pieces) \o first = FlattenSeq(pieces)
        BY <1>3, <1>4, <4>2
      <4>. QED BY <4>3, <4>4
    <3>. QED BY <3>1, <3>2
  <2>6. PICK full : /\ IsChain(chain, full, filled, granted, chunk_size)
                    /\ FlattenSeq(full) = FlattenSeq(pieces) \o first
    BY <2>5
  <2>7. PointerSize + Len(rest) <= chunk_size
    BY <1>2, <1>5, <1>6, <2>2, ChunkSizes
  <2>8. IsChain(Append(chain, ans'), Append(full, rest),
                Copied(Copied(filled, ans', 0, <<Newest(chain)>>), ans', PointerSize, rest),
                granted \cup {ans'}, PointerSize + Len(rest))
    BY <2>2, <2>3, <2>6, <2>7, ChainGrows
  <2>9. IsChain(Append(chain, ans'), Append(full, rest), content', granted', document_filenames_used')
    BY <1>4, <2>1, <2>3, <2>8
  <2>10. FlattenSeq(Append(full, rest)) = FlattenSeq(StringsOf(stored'))
    <3>1. full \in Seq(Seq(Nat))
      BY <2>6 DEF IsChain
    <3>2. FlattenSeq(Append(full, rest)) = FlattenSeq(full) \o rest
      BY <2>2, <3>1, FlattenSteps
    <3>3. FlattenSeq(strings) \o (first \o rest) = (FlattenSeq(strings) \o first) \o rest
      <4>. DEFINE before == FlattenSeq(strings)
      <4>1. before \in Seq(Nat) /\ first \in Seq(Nat) /\ rest \in Seq(Nat)
        BY <1>3, <2>2
      <4>. HIDE DEF before
      <4>2. before \o (first \o rest) = (before \o first) \o rest
        BY <4>1, SMTT(30), ZenonT(30)
      <4>. QED BY <4>2 DEF before
    <3>. QED BY <1>3, <1>4, <2>2, <2>6, <3>2, <3>3
  <2>11. /\ Len(Append(chain, ans')) = Len(chain) + 1
         /\ Newest(Append(chain, ans')) = ans'
    <3>1. chain \in Seq(granted \cup {ans'})
      BY <1>4 DEF IsChain
    <3>2. Len(Append(chain, ans')) = Len(chain) + 1 /\ Append(chain, ans')[Len(chain) + 1] = ans'
      BY <3>1
    <3>3. Append(chain, ans') # <<>>
      <4>1. Len(Append(chain, ans')) # 0
        BY <1>5, <3>2
      <4>. QED BY <4>1
    <3>. QED BY <3>2, <3>3 DEF Newest
  <2>12. Len(Append(chain, ans')) <= Len(stored')
    BY <1>1, <1>4, <1>5, <2>11
  <2>13. Chained'
    BY <2>1, <2>9, <2>10, <2>11, <2>12 DEF Chained
  <2>. QED BY <2>4, <2>13
<1>. QED BY <1>7, <1>8

\* add_to_document_repository()
LEMMA AddKeepsNames ==
  ASSUME NamesInv, NEW name \in FileNames, NEW text \in Texts, AddToDocumentRepository(name, text)
  PROVE  NamesInv'
<1>. DEFINE kept == IF storing THEN text ELSE <<>>
            document == [name |-> name, text |-> kept]
            strings == StringsOf(stored)
            string == Append(name, 0)
<1>1. /\ AddToFilenameRepository(name)
      /\ chunk' = IndexAdd(chunk, document_filename_bytes_used)
      /\ document_filename_bytes_used' = document_filename_bytes_used + Len(name) + 1
      /\ stored' = Append(stored, [name |-> name, text |-> kept])
  BY DEF AddToDocumentRepository
<1>2. kept \in Texts \cup {<<>>}
  OBVIOUS
<1>. HIDE DEF kept
<1>3. /\ document \in Document /\ document.name = name /\ stored \in Seq(Document)
      /\ stored' \in Seq(Document)
  BY <1>1, <1>2 DEF Document, NamesInv
<1>4. IInv' /\ Chained'
  BY <1>1, <1>2, NamesGoOn
<1>5. /\ strings \in Seq(Seq(Nat)) /\ string \in Seq(Nat) /\ Len(name) \in Nat
      /\ Len(string) = Len(name) + 1 /\ StringsOf(stored') = Append(strings, string)
  <2>. HIDE DEF document
  <2>. QED BY <1>1, <1>3, StringsAppend DEF document
<1>. HIDE DEF strings, string
<1>6. /\ chunk \in Seq(Seq(Nat))
      /\ \A i \in 1 .. Len(chunk) : Len(chunk[i]) \in 1 .. members_per_chunk
      /\ FlattenSeq(chunk) = Positions(strings)
      /\ document_filename_bytes_used = Len(FlattenSeq(strings))
  BY DEF NamesInv, Indexed, strings
<1>7. /\ Positions(Append(strings, string)) = Append(Positions(strings), Len(FlattenSeq(strings)))
      /\ Len(FlattenSeq(strings)) \in Nat
      /\ Len(FlattenSeq(Append(strings, string))) = Len(FlattenSeq(strings)) + Len(string)
  BY <1>5, PositionsAppend
<1>8. /\ chunk' \in Seq(Seq(Nat))
      /\ \A i \in 1 .. Len(chunk') : Len(chunk'[i]) \in 1 .. members_per_chunk
      /\ FlattenSeq(chunk') = Append(FlattenSeq(chunk), document_filename_bytes_used)
  <2>1. document_filename_bytes_used \in Nat
    BY <1>6, <1>7
  <2>. QED BY <1>1, <1>6, <2>1, IndexAddAppends
<1>9. FlattenSeq(chunk') = Positions(StringsOf(stored'))
  BY <1>5, <1>6, <1>7, <1>8
<1>10. document_filename_bytes_used' = Len(FlattenSeq(StringsOf(stored')))
  <2>1. \A a, b \in Nat : a + b + 1 = a + (b + 1)
    OBVIOUS
  <2>2. Len(FlattenSeq(strings)) + Len(name) + 1 = Len(FlattenSeq(strings)) + (Len(name) + 1)
    BY <1>5, <1>7, <2>1
  <2>. QED BY <1>1, <1>5, <1>6, <1>7, <2>2
<1>11. Indexed'
  BY <1>8, <1>9, <1>10 DEF Indexed
<1>. QED BY <1>3, <1>4, <1>11 DEF NamesInv

LEMMA NamesUnchanged ==
  ASSUME NamesInv, UNCHANGED <<memory_vars, content, names, stored>>
  PROVE  NamesInv'
<1>1. IInv'
  BY StepKeeps DEF NamesInv
<1>2. UNCHANGED <<granted, content, document_filenames, document_filenames_used, chunk,
                  document_filename_bytes_used, stored>>
  BY DEF memory_vars, names
<1>3. stored' \in Seq(Document)
  BY <1>2 DEF NamesInv
<1>4. Chained'
  BY <1>2 DEF NamesInv, Chained
<1>5. Indexed'
  BY <1>2 DEF NamesInv, Indexed
<1>. QED BY <1>1, <1>3, <1>4, <1>5 DEF NamesInv

LEMMA StepKeepsNames == NamesInv /\ [RepositoryNext]_repository_vars => NamesInv'
<1>. SUFFICES ASSUME NamesInv, [RepositoryNext]_repository_vars PROVE NamesInv'
  OBVIOUS
<1>1. CASE OtherMalloc
  BY <1>1, OthersKeepNames
<1>2. CASE \E name \in FileNames, text \in Texts : AddToDocumentRepository(name, text)
  BY <1>2, AddKeepsNames
<1>3. CASE SerialiseOffsetsEnd \/ SerialiseFilenames \/ SerialiseFilenamesIndex \/ SerialiseOffsets
  BY <1>3, NamesUnchanged
     DEF SerialiseOffsetsEnd, SerialiseFilenames, SerialiseFilenamesIndex, SerialiseOffsets
<1>4. CASE OpenRepository
  BY <1>4, NamesUnchanged DEF OpenRepository
<1>5. ASSUME NEW question, NEW answer, Answer(question, answer)
      PROVE  UNCHANGED <<memory_vars, content, names, stored>>
  BY <1>5 DEF Answer
<1>6. CASE \/ \E id \in 0 .. Len(stored) - 1 : GetDocumentFilename(id) \/ GetDocument(id)
           \/ GetDocumentFilenames
  BY <1>5, <1>6, NamesUnchanged DEF GetDocumentFilename, GetDocument, GetDocumentFilenames
<1>7. CASE UNCHANGED repository_vars
  BY <1>7, NamesUnchanged DEF repository_vars
<1>. QED
  BY <1>1, <1>2, <1>3, <1>4, <1>6, <1>7 DEF RepositoryNext

\* However the names are cut into chunks, and whoever else gets memory in between, the chunks
\* hold all names that were added, in order, and the index where each starts.
THEOREM NamesAlwaysCollected == RepositorySpec => []NamesCollected
<1>1. NamesInv => NamesCollected
  <2>. SUFFICES ASSUME NamesInv PROVE NamesCollected
    OBVIOUS
  <2>. DEFINE strings == [i \in DOMAIN stored |-> Append(stored[i].name, 0)]
  <2>1. DOMAIN stored = 1 .. Len(stored) /\ Len(stored) \in Nat
    BY DEF NamesInv
  <2>2. strings = StringsOf(stored)
    BY <2>1 DEF StringsOf
  <2>3. DOMAIN strings = 1 .. Len(StringsOf(stored))
    BY <2>1, <2>2 DEF StringsOf
  <2>4. PICK chain, pieces :
          /\ IsChain(chain, pieces, content, granted, document_filenames_used)
          /\ document_filenames = Newest(chain)
          /\ Len(chain) <= Len(stored)
          /\ FlattenSeq(pieces) = FlattenSeq(StringsOf(stored))
    BY DEF NamesInv, Chained
  <2>5. CollectedNames = FlattenSeq(StringsOf(stored))
    BY <2>1, <2>4, BlocksAreReal, CollectedArePieces DEF NamesInv
  <2>6. FlattenSeq(chunk) = Positions(StringsOf(stored))
    BY DEF NamesInv, Indexed
  <2>. HIDE DEF strings
  <2>7. FlattenSeq(chunk) = [i \in DOMAIN strings |-> Len(FlattenSeq(SubSeq(strings, 1, i - 1)))]
    BY <2>2, <2>3, <2>6 DEF Positions, Position
  <2>. QED BY <2>2, <2>5, <2>7 DEF NamesCollected, strings
<1>2. RepositorySpec => []NamesInv
  BY InitNames, StepKeepsNames, PTL DEF RepositorySpec
<1>. QED BY <1>1, <1>2, PTL

\* The types that do not come from the names.
OtherTypes ==
    /\ stage \in {"indexing", "filenames", "names index", "lists", "written", "searching"}
    /\ storing \in BOOLEAN
    /\ DOMAIN variables \subseteq {"start", "finish", "index start"}

LEMMA StepKeepsTypes == OtherTypes /\ [RepositoryNext]_repository_vars => OtherTypes'
<1>. SUFFICES ASSUME OtherTypes, [RepositoryNext]_repository_vars PROVE OtherTypes'
  OBVIOUS
<1>. USE DEF OtherTypes
<1>1. \A table, name, value : DOMAIN SetVariable(table, name, value) = DOMAIN table \cup {name}
  BY DEF SetVariable
<1>2. CASE OtherMalloc
  BY <1>2 DEF OtherMalloc
<1>3. CASE \E name \in FileNames, text \in Texts : AddToDocumentRepository(name, text)
  BY <1>3 DEF AddToDocumentRepository
<1>4. CASE SerialiseOffsetsEnd \/ SerialiseOffsets \/ OpenRepository
  BY <1>4 DEF SerialiseOffsetsEnd, SerialiseOffsets, OpenRepository
<1>5. CASE SerialiseFilenames
  <2>1. DOMAIN variables' = DOMAIN variables \cup {"start"} \cup {"finish"}
    <3>1. PICK start, finish :
            variables' = SetVariable(SetVariable(variables, "start", start), "finish", finish)
      BY <1>5 DEF SerialiseFilenames
    <3>. DEFINE started == SetVariable(variables, "start", start)
    <3>2. DOMAIN started = DOMAIN variables \cup {"start"}
      BY <1>1
    <3>3. variables' = SetVariable(started, "finish", finish)
      BY <3>1
    <3>. HIDE DEF started
    <3>4. DOMAIN SetVariable(started, "finish", finish) = DOMAIN started \cup {"finish"}
      BY <1>1
    <3>. QED BY <3>2, <3>3, <3>4
  <2>. QED BY <1>5, <2>1 DEF SerialiseFilenames
<1>6. CASE SerialiseFilenamesIndex
  <2>1. DOMAIN variables' = DOMAIN variables \cup {"index start"}
    BY <1>1, <1>6 DEF SerialiseFilenamesIndex
  <2>. QED BY <1>6, <2>1 DEF SerialiseFilenamesIndex
<1>7. ASSUME NEW question, NEW answer, Answer(question, answer)
      PROVE  OtherTypes'
  BY <1>7 DEF Answer
<1>8. CASE \/ \E id \in 0 .. Len(stored) - 1 : GetDocumentFilename(id) \/ GetDocument(id)
           \/ GetDocumentFilenames
  BY <1>7, <1>8 DEF GetDocumentFilename, GetDocument, GetDocumentFilenames
<1>9. CASE UNCHANGED repository_vars
  BY <1>9 DEF repository_vars
<1>. QED
  BY <1>2, <1>3, <1>4, <1>5, <1>6, <1>8, <1>9 DEF RepositoryNext

\* The types: the newest chunk was granted, the names in it start after its pointer and end
\* within it, and no chunk of the index is empty or over its limit.
THEOREM TypeCorrect == RepositorySpec => []RepositoryTypes
<1>1. RepositoryInit => NamesInv /\ OtherTypes
  BY InitNames DEF RepositoryInit, OtherTypes
<1>2. NamesInv /\ OtherTypes /\ [RepositoryNext]_repository_vars => NamesInv' /\ OtherTypes'
  BY StepKeepsNames, StepKeepsTypes
<1>3. NamesInv /\ OtherTypes => RepositoryTypes
  <2>. SUFFICES ASSUME NamesInv, OtherTypes PROVE RepositoryTypes
    OBVIOUS
  <2>1. PICK chain, pieces :
          /\ IsChain(chain, pieces, content, granted, document_filenames_used)
          /\ document_filenames = Newest(chain)
    BY DEF NamesInv, Chained
  <2>2. document_filenames \in granted \cup {NULL}
    <3>1. chain \in Seq(granted)
      BY <2>1 DEF IsChain
    <3>2. chain # <<>> => chain[Len(chain)] \in granted
      BY <3>1
    <3>. QED BY <2>1, <3>2 DEF Newest
  <2>3. document_filenames_used \in PointerSize .. document_filenames_chunk_size
    BY <2>1 DEF IsChain, chunk_size
  <2>4. \A i \in DOMAIN chunk : Len(chunk[i]) \in 1 .. members_per_chunk
    BY DEF NamesInv, Indexed
  <2>. QED BY <2>2, <2>3, <2>4 DEF RepositoryTypes, OtherTypes
<1>. QED BY <1>1, <1>2, <1>3, PTL DEF RepositorySpec

-----------------------------------------------------------------------------
\* Cells in the file

\* The numbers from a position of a file on.
Kept(file, position, values) ==
    \A i \in 1 .. Len(values) :
        position + i \in DOMAIN file /\ file[position + i].value = values[i]

CellKinds == {"magic", "char", "number", "list"}
FileCell == [kind : CellKinds, value : Int \cup Seq(Int)]

LEMMA KeptStays ==
  ASSUME NEW S, NEW file \in Seq(S), NEW cells \in Seq(S),
         NEW position \in Int, NEW T, NEW values \in Seq(T), Kept(file, position, values)
  PROVE  Kept(file \o cells, position, values)
<1>. SUFFICES ASSUME NEW i \in 1 .. Len(values)
              PROVE  /\ position + i \in DOMAIN (file \o cells)
                     /\ (file \o cells)[position + i].value = values[i]
  BY DEF Kept
<1>1. position + i \in 1 .. Len(file) /\ file[position + i].value = values[i]
  BY DEF Kept
<1>2. file \o cells \in Seq(S) /\ Len(file \o cells) = Len(file) + Len(cells)
      /\ Len(cells) \in Nat /\ Len(file) \in Nat
      /\ \A j \in 1 .. Len(file) + Len(cells) :
            (file \o cells)[j] = IF j <= Len(file) THEN file[j] ELSE cells[j - Len(file)]
  BY JoinFacts
<1>3. DOMAIN (file \o cells) = 1 .. Len(file) + Len(cells)
  BY <1>2
<1>4. (file \o cells)[position + i] = file[position + i]
      /\ position + i \in 1 .. Len(file) + Len(cells)
  BY <1>1, <1>2
<1>. QED BY <1>1, <1>3, <1>4

\* What is written is at the end of what the file was.
LEMMA KeptWhenWritten ==
  ASSUME NEW file \in Seq(FileCell), NEW values \in Seq(Int), NEW kind \in CellKinds
  PROVE  LET cells == [i \in DOMAIN values |-> Cell(kind, values[i])]
         IN  /\ cells \in Seq(FileCell) /\ Len(cells) = Len(values)
             /\ file \o cells \in Seq(FileCell)
             /\ Len(file \o cells) = Len(file) + Len(values)
             /\ Kept(file \o cells, Len(file), values)
<1>. DEFINE cells == [i \in DOMAIN values |-> Cell(kind, values[i])]
<1>1. cells = [i \in 1 .. Len(values) |-> Cell(kind, values[i])] /\ Len(values) \in Nat
  OBVIOUS
<1>2. \A i \in 1 .. Len(values) : Cell(kind, values[i]) \in FileCell
                                  /\ Cell(kind, values[i]).value = values[i]
  BY DEF Cell, FileCell
<1>3. cells \in Seq(FileCell) /\ Len(cells) = Len(values)
  BY <1>1, <1>2
<1>4. \A i \in 1 .. Len(values) : cells[i].value = values[i]
  BY <1>1, <1>2
<1>. HIDE DEF cells
<1>5. file \o cells \in Seq(FileCell) /\ Len(file \o cells) = Len(file) + Len(cells)
      /\ \A j \in 1 .. Len(file) + Len(cells) :
            (file \o cells)[j] = IF j <= Len(file) THEN file[j] ELSE cells[j - Len(file)]
  BY <1>3, JoinFacts
<1>6. Len(file) \in Nat /\ DOMAIN (file \o cells) = 1 .. Len(file) + Len(cells)
  BY <1>5
<1>7. ASSUME NEW i \in 1 .. Len(values)
      PROVE  /\ Len(file) + i \in DOMAIN (file \o cells)
             /\ (file \o cells)[Len(file) + i].value = values[i]
  <2>1. Len(file) + i \in 1 .. Len(file) + Len(cells) /\ ~(Len(file) + i <= Len(file))
        /\ (Len(file) + i) - Len(file) = i
    BY <1>1, <1>3, <1>6
  <2>2. (file \o cells)[Len(file) + i] = cells[i]
    BY <1>5, <2>1
  <2>. QED BY <1>4, <1>6, <2>1, <2>2
<1>8. Kept(file \o cells, Len(file), values)
  BY <1>7 DEF Kept
<1>. QED BY <1>3, <1>5, <1>8 DEF cells

LEMMA ReadKept ==
  ASSUME NEW S, NEW values \in Seq(S), NEW position, Kept(repository_file, position, values)
  PROVE  ReadCells(position, Len(values)) = values
<1>1. ReadCells(position, Len(values)) = [i \in 1 .. Len(values) |-> values[i]]
  BY DEF ReadCells, Kept
<1>2. values = [i \in 1 .. Len(values) |-> values[i]]
  OBVIOUS
<1>. QED BY <1>1, <1>2

\* A part of what is kept is kept.
LEMMA KeptPart ==
  ASSUME NEW file, NEW position \in Int, NEW S, NEW values \in Seq(S), Kept(file, position, values),
         NEW skipped \in Nat, NEW T, NEW part \in Seq(T), skipped + Len(part) <= Len(values),
         \A i \in 1 .. Len(part) : values[skipped + i] = part[i]
  PROVE  Kept(file, position + skipped, part)
<1>. SUFFICES ASSUME NEW i \in 1 .. Len(part)
              PROVE  /\ (position + skipped) + i \in DOMAIN file
                     /\ file[(position + skipped) + i].value = part[i]
  BY DEF Kept
<1>1. skipped + i \in 1 .. Len(values) /\ position + (skipped + i) = (position + skipped) + i
  <2>1. Len(part) \in Nat /\ Len(values) \in Nat
    OBVIOUS
  <2>. QED BY <2>1
<1>2. position + (skipped + i) \in DOMAIN file /\ file[position + (skipped + i)].value = values[skipped + i]
  BY <1>1 DEF Kept
<1>. QED BY <1>1, <1>2

-----------------------------------------------------------------------------
\* Sums of differences

Total(list) == FoldLeft(+, 0, list)

LEMMA SumsAppend ==
  ASSUME NEW list \in Seq(Int), NEW x \in Int
  PROVE  /\ Sums(list) \in Seq(Int) /\ Len(Sums(list)) = Len(list)
         /\ Total(list) \in Int
         /\ Total(Append(list, x)) = Total(list) + x
         /\ Sums(Append(list, x)) = Append(Sums(list), Total(list) + x)
         /\ list = <<>> => Total(list) = 0
         /\ list # <<>> => Sums(list)[Len(list)] = Total(list)
<1>. DEFINE n == Len(list)
            more == Append(list, x)
            before == Sums(list)
<1>1. /\ n \in Nat /\ DOMAIN list = 1 .. n /\ DOMAIN more = 1 .. n + 1 /\ more \in Seq(Int)
      /\ SubSeq(list, 1, n) = list /\ SubSeq(more, 1, n + 1) = more
      /\ \A i \in 1 .. n : SubSeq(list, 1, i) \in Seq(Int) /\ SubSeq(more, 1, i) = SubSeq(list, 1, i)
      /\ list # <<>> => n \in 1 .. n
  OBVIOUS
<1>2. \A some \in Seq(Int) : Total(some) \in Int /\ (some = <<>> => Total(some) = 0)
  BY FoldSteps DEF Total
<1>3. Total(more) = Total(list) + x
  BY FoldSteps DEF Total
<1>4. before = [i \in 1 .. n |-> Total(SubSeq(list, 1, i))]
  BY <1>1 DEF Sums, Total
<1>5. Sums(more) = [i \in 1 .. n + 1 |-> Total(SubSeq(more, 1, i))]
  BY <1>1 DEF Sums, Total
<1>. HIDE DEF more
<1>6. before \in Seq(Int) /\ Len(before) = n /\ \A i \in 1 .. n : before[i] = Total(SubSeq(list, 1, i))
  <2>1. \A i \in 1 .. n : Total(SubSeq(list, 1, i)) \in Int
    BY <1>1, <1>2
  <2>. HIDE DEF before, n
  <2>. QED BY <1>1, <1>4, <2>1
<1>7. list # <<>> => before[n] = Total(list)
  BY <1>1, <1>6
<1>8. Append(before, Total(list) + x) =
        [i \in 1 .. n + 1 |-> IF i = n + 1 THEN Total(list) + x ELSE before[i]]
  <2>1. Total(list) + x \in Int
    BY <1>2
  <2>. HIDE DEF before
  <2>2. Append(before, Total(list) + x) =
          [i \in 1 .. Len(before) + 1 |-> IF i = Len(before) + 1 THEN Total(list) + x ELSE before[i]]
    BY <1>6, <2>1, AppendIs
  <2>. QED BY <1>6, <2>2
<1>9. \A i \in 1 .. n + 1 :
        Total(SubSeq(more, 1, i)) = IF i = n + 1 THEN Total(list) + x ELSE before[i]
  <2>. TAKE i \in 1 .. n + 1
  <2>1. i = n + 1 \/ (i # n + 1 /\ i \in 1 .. n)
    BY <1>1
  <2>. HIDE DEF before, n
  <2>. QED BY <1>1, <1>3, <1>6, <2>1
<1>10. Sums(more) = Append(before, Total(list) + x)
  <2>. HIDE DEF before, n
  <2>. QED BY <1>5, <1>8, <1>9
<1>. QED BY <1>2, <1>3, <1>6, <1>7, <1>10 DEF more

-----------------------------------------------------------------------------
\* Reading the names back

\* Each string is between where it starts and where the next one does.
LEMMA PartBetween ==
  ASSUME NEW S, NEW strings \in Seq(Seq(S)), NEW i \in 1 .. Len(strings)
  PROVE  /\ Position(strings, i) \in Nat /\ Len(strings[i]) \in Nat
         /\ Position(strings, i + 1) = Position(strings, i) + Len(strings[i])
         /\ Position(strings, i + 1) <= Len(FlattenSeq(strings))
         /\ \A j \in 1 .. Len(strings[i]) :
                FlattenSeq(strings)[Position(strings, i) + j] = strings[i][j]
<1>. DEFINE string == strings[i]
            before == SubSeq(strings, 1, i - 1)
            upto == SubSeq(strings, 1, i)
            rest == SubSeq(strings, i + 1, Len(strings))
<1>1. /\ string \in Seq(S) /\ i \in Nat /\ i <= Len(strings) /\ Len(string) \in Nat
      /\ before \in Seq(Seq(S)) /\ (i + 1) - 1 = i
  OBVIOUS
<1>2. upto = Append(before, string)
  OBVIOUS
<1>3. upto \in Seq(Seq(S)) /\ rest \in Seq(Seq(S)) /\ upto \o rest = strings
  BY <1>1, TwoParts
<1>4. Position(strings, i) = Len(FlattenSeq(before)) /\ Position(strings, i + 1) = Len(FlattenSeq(upto))
  BY <1>1 DEF Position
<1>. HIDE DEF string, before, upto, rest
<1>5. FlattenSeq(before) \in Seq(S) /\ FlattenSeq(rest) \in Seq(S) /\ FlattenSeq(upto) \in Seq(S)
      /\ FlattenSeq(upto) = FlattenSeq(before) \o string
  BY <1>1, <1>2, <1>3, FlattenSteps
<1>6. FlattenSeq(strings) = FlattenSeq(upto) \o FlattenSeq(rest)
  BY <1>3, FlattenBoth
<1>. DEFINE a == FlattenSeq(before)
            b == FlattenSeq(upto)
            c == FlattenSeq(rest)
<1>7. /\ a \in Seq(S) /\ b \in Seq(S) /\ c \in Seq(S) /\ b = a \o string
      /\ FlattenSeq(strings) = b \o c
      /\ Position(strings, i) = Len(a) /\ Position(strings, i + 1) = Len(b)
  BY <1>4, <1>5, <1>6
<1>. HIDE DEF a, b, c
<1>8. /\ Len(b) = Len(a) + Len(string) /\ Len(a) \in Nat /\ Len(b) \in Nat
      /\ \A j \in 1 .. Len(a) + Len(string) :
            b[j] = IF j <= Len(a) THEN a[j] ELSE string[j - Len(a)]
  BY <1>1, <1>7, JoinFacts
<1>9. /\ Len(b \o c) = Len(b) + Len(c) /\ Len(c) \in Nat
      /\ \A j \in 1 .. Len(b) + Len(c) :
            (b \o c)[j] = IF j <= Len(b) THEN b[j] ELSE c[j - Len(b)]
  BY <1>7, JoinFacts
<1>10. ASSUME NEW j \in 1 .. Len(string)
       PROVE  FlattenSeq(strings)[Position(strings, i) + j] = string[j]
  <2>1. /\ Len(a) + j \in 1 .. Len(b) + Len(c) /\ Len(a) + j <= Len(b)
        /\ Len(a) + j \in 1 .. Len(a) + Len(string) /\ ~(Len(a) + j <= Len(a))
        /\ (Len(a) + j) - Len(a) = j
    BY <1>1, <1>8, <1>9
  <2>2. (b \o c)[Len(a) + j] = b[Len(a) + j]
    BY <1>9, <2>1
  <2>3. b[Len(a) + j] = string[j]
    BY <1>8, <2>1
  <2>. QED BY <1>7, <2>2, <2>3
<1>11. Position(strings, i + 1) <= Len(FlattenSeq(strings))
  <2>1. \A x, y \in Nat : x <= x + y
    OBVIOUS
  <2>. QED BY <1>7, <1>8, <1>9, <2>1
<1>12. Position(strings, i) \in Nat /\ Position(strings, i + 1) = Position(strings, i) + Len(string)
  BY <1>7, <1>8
<1>. QED BY <1>1, <1>10, <1>11, <1>12 DEF string

LEMMA FirstAndEnd ==
  ASSUME NEW S, NEW strings \in Seq(Seq(S))
  PROVE  /\ Position(strings, 1) = 0
         /\ Position(strings, Len(strings) + 1) = Len(FlattenSeq(strings))
         /\ Len(FlattenSeq(strings)) \in Nat
<1>1. SubSeq(strings, 1, 1 - 1) = <<>> /\ SubSeq(strings, 1, (Len(strings) + 1) - 1) = strings
  OBVIOUS
<1>2. FlattenSeq(strings) \in Seq(S)
  BY FlattenSteps
<1>3. FlattenSeq(<<>>) = <<>>
  <2>1. <<>> \in Seq(Seq(S)) /\ <<>> \in Seq(S)
    OBVIOUS
  <2>. QED BY <2>1, FlattenSteps
<1>4. Len(<<>>) = 0
  OBVIOUS
<1>5. Position(strings, 1) = Len(FlattenSeq(SubSeq(strings, 1, 1 - 1)))
  BY DEF Position
<1>6. Position(strings, 1) = 0
  BY <1>1, <1>3, <1>4, <1>5
<1>7. Position(strings, Len(strings) + 1) = Len(FlattenSeq(strings))
  BY <1>1 DEF Position
<1>8. Len(FlattenSeq(strings)) \in Nat
  BY <1>2
<1>. QED BY <1>6, <1>7, <1>8

\* A name ends at its first zero.
LEMMA NameOfIs ==
  ASSUME NEW name \in Seq(Nat \ {0}), NEW string \in Seq(Nat), Len(name) + 1 <= Len(string),
         \A i \in 1 .. Len(name) : string[i] = name[i], string[Len(name) + 1] = 0
  PROVE  NameOf(string) = name
<1>. DEFINE ends == {i \in DOMAIN string : string[i] = 0} \cup {Len(string) + 1}
            n == Len(name)
<1>1. n \in Nat /\ Len(string) \in Nat /\ DOMAIN string = 1 .. Len(string)
      /\ \A i \in 1 .. n : name[i] \in Nat \ {0}
  OBVIOUS
<1>2. n + 1 \in ends
  BY <1>1
<1>3. \A i \in ends : i \in Nat /\ n + 1 <= i
  <2>. TAKE i \in ends
  <2>1. CASE i = Len(string) + 1
    BY <1>1, <2>1
  <2>2. CASE i \in 1 .. Len(string) /\ string[i] = 0
    <3>1. i \notin 1 .. n
      BY <1>1, <2>2
    <3>. QED BY <1>1, <2>2, <3>1
  <2>. QED BY <1>1, <2>1, <2>2
<1>4. Min(ends) = n + 1
  <2>. HIDE DEF ends, n
  <2>1. Min(ends) = CHOOSE x \in ends : \A y \in ends : x <= y
    BY DEF Min
  <2>. QED BY <1>1, <1>2, <1>3, <2>1
<1>5. NameOf(string) = SubSeq(string, 1, n)
  <2>1. NameOf(string) = SubSeq(string, 1, Min(ends) - 1)
    BY DEF NameOf
  <2>2. (n + 1) - 1 = n
    BY <1>1
  <2>. HIDE DEF ends, n
  <2>. QED BY <1>4, <2>1, <2>2
<1>6. SubSeq(string, 1, n) \in Seq(Nat) /\ Len(SubSeq(string, 1, n)) = n
      /\ \A i \in 1 .. n : SubSeq(string, 1, n)[i] = name[i]
  BY <1>1
<1>. DEFINE front == SubSeq(string, 1, n)
<1>7. name \in Seq(Nat)
  OBVIOUS
<1>8. Agree(front, name)
  BY <1>6 DEF Agree
<1>9. front = name
  <2>1. front \in Seq(Nat)
    BY <1>6
  <2>. HIDE DEF front
  <2>. QED BY <1>7, <1>8, <2>1, SameLists
<1>. QED BY <1>5, <1>9

\* The string of a document.
LEMMA StringIs ==
  ASSUME NEW documents \in Seq(Document)
  PROVE  LET strings == StringsOf(documents)
         IN  /\ strings \in Seq(Seq(Nat)) /\ Len(strings) = Len(documents) /\ Len(documents) \in Nat
             /\ DOMAIN documents = 1 .. Len(documents)
             /\ \A i \in 1 .. Len(documents) :
                    /\ documents[i] \in Document /\ documents[i].name \in Seq(Nat \ {0})
                    /\ Len(strings[i]) = Len(documents[i].name) + 1
                    /\ \A j \in 1 .. Len(documents[i].name) : strings[i][j] = documents[i].name[j]
                    /\ strings[i][Len(documents[i].name) + 1] = 0
<1>1. \A i \in 1 .. Len(documents) : documents[i] \in Document
  OBVIOUS
<1>2. \A d \in Document : d.name \in Seq(Nat \ {0})
  BY RepositoryAssumption DEF Document
<1>3. ASSUME NEW name \in Seq(Nat \ {0})
      PROVE  /\ Append(name, 0) \in Seq(Nat)
             /\ Len(Append(name, 0)) = Len(name) + 1
             /\ \A j \in 1 .. Len(name) : Append(name, 0)[j] = name[j]
             /\ Append(name, 0)[Len(name) + 1] = 0
  <2>1. name \in Seq(Nat) /\ 0 \in Nat
    OBVIOUS
  <2>. QED BY <2>1, AppendFacts
<1>4. StringsOf(documents) = [i \in 1 .. Len(documents) |-> Append(documents[i].name, 0)]
  BY DEF StringsOf
<1>5. \A i \in 1 .. Len(documents) : Append(documents[i].name, 0) \in Seq(Nat)
  BY <1>1, <1>2, <1>3
<1>. DEFINE strings == StringsOf(documents)
<1>6. strings \in Seq(Seq(Nat)) /\ Len(strings) = Len(documents) /\ Len(documents) \in Nat
  BY <1>4, <1>5
<1>7. \A i \in 1 .. Len(documents) : strings[i] = Append(documents[i].name, 0)
  BY <1>4
<1>. HIDE DEF strings
<1>8. ASSUME NEW i \in 1 .. Len(documents)
      PROVE  /\ documents[i] \in Document /\ documents[i].name \in Seq(Nat \ {0})
             /\ Len(strings[i]) = Len(documents[i].name) + 1
             /\ \A j \in 1 .. Len(documents[i].name) : strings[i][j] = documents[i].name[j]
             /\ strings[i][Len(documents[i].name) + 1] = 0
  <2>1. documents[i] \in Document /\ documents[i].name \in Seq(Nat \ {0})
    BY <1>1, <1>2
  <2>. DEFINE name == documents[i].name
  <2>2. name \in Seq(Nat \ {0}) /\ strings[i] = Append(name, 0)
    BY <1>7, <2>1
  <2>. HIDE DEF name
  <2>3. /\ Len(strings[i]) = Len(name) + 1
        /\ \A j \in 1 .. Len(name) : strings[i][j] = name[j]
        /\ strings[i][Len(name) + 1] = 0
    BY <1>3, <2>2
  <2>. QED BY <2>1, <2>3 DEF name
<1>. QED BY <1>6, <1>8 DEF strings

-----------------------------------------------------------------------------
\* Numbers and lists in the index

\* A number that was stored in two halves.
LEMMA VariableRead ==
  ASSUME NEW number \in Nat, NEW file
  PROVE  GetVariable(Leaf(Variable(number), Packed(Variable(number))), file) = number
<1>. DEFINE node == Variable(number)
            high == number \div Word
            low == number % Word
            in == Packed(node)
            leaf == Leaf(node, in)
<1>1. Word \in Nat /\ Word > 1
  BY PostingsAssumption
<1>2. high \in Nat /\ low \in Nat /\ high * Word + low = number /\ high * Word \in Nat
  BY <1>1
<1>3. (high * Word + 1) \div Word = high /\ (high * Word + 1) % Word = 1
  <2>. HIDE DEF high
  <2>. QED BY <1>1, <1>2
<1>4. /\ node.docid[1] = high /\ node.docid[2] = low /\ node.tf[1] = 1 /\ node.tf[2] = 1
      /\ node.document_frequency = 2
  BY DEF Variable
<1>. HIDE DEF node, high, low
<1>5. in = [position |-> high * Word + 1, impacted_length |-> low, end |-> 1 + (high * Word + 1)]
  BY <1>4 DEF Packed
<1>6. (1 + (high * Word + 1)) - (high * Word + 1) = 1 /\ 1 % Word = 1
  <2>1. \A a \in Nat : (1 + (a + 1)) - (a + 1) = 1
    OBVIOUS
  <2>2. 1 % Word = 1
    BY <1>1
  <2>. QED BY <1>2, <2>1, <2>2
<1>. HIDE DEF in
<1>7. /\ leaf.document_frequency = 2 /\ leaf.postings_position_on_disk = high * Word + 1
      /\ leaf.impacted_length = low /\ leaf.postings_length = 1
  BY <1>4, <1>5, <1>6 DEF Leaf
<1>. HIDE DEF leaf
<1>. DEFINE info == Cell("info", [the_quantum_count |-> 1, beginning_of_the_postings |-> 2])
            buffer == <<info, Cell("list", <<1, 2, 0>>), Cell("list", <<high, low>>)>>
<1>8. GetPostings(leaf, file) = buffer /\ ImpactedLength(leaf) = 2
  BY <1>3, <1>7 DEF GetPostings, Unpacked, ImpactedLength
<1>9. buffer[1].value.beginning_of_the_postings = 2
  BY DEF Cell
<1>10. Decompress(buffer, 2, 2) = <<high, low>>
  <2>1. buffer[2 + 1] = Cell("list", <<high, low>>) /\ 2 + 1 \in DOMAIN buffer
    OBVIOUS
  <2>2. Cell("list", <<high, low>>).kind = "list" /\ Cell("list", <<high, low>>).value = <<high, low>>
    BY DEF Cell
  <2>3. 2 <= Len(<<high, low>>) /\ SubSeq(<<high, low>>, 1, 2) = <<high, low>>
    <3>. DEFINE pair == <<high, low>>
    <3>1. pair \in Seq(Nat) /\ Len(pair) = 2
      BY <1>2
    <3>. HIDE DEF pair
    <3>2. SubSeq(pair, 1, Len(pair)) = pair
      BY <3>1
    <3>. QED BY <3>1, <3>2 DEF pair
  <2>. HIDE DEF buffer
  <2>. QED BY <2>1, <2>2, <2>3 DEF Decompress
<1>. HIDE DEF buffer
<1>11. GetVariable(leaf, file) = high * Word + low
  BY <1>8, <1>9, <1>10 DEF GetVariable
<1>. QED BY <1>2, <1>11 DEF leaf, node, in

\* Unless variable byte and Simple-9 are both tried, a list is written.
LEMMA CompressWrites ==
  ASSUME ListsAreWritten, NEW list \in Seq(Int), list # <<>>
  PROVE  Compress(list) = <<Cell("list", list)>>
<1>. DEFINE tried == {which \in 0 .. 2 : SchemeId(which) \in schemes_to_use}
            size(which) == Sizes(list)[which + 1]
            smallest == {which \in tried : \A other \in tried : size(which) <= size(other)}
            preferred == IF tried = {} THEN SchemeId(0) ELSE SchemeId(Min(smallest))
            last_successful == IF tried = {} THEN -1 ELSE Max(tried)
<1>1. Compress(list) = IF preferred = last_successful THEN <<>> ELSE <<Cell("list", list)>>
  BY DEF Compress
<1>2. SchemeId(0) = 1 /\ SchemeId(1) = 2 /\ SchemeId(2) = 4
  BY DEF SchemeId
<1>3. ~(1 \in tried /\ 2 \in tried) /\ tried \subseteq {0, 1, 2}
  <2>1. 1 \in 0 .. 2 /\ 2 \in 0 .. 2
    OBVIOUS
  <2>2. tried \subseteq {0, 1, 2}
    OBVIOUS
  <2>. QED BY <2>1, <2>2 DEF ListsAreWritten
<1>4. size(0) = 4 * Len(list) /\ size(1) = Len(list) /\ Len(list) \in Nat /\ Len(list) # 0
      /\ size(2) \in Nat
  <2>1. Len(list) \in Nat /\ Len(list) # 0
    OBVIOUS
  <2>2. Sizes(list)[0 + 1] = 4 * Len(list) /\ Sizes(list)[1 + 1] = Len(list)
        /\ Sizes(list)[2 + 1] = 4 * ((Len(list) + 3) \div 4)
    BY DEF Sizes
  <2>3. 4 * ((Len(list) + 3) \div 4) \in Nat
    BY <2>1
  <2>. QED BY <2>1, <2>2, <2>3
<1>. HIDE DEF size
<1>5. CASE tried = {}
  BY <1>1, <1>2, <1>5
<1>6. CASE tried # {}
  <2>1. Max(tried) \in tried /\ \A x \in tried : x <= Max(tried)
    BY <1>3, <1>6 DEF Max
  <2>2. smallest # {} /\ smallest \subseteq tried
    BY <1>3, <1>4, <1>6
  <2>3. 0 \in smallest => 1 \notin tried
    BY <1>3, <1>4
  <2>. HIDE DEF tried, smallest
  <2>4. Min(smallest) \in smallest
    <3>1. smallest \subseteq {0, 1, 2}
      BY <1>3, <2>2
    <3>2. \E x \in smallest : \A y \in smallest : x <= y
      <4>1. CASE 0 \in smallest
        BY <3>1, <4>1
      <4>2. CASE 0 \notin smallest /\ 1 \in smallest
        BY <3>1, <4>2
      <4>3. CASE 0 \notin smallest /\ 1 \notin smallest
        <5>1. 2 \in smallest /\ \A y \in smallest : y = 2
          <6>. HIDE DEF smallest
          <6>. QED BY <2>2, <3>1, <4>3
        <5>2. 2 <= 2
          OBVIOUS
        <5>. HIDE DEF smallest
        <5>. QED BY <5>1, <5>2
      <4>. QED BY <4>1, <4>2, <4>3
    <3>. QED BY <3>2 DEF Min
  <2>5. Min(smallest) \in {0, 1, 2} /\ Max(tried) \in {0, 1, 2}
    BY <1>3, <2>1, <2>2, <2>4
  <2>6. SchemeId(Min(smallest)) # Max(tried)
    <3>1. CASE Min(smallest) = 0
      BY <1>2, <2>1, <2>3, <2>4, <2>5, <3>1
    <3>2. CASE Min(smallest) = 1
      BY <1>2, <1>3, <2>1, <2>2, <2>4, <2>5, <3>2
    <3>3. CASE Min(smallest) = 2
      BY <1>2, <2>5, <3>3
    <3>. QED BY <2>5, <3>1, <3>2, <3>3
  <2>. QED BY <1>1, <1>6, <2>6
<1>. QED BY <1>5, <1>6

\* The list of a special term, of three documents or more.
LEMMA ListRead ==
  ASSUME ListsAreWritten, NEW node, node.docid \in Seq(Int), NEW file \in Seq(FileCell),
         node.document_frequency = Len(node.docid), Len(node.docid) > 2
  PROVE  LET after == file \o Written(node, TRUE)
         IN  /\ after \in Seq(FileCell)
             /\ GetList(Leaf(node, InDisk(node, TRUE, Len(file))), after) = node.docid
<1>. DEFINE list == node.docid
            cell == Cell("list", list)
            after == file \o Written(node, TRUE)
            leaf == Leaf(node, InDisk(node, TRUE, Len(file)))
<1>1. list \in Seq(Int) /\ Len(list) \in Nat /\ ~(Len(list) <= 2) /\ list # <<>> /\ Len(list) <= Len(list)
  OBVIOUS
<1>2. Written(node, TRUE) = <<cell>>
  BY <1>1, CompressWrites DEF Written
<1>3. cell \in FileCell /\ cell.kind = "list" /\ cell.value = list
  BY <1>1 DEF Cell, FileCell, CellKinds
<1>4. after = Append(file, cell) /\ Append(file, cell) \in Seq(FileCell)
      /\ Len(Append(file, cell)) = Len(file) + 1 /\ Append(file, cell)[Len(file) + 1] = cell
      /\ Len(file) \in Nat
  <2>. HIDE DEF cell
  <2>1. file \o <<cell>> = Append(file, cell)
    BY <1>3
  <2>. QED BY <1>2, <1>3, <2>1, AppendFacts
<1>5. InDisk(node, TRUE, Len(file))
        = [position |-> Len(file), impacted_length |-> Len(list), end |-> Len(file) + 1]
  <2>1. Len(<<cell>>) = 1
    OBVIOUS
  <2>. QED BY <1>1, <1>2, <2>1 DEF InDisk
<1>6. ((Len(file) + 1) - Len(file)) % Word = 1
  <2>1. Word \in Nat /\ Word > 1 /\ (Len(file) + 1) - Len(file) = 1
    BY <1>4, PostingsAssumption
  <2>. QED BY <2>1
<1>7. leaf.document_frequency = Len(list) /\ leaf.postings_position_on_disk = Len(file)
      /\ leaf.postings_length = 1
  <2>. DEFINE in == InDisk(node, TRUE, Len(file))
  <2>1. in.position = Len(file) /\ in.end = Len(file) + 1
    <3>. HIDE DEF in
    <3>1. in = [position |-> Len(file), impacted_length |-> Len(list), end |-> Len(file) + 1]
      BY <1>5 DEF in
    <3>. QED BY <3>1
  <2>2. leaf.document_frequency = node.document_frequency
        /\ leaf.postings_position_on_disk = in.position
        /\ leaf.postings_length = (in.end - in.position) % Word
    BY DEF Leaf
  <2>. HIDE DEF in, leaf
  <2>. QED BY <1>6, <2>1, <2>2
<1>. HIDE DEF leaf, cell
<1>8. GetPostings(leaf, after) = SubSeq(Append(file, cell), Len(file) + 1, Len(file) + 1)
  BY <1>1, <1>4, <1>7 DEF GetPostings
<1>9. SubSeq(Append(file, cell), Len(file) + 1, Len(file) + 1) = <<cell>>
  <2>. DEFINE whole == Append(file, cell)
              k == Len(file) + 1
  <2>1. whole \in Seq(FileCell) /\ k \in 1 .. Len(whole) /\ whole[k] = cell /\ k \in Nat
    BY <1>4
  <2>. HIDE DEF whole, k
  <2>2. SubSeq(whole, k, k) = <<whole[k]>>
    <3>. DEFINE one == SubSeq(whole, k, k)
                other == <<whole[k]>>
    <3>1. one \in Seq(FileCell) /\ Len(one) = 1 /\ one[1] = whole[k]
      BY <2>1
    <3>2. other \in Seq(FileCell) /\ Len(other) = 1 /\ other[1] = whole[k]
      BY <2>1, <1>3
    <3>3. \A i \in 1 .. 1 : i = 1
      OBVIOUS
    <3>. HIDE DEF one, other
    <3>4. Agree(one, other)
      BY <3>1, <3>2, <3>3 DEF Agree
    <3>5. one = other
      BY <3>1, <3>2, <3>4, SameLists
    <3>. QED BY <3>5 DEF one, other
  <2>. QED BY <2>1, <2>2 DEF whole, k
<1>10. Decompress(<<cell>>, 0, Len(list)) = SubSeq(list, 1, Len(list))
  <2>1. 0 + 1 \in DOMAIN <<cell>> /\ <<cell>>[0 + 1] = cell
    OBVIOUS
  <2>. QED BY <1>1, <1>3, <2>1 DEF Decompress
<1>11. SubSeq(list, 1, Len(list)) = list
  BY <1>1
<1>12. GetList(leaf, after) = list
  BY <1>7, <1>8, <1>9, <1>10, <1>11 DEF GetList
<1>. QED BY <1>4, <1>12 DEF leaf

-----------------------------------------------------------------------------
\* What is in the file

FlatNames == FlattenSeq(StringsOf(stored))

\* Where each name starts, and where the last ends.
NameStarts == Append(Positions(StringsOf(stored)), Len(FlatNames))

\* The texts are where the differences in ~documentoffsets say: each starts where the one
\* before ended, and the last ends at the end of the file until serialise() adds that.
TextsInFile ==
    LET starts == Sums(offsets.docid)
    IN  /\ repository_file \in Seq(FileCell) /\ Len(repository_file) > 0
        /\ offsets.docid \in Seq(Int)
        /\ offsets.document_frequency = Len(offsets.docid)
        /\ offsets.current_docno = Total(offsets.docid)
        /\ storing =>
              /\ Len(offsets.docid) =
                    IF stage = "indexing" \/ Len(stored) = 0 THEN Len(stored) ELSE Len(stored) + 1
              /\ \A i \in 1 .. Len(stored) :
                    /\ stored[i].text # <<>>
                    /\ Kept(repository_file, starts[i], stored[i].text)
                    /\ starts[i] + Len(stored[i].text) =
                          IF i < Len(offsets.docid) THEN starts[i + 1] ELSE Len(repository_file)
        /\ ~storing => offsets.docid = <<>> /\ \A i \in 1 .. Len(stored) : stored[i].text = <<>>

\* Once there are documents and serialise() wrote their names: where they are.
NamesAt ==
    /\ {"start", "finish"} \subseteq DOMAIN variables
    /\ variables["start"] \in Nat
    /\ variables["finish"] = variables["start"] + Len(FlatNames)
    /\ Kept(repository_file, variables["start"], FlatNames)

IndexAt ==
    /\ "index start" \in DOMAIN variables
    /\ variables["index start"] \in Nat
    /\ Kept(repository_file, variables["index start"], NameStarts)

NamesInFile ==
    /\ stage \in {"names index", "lists", "written", "searching"} /\ stored # <<>> => NamesAt
    /\ stage \in {"lists", "written", "searching"} /\ stored # <<>> => IndexAt

\* The list of offsets can be read back once it is written.
OffsetsInFile ==
    stage = "written" /\ Len(offsets.docid) > 2 =>
        GetList(Leaf(offsets, offsets_in_disk), repository_file) = offsets.docid

\* What the search engine has after open().
IsOpen ==
    stage = "searching" =>
        /\ offsets.docid = <<>> => document_offsets = <<>>
        /\ Len(offsets.docid) > 2 => document_offsets = Sums(offsets.docid)
        /\ stored # <<>> => /\ filename_start = variables["start"]
                            /\ filename_finish = variables["finish"]
                            /\ filename_index_start = variables["index start"]

FileInv == TextsInFile /\ NamesInFile /\ OffsetsInFile /\ IsOpen

StoreInv == NamesInv /\ FileInv

LEMMA InitFile == RepositoryInit => FileInv
<1>. SUFFICES ASSUME RepositoryInit PROVE FileInv
  OBVIOUS
<1>1. /\ stage = "indexing" /\ stored = <<>> /\ offsets.docid = <<>> /\ offsets.document_frequency = 0
      /\ offsets.current_docno = 0 /\ repository_file = <<Cell("magic", 0)>>
  BY DEF RepositoryInit
<1>2. Cell("magic", 0) \in FileCell
  BY DEF Cell, FileCell, CellKinds
<1>3. repository_file \in Seq(FileCell) /\ Len(repository_file) > 0
  BY <1>1, <1>2
<1>4. <<>> \in Seq(Int) /\ Len(<<>>) = 0 /\ 1 .. Len(<<>>) = {} /\ 0 \in Int
  OBVIOUS
<1>5. Total(<<>>) = 0
  BY <1>4, SumsAppend
<1>6. TextsInFile
  BY <1>1, <1>3, <1>4, <1>5 DEF TextsInFile
<1>. QED BY <1>1, <1>6 DEF FileInv, NamesInFile, OffsetsInFile, IsOpen

LEMMA FileUnchanged ==
  ASSUME FileInv,
         UNCHANGED <<stage, storing, repository_file, offsets, variables, offsets_in_disk, repository_opened, stored>>
  PROVE  FileInv'
<1>1. UNCHANGED <<document_offsets, filename_start, filename_finish, filename_index_start>>
  BY DEF repository_opened
<1>2. TextsInFile'
  BY DEF FileInv, TextsInFile
<1>3. NamesInFile'
  BY DEF FileInv, NamesInFile, NamesAt, IndexAt, FlatNames, NameStarts
<1>4. OffsetsInFile'
  BY DEF FileInv, OffsetsInFile
<1>5. IsOpen'
  BY <1>1 DEF FileInv, IsOpen
<1>. QED BY <1>2, <1>3, <1>4, <1>5 DEF FileInv

\* The text of a document.
LEMMA TextTypes ==
  ASSUME NEW document \in Document
  PROVE  document.text \in Seq(Nat) /\ document.text \in Seq(Int)
<1>1. document.text \in Texts \cup {<<>>}
  BY DEF Document
<1>2. \A text \in Texts \cup {<<>>} : text \in Seq(Nat)
  <2>1. Texts \subseteq Seq(Nat)
    BY RepositoryAssumption
  <2>2. <<>> \in Seq(Nat)
    OBVIOUS
  <2>. QED BY <2>1, <2>2
<1>3. document.text \in Seq(Nat)
  BY <1>1, <1>2
<1>. QED BY <1>3

\* What was kept stays when the file grows.
LEMMA TextsStay ==
  ASSUME TextsInFile, stored \in Seq(Document), stage # "indexing", stage' # "indexing",
         UNCHANGED <<storing, offsets, stored>>,
         NEW cells \in Seq(FileCell), repository_file' = repository_file \o cells
  PROVE  TextsInFile'
<1>. DEFINE starts == Sums(offsets.docid)
<1>1. /\ repository_file \in Seq(FileCell) /\ Len(repository_file) > 0 /\ offsets.docid \in Seq(Int)
      /\ Len(stored) \in Nat /\ Len(offsets.docid) \in Nat
      /\ \A i \in 1 .. Len(stored) : stored[i] \in Document
  BY DEF TextsInFile
<1>2. /\ repository_file' \in Seq(FileCell) /\ Len(repository_file') > 0
  <2>1. /\ repository_file \o cells \in Seq(FileCell) /\ Len(cells) \in Nat /\ Len(repository_file) \in Nat
        /\ Len(repository_file \o cells) = Len(repository_file) + Len(cells)
    BY <1>1, JoinFacts
  <2>. QED BY <1>1, <2>1
<1>3. starts \in Seq(Int) /\ Len(starts) = Len(offsets.docid)
  BY <1>1, SumsAppend
<1>4. ASSUME storing, NEW i \in 1 .. Len(stored)
      PROVE  /\ stored[i].text # <<>>
             /\ Kept(repository_file', starts[i], stored[i].text)
             /\ starts[i] + Len(stored[i].text) =
                   IF i < Len(offsets.docid) THEN starts[i + 1] ELSE Len(repository_file')
  <2>1. /\ stored[i].text # <<>>
        /\ Kept(repository_file, starts[i], stored[i].text)
        /\ starts[i] + Len(stored[i].text) =
              IF i < Len(offsets.docid) THEN starts[i + 1] ELSE Len(repository_file)
        /\ Len(offsets.docid) = IF Len(stored) = 0 THEN Len(stored) ELSE Len(stored) + 1
    BY <1>4 DEF TextsInFile
  <2>2. i < Len(offsets.docid) /\ starts[i] \in Int
    <3>1. i \in 1 .. Len(offsets.docid) /\ i < Len(offsets.docid)
      BY <1>1, <2>1
    <3>. HIDE DEF starts
    <3>. QED BY <1>3, <3>1
  <2>3. stored[i].text \in Seq(Int)
    BY <1>1, TextTypes
  <2>. HIDE DEF starts
  <2>4. Kept(repository_file \o cells, starts[i], stored[i].text)
    BY <1>1, <2>1, <2>2, <2>3, KeptStays
  <2>. QED BY <2>1, <2>2, <2>4
<1>. QED BY <1>2, <1>4 DEF TextsInFile

LEMMA NamesTypes ==
  ASSUME stored \in Seq(Document)
  PROVE  /\ StringsOf(stored) \in Seq(Seq(Nat)) /\ Len(StringsOf(stored)) = Len(stored)
         /\ Len(stored) \in Nat
         /\ FlatNames \in Seq(Nat) /\ Len(FlatNames) \in Nat
         /\ Positions(StringsOf(stored)) \in Seq(Nat)
         /\ Len(Positions(StringsOf(stored))) = Len(stored)
         /\ NameStarts \in Seq(Nat) /\ Len(NameStarts) = Len(stored) + 1
<1>. DEFINE strings == StringsOf(stored)
<1>1. strings \in Seq(Seq(Nat)) /\ Len(strings) = Len(stored) /\ Len(stored) \in Nat
  BY StringIs
<1>. HIDE DEF strings
<1>2. FlattenSeq(strings) \in Seq(Nat)
  BY <1>1, FlattenSteps
<1>3. Positions(strings) \in Seq(Nat)
  BY <1>1, <1>2, PositionsAppend
<1>4. Len(Positions(strings)) = Len(stored)
  BY <1>1 DEF Positions
<1>5. Len(FlattenSeq(strings)) \in Nat
  BY <1>2
<1>6. /\ Append(Positions(strings), Len(FlattenSeq(strings))) \in Seq(Nat)
      /\ Len(Append(Positions(strings), Len(FlattenSeq(strings)))) = Len(stored) + 1
  BY <1>3, <1>4, <1>5, AppendFacts
<1>. QED BY <1>1, <1>2, <1>3, <1>4, <1>5, <1>6 DEF FlatNames, NameStarts, strings

LEMMA NamesStay ==
  ASSUME NamesAt, stored \in Seq(Document), UNCHANGED stored, repository_file \in Seq(FileCell),
         NEW cells \in Seq(FileCell), repository_file' = repository_file \o cells,
         \A v \in {"start", "finish"} : v \in DOMAIN variables' /\ variables'[v] = variables[v]
  PROVE  NamesAt'
<1>1. FlatNames \in Seq(Nat)
  BY NamesTypes
<1>2. Kept(repository_file \o cells, variables["start"], FlatNames)
  BY <1>1, KeptStays DEF NamesAt
<1>3. FlatNames' = FlatNames
  BY DEF FlatNames
<1>. QED BY <1>2, <1>3 DEF NamesAt

LEMMA IndexStays ==
  ASSUME IndexAt, stored \in Seq(Document), UNCHANGED <<stored, variables>>,
         repository_file \in Seq(FileCell), NEW cells \in Seq(FileCell), repository_file' = repository_file \o cells
  PROVE  IndexAt'
<1>1. NameStarts \in Seq(Nat)
  BY NamesTypes
<1>2. Kept(repository_file \o cells, variables["index start"], NameStarts)
  <2>. DEFINE position == variables["index start"]
  <2>1. position \in Int /\ Kept(repository_file, position, NameStarts)
    <3>1. position \in Nat /\ Kept(repository_file, position, NameStarts)
      BY DEF IndexAt
    <3>. HIDE DEF position
    <3>. QED BY <3>1
  <2>. HIDE DEF position
  <2>2. Kept(repository_file \o cells, position, NameStarts)
    BY <1>1, <2>1, KeptStays
  <2>. QED BY <2>2 DEF position
<1>3. NameStarts' = NameStarts
  BY DEF NameStarts, FlatNames
<1>. QED BY <1>2, <1>3 DEF IndexAt

-----------------------------------------------------------------------------
\* The steps

\* The place where the file ends is a new posting of ~documentoffsets.
LEMMA OffsetAdded ==
  ASSUME TextsInFile, stored \in Seq(Document), storing, stage = "indexing"
  PROVE  LET starts == Sums(offsets.docid)
             next == AddPosting(offsets, Len(repository_file))
             more == Sums(next.docid)
         IN  /\ next.docid \in Seq(Int) /\ Len(next.docid) = Len(stored) + 1
             /\ next.document_frequency = Len(stored) + 1
             /\ next.current_docno = Total(next.docid)
             /\ more[Len(stored) + 1] = Len(repository_file)
             /\ \A i \in 1 .. Len(stored) : more[i] = starts[i] /\ starts[i] \in Int
<1>. DEFINE n == Len(stored)
            list == offsets.docid
            starts == Sums(list)
            here == Len(repository_file)
            gap == here - Total(list)
            next == AddPosting(offsets, here)
<1>1. /\ repository_file \in Seq(FileCell) /\ here > 0 /\ here \in Nat
      /\ list \in Seq(Int) /\ offsets.document_frequency = Len(list)
      /\ offsets.current_docno = Total(list)
      /\ n \in Nat /\ \A i \in 1 .. n : stored[i] \in Document
  BY DEF TextsInFile
<1>2. /\ Len(list) = n
      /\ \A i \in 1 .. n :
            /\ stored[i].text # <<>>
            /\ starts[i] + Len(stored[i].text) = IF i < n THEN starts[i + 1] ELSE here
  BY <1>1 DEF TextsInFile
<1>3. starts \in Seq(Int) /\ Len(starts) = n /\ Total(list) \in Int
      /\ (list = <<>> => Total(list) = 0) /\ (list # <<>> => starts[Len(list)] = Total(list))
  <2>1. 0 \in Int
    OBVIOUS
  <2>. QED BY <1>1, <1>2, <2>1, SumsAppend
<1>4. here # Total(list)
  <2>1. CASE n = 0
    <3>1. list = <<>>
      BY <1>1, <1>2, <2>1
    <3>. QED BY <1>1, <1>3, <3>1
  <2>2. CASE n # 0
    <3>1. n \in 1 .. n /\ list # <<>> /\ ~(n < n)
      BY <1>1, <1>2, <2>2
    <3>2. Total(list) + Len(stored[n].text) = here /\ stored[n].text # <<>>
      BY <1>2, <1>3, <3>1
    <3>3. stored[n].text \in Seq(Int)
      BY <1>1, <3>1, TextTypes
    <3>4. Len(stored[n].text) \in Nat /\ Len(stored[n].text) # 0
      BY <3>2, <3>3
    <3>. QED BY <1>3, <3>2, <3>4
  <2>. QED BY <2>1, <2>2
<1>5. gap \in Int /\ Total(list) + gap = here
  BY <1>1, <1>3
<1>. HIDE DEF gap, next
<1>6. next = [docid |-> Append(list, gap), tf |-> Append(offsets.tf, 1),
              collection_frequency |-> offsets.collection_frequency + 1,
              document_frequency |-> Len(list) + 1, current_docno |-> here]
  BY <1>1, <1>4 DEF AddPosting, gap, next
<1>. DEFINE longer == Append(list, gap)
<1>7. next.docid = longer /\ next.document_frequency = n + 1 /\ next.current_docno = here
  BY <1>2, <1>6
<1>8. /\ longer \in Seq(Int) /\ Len(longer) = n + 1
      /\ Total(longer) = here /\ Sums(longer) = Append(starts, here)
  <2>1. /\ Total(Append(list, gap)) = Total(list) + gap
        /\ Sums(Append(list, gap)) = Append(Sums(list), Total(list) + gap)
    BY <1>1, <1>5, SumsAppend
  <2>2. Append(list, gap) \in Seq(Int) /\ Len(Append(list, gap)) = Len(list) + 1
    BY <1>1, <1>5, AppendFacts
  <2>. QED BY <1>2, <1>5, <2>1, <2>2
<1>9. /\ Append(starts, here)[n + 1] = here
      /\ \A i \in 1 .. n : Append(starts, here)[i] = starts[i] /\ starts[i] \in Int
  <2>1. here \in Int
    BY <1>1
  <2>. HIDE DEF starts, here
  <2>. QED BY <1>3, <2>1, AppendFacts
<1>. HIDE DEF longer
<1>. QED BY <1>7, <1>8, <1>9 DEF next

\* add_to_document_repository() writes the text where the file ends.
LEMMA AddKeepsFile ==
  ASSUME StoreInv, NEW name \in FileNames, NEW text \in Texts, AddToDocumentRepository(name, text)
  PROVE  FileInv'
<1>. DEFINE kept == IF storing THEN text ELSE <<>>
            document == [name |-> name, text |-> kept]
            n == Len(stored)
            cells == [i \in DOMAIN text |-> Cell("char", text[i])]
            list == offsets.docid
            starts == Sums(list)
<1>1. /\ stage = "indexing" /\ stage' = "indexing" /\ storing' = storing
      /\ stored' = Append(stored, document)
      /\ storing => /\ offsets' = AddPosting(offsets, Len(repository_file))
                    /\ repository_file' = repository_file \o cells
      /\ ~storing => offsets' = offsets /\ repository_file' = repository_file
  BY DEF AddToDocumentRepository
<1>2. kept \in Texts \cup {<<>>} /\ text \in Seq(Nat) /\ text \in Seq(Int) /\ text # <<>>
  BY RepositoryAssumption
<1>3. document \in Document /\ document.text = kept
  BY <1>2 DEF Document
<1>4. /\ n \in Nat /\ Len(stored') = n + 1 /\ stored'[n + 1] = document /\ stored \in Seq(Document)
      /\ \A i \in 1 .. n : stored'[i] = stored[i] /\ stored[i] \in Document
  <2>. HIDE DEF document
  <2>. QED BY <1>1, <1>3, AppendFacts DEF StoreInv, NamesInv
<1>5. /\ repository_file \in Seq(FileCell) /\ Len(repository_file) > 0 /\ Len(repository_file) \in Nat
      /\ list \in Seq(Int) /\ offsets.document_frequency = Len(list)
      /\ offsets.current_docno = Total(list)
  BY DEF StoreInv, FileInv, TextsInFile
<1>6. NamesInFile' /\ OffsetsInFile' /\ IsOpen'
  BY <1>1 DEF NamesInFile, OffsetsInFile, IsOpen
<1>7. CASE ~storing
  <2>1. document.text = <<>>
    BY <1>3, <1>7
  <2>2. list = <<>> /\ \A i \in 1 .. n : stored[i].text = <<>>
    BY <1>7 DEF StoreInv, FileInv, TextsInFile
  <2>3. \A i \in 1 .. n + 1 : i = n + 1 \/ i \in 1 .. n
    BY <1>4
  <2>. HIDE DEF document
  <2>4. \A i \in 1 .. Len(stored') : stored'[i].text = <<>>
    BY <1>4, <2>1, <2>2, <2>3
  <2>. HIDE DEF n
  <2>5. TextsInFile'
    BY <1>1, <1>5, <1>7, <2>2, <2>4 DEF TextsInFile
  <2>. QED BY <1>6, <2>5 DEF FileInv
<1>8. CASE storing
  <2>. DEFINE here == Len(repository_file)
              more == Sums(offsets'.docid)
  <2>1. \A i \in 1 .. n :
              /\ stored[i].text # <<>>
              /\ Kept(repository_file, starts[i], stored[i].text)
              /\ starts[i] + Len(stored[i].text) = IF i < n THEN starts[i + 1] ELSE here
    BY <1>1, <1>8 DEF StoreInv, FileInv, TextsInFile
  <2>2. /\ offsets'.docid \in Seq(Int) /\ Len(offsets'.docid) = n + 1
        /\ offsets'.document_frequency = n + 1
        /\ offsets'.current_docno = Total(offsets'.docid)
        /\ more[n + 1] = here
        /\ \A i \in 1 .. n : more[i] = starts[i] /\ starts[i] \in Int
    BY <1>1, <1>4, <1>8, OffsetAdded DEF StoreInv, FileInv
  <2>3. /\ repository_file' \in Seq(FileCell)
        /\ Len(repository_file') = here + Len(text)
        /\ Kept(repository_file', here, text) /\ Len(text) \in Nat
        /\ repository_file' = repository_file \o cells /\ cells \in Seq(FileCell)
    <3>1. "char" \in CellKinds
      BY DEF CellKinds
    <3>2. repository_file' = repository_file \o cells /\ Len(text) \in Nat
      BY <1>1, <1>2, <1>8
    <3>3. /\ cells \in Seq(FileCell) /\ Len(cells) = Len(text)
          /\ repository_file \o cells \in Seq(FileCell)
          /\ Len(repository_file \o cells) = Len(repository_file) + Len(text)
          /\ Kept(repository_file \o cells, Len(repository_file), text)
      BY <1>2, <1>5, <3>1, KeptWhenWritten
    <3>. HIDE DEF cells
    <3>. QED BY <3>2, <3>3
  <2>4. document.text = text
    BY <1>3, <1>8
  <2>. HIDE DEF document, cells, starts, here, more
  <2>5. ASSUME NEW i \in 1 .. n + 1
        PROVE  /\ stored'[i].text # <<>>
               /\ Kept(repository_file', more[i], stored'[i].text)
               /\ more[i] + Len(stored'[i].text) =
                      IF i < n + 1 THEN more[i + 1] ELSE Len(repository_file')
    <3>1. CASE i = n + 1
      <4>1. ~(i < n + 1)
        BY <1>4, <3>1
      <4>. QED BY <1>2, <1>4, <2>2, <2>3, <2>4, <3>1, <4>1
    <3>2. CASE i # n + 1
      <4>1. i \in 1 .. n /\ i < n + 1 /\ (i < n => i + 1 \in 1 .. n) /\ (~(i < n) => i + 1 = n + 1)
        BY <1>4, <3>2
      <4>2. starts[i] \in Int /\ stored[i].text \in Seq(Int)
        BY <1>4, <2>2, <4>1, TextTypes
      <4>3. Kept(repository_file', starts[i], stored[i].text)
        BY <1>5, <2>1, <2>3, <4>1, <4>2, KeptStays
      <4>4. starts[i] + Len(stored[i].text) = more[i + 1]
        BY <2>1, <2>2, <4>1
      <4>. QED BY <1>4, <2>1, <2>2, <4>1, <4>3, <4>4
    <3>. QED BY <3>1, <3>2
  <2>6. Len(repository_file') > 0
    BY <1>5, <2>3 DEF here
  <2>7. TextsInFile'
    BY <1>1, <1>4, <1>8, <2>2, <2>3, <2>5, <2>6 DEF TextsInFile, more
  <2>. QED BY <1>6, <2>7 DEF FileInv
<1>. QED BY <1>7, <1>8

\* What serialise_filenames() writes are the names.
LEMMA CollectedIs == NamesInv => CollectedNames = FlatNames
<1>. SUFFICES ASSUME NamesInv PROVE CollectedNames = FlatNames
  OBVIOUS
<1>1. PICK chain, pieces :
        /\ IsChain(chain, pieces, content, granted, document_filenames_used)
        /\ document_filenames = Newest(chain)
        /\ Len(chain) <= Len(stored)
        /\ FlattenSeq(pieces) = FlattenSeq(StringsOf(stored))
  BY DEF NamesInv, Chained
<1>2. Len(stored) \in Nat
  BY DEF NamesInv
<1>3. CollectedNames = FlattenSeq(pieces)
  BY <1>1, <1>2, BlocksAreReal, CollectedArePieces DEF NamesInv
<1>. QED BY <1>1, <1>3 DEF FlatNames

\* There is a chunk once there is a document.
LEMMA NoChunkNoDocument ==
  ASSUME NamesInv, document_filenames = NULL
  PROVE  stored = <<>>
<1>1. PICK chain, pieces :
        /\ IsChain(chain, pieces, content, granted, document_filenames_used)
        /\ document_filenames = Newest(chain)
        /\ FlattenSeq(pieces) = FlattenSeq(StringsOf(stored))
  BY DEF NamesInv, Chained
<1>2. chain = <<>>
  <2>. SUFFICES ASSUME chain # <<>> PROVE FALSE
    OBVIOUS
  <2>1. chain \in Seq(granted)
    BY <1>1 DEF IsChain
  <2>2. chain[Len(chain)] \in granted
    BY <2>1
  <2>3. \A a \in granted : a.block # 0
    BY BlocksAreReal DEF NamesInv, Real
  <2>4. chain[Len(chain)] = NULL /\ NULL.block = 0
    BY <1>1 DEF Newest, NULL
  <2>. QED BY <2>2, <2>3, <2>4
<1>3. pieces \in Seq(Seq(Nat)) /\ Len(pieces) = 0
  BY <1>1, <1>2 DEF IsChain
<1>4. pieces = <<>> /\ <<>> \in Seq(Nat)
  BY <1>3
<1>5. FlattenSeq(pieces) = <<>>
  BY <1>3, <1>4, FlattenSteps
<1>6. stored \in Seq(Document)
  BY DEF NamesInv
<1>. DEFINE strings == StringsOf(stored)
<1>7. /\ strings \in Seq(Seq(Nat)) /\ Len(strings) = Len(stored) /\ Len(stored) \in Nat
      /\ \A i \in 1 .. Len(stored) : /\ stored[i].name \in Seq(Nat \ {0})
                                     /\ Len(strings[i]) = Len(stored[i].name) + 1
  BY <1>6, StringIs
<1>. HIDE DEF strings
<1>8. SUFFICES ASSUME Len(stored) # 0 PROVE FALSE
  BY <1>6
<1>9. 1 \in 1 .. Len(stored) /\ 1 \in 1 .. Len(strings)
  BY <1>7, <1>8
<1>10. Len(stored[1].name) \in Nat /\ Len(strings[1]) = Len(stored[1].name) + 1
  BY <1>7, <1>9
<1>11. /\ Position(strings, 1) \in Nat
       /\ Position(strings, 1 + 1) = Position(strings, 1) + Len(strings[1])
       /\ Position(strings, 1 + 1) <= Len(FlattenSeq(strings))
  BY <1>7, <1>9, PartBetween
<1>12. Len(FlattenSeq(strings)) = 0
  BY <1>1, <1>5 DEF strings
<1>. QED BY <1>10, <1>11, <1>12

LEMMA EndKeepsFile == StoreInv /\ SerialiseOffsetsEnd => FileInv'
<1>. SUFFICES ASSUME StoreInv, SerialiseOffsetsEnd PROVE FileInv'
  OBVIOUS
<1>. DEFINE n == Len(stored)
            list == offsets.docid
            starts == Sums(list)
            here == Len(repository_file)
<1>1. /\ stage = "indexing" /\ storing' = storing /\ stored' = stored /\ repository_file' = repository_file
      /\ offsets' = IF list = <<>> THEN offsets ELSE AddPosting(offsets, here)
      /\ stage' = IF document_filenames = NULL THEN "lists" ELSE "filenames"
  BY DEF SerialiseOffsetsEnd
<1>2. stored \in Seq(Document) /\ n \in Nat /\ (n = 0 => stored = <<>>)
  BY DEF StoreInv, NamesInv
<1>3. NamesInFile' /\ OffsetsInFile' /\ IsOpen'
  BY <1>1, NoChunkNoDocument DEF NamesInFile, OffsetsInFile, IsOpen, StoreInv
<1>4. stage' # "indexing"
  BY <1>1
<1>5. /\ repository_file \in Seq(FileCell) /\ here > 0 /\ list \in Seq(Int)
      /\ offsets.document_frequency = Len(list) /\ offsets.current_docno = Total(list)
      /\ storing => /\ Len(list) = n
                    /\ \A i \in 1 .. n :
                          /\ stored[i].text # <<>>
                          /\ Kept(repository_file, starts[i], stored[i].text)
                          /\ starts[i] + Len(stored[i].text) = IF i < n THEN starts[i + 1] ELSE here
      /\ ~storing => list = <<>> /\ \A i \in 1 .. n : stored[i].text = <<>>
  BY <1>1 DEF StoreInv, FileInv, TextsInFile
<1>6. CASE list = <<>>
  <2>1. offsets' = offsets /\ Len(list) = 0
    BY <1>1, <1>6
  <2>2. storing => n = 0 /\ 1 .. n = {}
    BY <1>5, <2>1
  <2>3. TextsInFile'
    BY <1>1, <1>4, <1>5, <2>1, <2>2 DEF TextsInFile
  <2>. QED BY <1>3, <2>3 DEF FileInv
<1>7. CASE list # <<>>
  <2>. DEFINE more == Sums(offsets'.docid)
  <2>1. storing /\ n # 0 /\ offsets' = AddPosting(offsets, here)
    <3>1. Len(list) # 0
      BY <1>5, <1>7
    <3>. QED BY <1>1, <1>5, <1>7, <3>1
  <2>2. /\ offsets'.docid \in Seq(Int) /\ Len(offsets'.docid) = n + 1
        /\ offsets'.document_frequency = n + 1
        /\ offsets'.current_docno = Total(offsets'.docid)
        /\ more[n + 1] = here
        /\ \A i \in 1 .. n : more[i] = starts[i] /\ starts[i] \in Int
    BY <1>1, <1>2, <2>1, OffsetAdded DEF StoreInv, FileInv
  <2>. HIDE DEF more
  <2>3. ASSUME NEW i \in 1 .. n
        PROVE  /\ stored[i].text # <<>>
               /\ Kept(repository_file, more[i], stored[i].text)
               /\ more[i] + Len(stored[i].text) = IF i < n + 1 THEN more[i + 1] ELSE here
    <3>1. i < n + 1 /\ (i < n => i + 1 \in 1 .. n) /\ (~(i < n) => i + 1 = n + 1)
      BY <1>2
    <3>. HIDE DEF n, starts, here
    <3>. QED BY <1>5, <2>1, <2>2, <3>1
  <2>. HIDE DEF n
  <2>4. TextsInFile'
    BY <1>1, <1>4, <1>5, <2>1, <2>2, <2>3 DEF TextsInFile, more, n
  <2>. QED BY <1>3, <2>4 DEF FileInv
<1>. QED BY <1>6, <1>7

LEMMA NamesKeepFile == StoreInv /\ SerialiseFilenames => FileInv'
<1>. SUFFICES ASSUME StoreInv, SerialiseFilenames PROVE FileInv'
  OBVIOUS
<1>. DEFINE cells == [i \in DOMAIN FlatNames |-> Cell("char", FlatNames[i])]
            begun == SetVariable(variables, "start", Len(repository_file))
<1>1. /\ stage = "filenames" /\ stage' = "names index" /\ UNCHANGED <<storing, offsets, stored>>
      /\ repository_file' = repository_file \o cells
      /\ variables' = SetVariable(begun, "finish", Len(repository_file'))
  BY CollectedIs DEF SerialiseFilenames, StoreInv
<1>2. /\ stored \in Seq(Document) /\ repository_file \in Seq(FileCell) /\ TextsInFile
      /\ Len(repository_file) \in Nat
  BY DEF StoreInv, NamesInv, FileInv, TextsInFile
<1>3. FlatNames \in Seq(Nat) /\ FlatNames \in Seq(Int) /\ FlatNames' = FlatNames
  <2>1. FlatNames \in Seq(Nat)
    BY <1>2, NamesTypes
  <2>2. FlatNames' = FlatNames
    BY <1>1 DEF FlatNames
  <2>. QED BY <2>1, <2>2
<1>4. /\ cells \in Seq(FileCell) /\ repository_file \o cells \in Seq(FileCell)
      /\ Len(repository_file \o cells) = Len(repository_file) + Len(FlatNames)
      /\ Kept(repository_file \o cells, Len(repository_file), FlatNames)
  <2>1. "char" \in CellKinds
    BY DEF CellKinds
  <2>. QED BY <1>2, <1>3, <2>1, KeptWhenWritten
<1>. HIDE DEF cells
<1>5. TextsInFile'
  BY <1>1, <1>2, <1>4, TextsStay
<1>6. /\ {"start", "finish"} \subseteq DOMAIN variables'
      /\ variables'["start"] = Len(repository_file) /\ variables'["finish"] = Len(repository_file')
  <2>1. "start" \in DOMAIN begun /\ begun["start"] = Len(repository_file)
    BY DEF SetVariable
  <2>2. "start" \in DOMAIN begun \ {"finish"}
    BY <2>1
  <2>. HIDE DEF begun
  <2>. DEFINE after == SetVariable(begun, "finish", Len(repository_file'))
  <2>3. /\ DOMAIN after = DOMAIN begun \cup {"finish"} /\ after["finish"] = Len(repository_file')
        /\ \A v \in DOMAIN begun \ {"finish"} : after[v] = begun[v]
    BY DEF SetVariable
  <2>4. variables' = after
    BY <1>1
  <2>. HIDE DEF after
  <2>. QED BY <2>1, <2>2, <2>3, <2>4
<1>7. NamesAt'
  BY <1>1, <1>2, <1>3, <1>4, <1>6 DEF NamesAt
<1>8. NamesInFile' /\ OffsetsInFile' /\ IsOpen'
  BY <1>1, <1>7 DEF NamesInFile, OffsetsInFile, IsOpen
<1>. QED BY <1>5, <1>8 DEF FileInv

LEMMA IndexKeepsFile == StoreInv /\ SerialiseFilenamesIndex => FileInv'
<1>. SUFFICES ASSUME StoreInv, SerialiseFilenamesIndex PROVE FileInv'
  OBVIOUS
<1>. DEFINE positions == Positions(StringsOf(stored))
            size == Len(FlatNames)
            cells == [i \in DOMAIN NameStarts |-> Cell("number", NameStarts[i])]
<1>1. /\ stage = "names index" /\ stage' = "lists" /\ UNCHANGED <<storing, offsets, stored>>
      /\ repository_file' = repository_file \o [i \in DOMAIN FlattenSeq(chunk) |-> Cell("number", FlattenSeq(chunk)[i])]
                          \o <<Cell("number", document_filename_bytes_used)>>
      /\ variables' = SetVariable(variables, "index start", Len(repository_file))
  BY DEF SerialiseFilenamesIndex
<1>2. /\ stored \in Seq(Document) /\ repository_file \in Seq(FileCell) /\ TextsInFile
      /\ Len(repository_file) \in Nat
      /\ FlattenSeq(chunk) = positions /\ document_filename_bytes_used = size
  BY DEF StoreInv, NamesInv, FileInv, TextsInFile, Indexed, FlatNames
<1>3. /\ positions \in Seq(Nat) /\ size \in Nat
      /\ NameStarts = Append(positions, size) /\ NameStarts \in Seq(Nat) /\ NameStarts \in Seq(Int)
  <2>1. positions \in Seq(Nat) /\ size \in Nat /\ NameStarts \in Seq(Nat)
    BY <1>2, NamesTypes
  <2>2. NameStarts \in Seq(Int)
    BY <2>1
  <2>. QED BY <2>1, <2>2 DEF NameStarts
<1>. HIDE DEF positions, size
<1>4. repository_file' = repository_file \o cells
  <2>. DEFINE front == [i \in DOMAIN positions |-> Cell("number", positions[i])]
              last == Cell("number", size)
  <2>1. front \in Seq(FileCell) /\ last \in FileCell /\ Len(front) = Len(positions)
        /\ Len(positions) \in Nat
    <3>1. "number" \in CellKinds /\ positions \in Seq(Int)
      BY <1>3 DEF CellKinds
    <3>2. last \in FileCell
      BY <1>3 DEF FileCell, Cell, CellKinds
    <3>3. front \in Seq(FileCell) /\ Len(front) = Len(positions)
      BY <1>2, <3>1, KeptWhenWritten
    <3>. HIDE DEF front, last
    <3>. QED BY <1>3, <3>2, <3>3
  <2>2. \A i \in 1 .. Len(positions) : front[i] = Cell("number", positions[i])
    BY <1>3
  <2>. DEFINE whole == front \o <<last>>
  <2>3. /\ whole \in Seq(FileCell) /\ Len(whole) = Len(positions) + 1
        /\ \A i \in 1 .. Len(positions) : whole[i] = Cell("number", positions[i])
        /\ whole[Len(positions) + 1] = Cell("number", size)
    <3>. HIDE DEF front
    <3>1. whole = Append(front, last)
      BY <2>1
    <3>. HIDE DEF last
    <3>2. /\ Append(front, last) \in Seq(FileCell) /\ Len(Append(front, last)) = Len(front) + 1
          /\ Append(front, last)[Len(front) + 1] = last
          /\ \A i \in 1 .. Len(front) : Append(front, last)[i] = front[i]
      BY <2>1, AppendFacts
    <3>. HIDE DEF whole
    <3>. QED BY <2>1, <2>2, <3>1, <3>2 DEF last
  <2>4. /\ Len(NameStarts) = Len(positions) + 1
        /\ \A i \in 1 .. Len(positions) : NameStarts[i] = positions[i]
        /\ NameStarts[Len(positions) + 1] = size
    BY <1>3, AppendFacts
  <2>5. cells \in Seq(FileCell) /\ Len(cells) = Len(positions) + 1
        /\ \A i \in 1 .. Len(positions) + 1 : cells[i] = Cell("number", NameStarts[i])
    <3>1. "number" \in CellKinds
      BY DEF CellKinds
    <3>2. cells \in Seq(FileCell) /\ Len(cells) = Len(NameStarts)
      <4>1. NameStarts \in Seq(Int) /\ repository_file \in Seq(FileCell)
        BY <1>2, <1>3
      <4>. QED BY <3>1, <4>1, KeptWhenWritten
    <3>3. DOMAIN NameStarts = 1 .. Len(positions) + 1
      BY <1>3, <2>4
    <3>. QED BY <2>4, <3>2, <3>3
  <2>. HIDE DEF whole, cells
  <2>6. Agree(whole, cells)
    <3>1. ASSUME NEW i \in 1 .. Len(positions) + 1 PROVE whole[i] = cells[i]
      <4>1. i = Len(positions) + 1 \/ i \in 1 .. Len(positions)
        BY <2>1
      <4>. QED BY <2>3, <2>4, <2>5, <4>1
    <3>. QED BY <2>3, <2>5, <3>1 DEF Agree
  <2>7. whole = cells
    BY <2>3, <2>5, <2>6, SameLists
  <2>8. repository_file' = (repository_file \o front) \o <<last>>
    BY <1>1, <1>2 DEF front, last
  <2>9. (repository_file \o front) \o <<last>> = repository_file \o (front \o <<last>>)
    <3>1. <<last>> \in Seq(FileCell)
      BY <2>1
    <3>. HIDE DEF front, last
    <3>. QED BY <1>2, <2>1, <3>1, JoinedTwice
  <2>. QED BY <2>7, <2>8, <2>9 DEF whole
<1>5. /\ cells \in Seq(FileCell) /\ Kept(repository_file \o cells, Len(repository_file), NameStarts)
  <2>1. "number" \in CellKinds
    BY DEF CellKinds
  <2>2. NameStarts \in Seq(Int) /\ repository_file \in Seq(FileCell)
    BY <1>2, <1>3
  <2>. QED BY <2>1, <2>2, KeptWhenWritten
<1>. HIDE DEF cells
<1>6. TextsInFile'
  BY <1>1, <1>2, <1>4, <1>5, TextsStay
<1>7. /\ "index start" \in DOMAIN variables' /\ variables'["index start"] = Len(repository_file)
      /\ \A v \in {"start", "finish"} : v \in DOMAIN variables => v \in DOMAIN variables'
                                                      /\ variables'[v] = variables[v]
  <2>1. variables' = [v \in DOMAIN variables \cup {"index start"} |->
                         IF v = "index start" THEN Len(repository_file) ELSE variables[v]]
    BY <1>1 DEF SetVariable
  <2>2. \A v \in {"start", "finish"} : v # "index start"
    OBVIOUS
  <2>. QED BY <2>1, <2>2
<1>8. NameStarts' = NameStarts
  BY <1>1 DEF NameStarts, FlatNames
<1>9. IndexAt'
  BY <1>2, <1>4, <1>5, <1>7, <1>8 DEF IndexAt
<1>10. stored # <<>> => NamesAt'
  <2>. SUFFICES ASSUME stored # <<>> PROVE NamesAt'
    OBVIOUS
  <2>1. NamesAt
    BY <1>1 DEF StoreInv, FileInv, NamesInFile
  <2>2. \A v \in {"start", "finish"} : v \in DOMAIN variables' /\ variables'[v] = variables[v]
    BY <1>7, <2>1 DEF NamesAt
  <2>. QED BY <1>1, <1>2, <1>4, <1>5, <2>1, <2>2, NamesStay
<1>11. NamesInFile' /\ OffsetsInFile' /\ IsOpen'
  BY <1>1, <1>9, <1>10 DEF NamesInFile, OffsetsInFile, IsOpen
<1>. QED BY <1>6, <1>11 DEF FileInv

LEMMA OffsetsKeepFile == ListsAreWritten /\ StoreInv /\ SerialiseOffsets => FileInv'
<1>. SUFFICES ASSUME ListsAreWritten, StoreInv, SerialiseOffsets PROVE FileInv'
  OBVIOUS
<1>1. /\ stage = "lists" /\ stage' = "written" /\ UNCHANGED <<storing, offsets, stored, variables>>
      /\ offsets.docid = <<>> => repository_file' = repository_file
      /\ offsets.docid # <<>> => /\ offsets_in_disk' = InDisk(offsets, TRUE, Len(repository_file))
                                 /\ repository_file' = repository_file \o Written(offsets, TRUE)
  BY DEF SerialiseOffsets
<1>2. /\ stored \in Seq(Document) /\ repository_file \in Seq(FileCell) /\ TextsInFile
      /\ offsets.docid \in Seq(Int) /\ offsets.document_frequency = Len(offsets.docid)
      /\ Len(offsets.docid) \in Nat
  BY DEF StoreInv, NamesInv, FileInv, TextsInFile
<1>3. \E cells \in Seq(FileCell) : repository_file' = repository_file \o cells
  <2>1. repository_file \o <<>> = repository_file /\ <<>> \in Seq(FileCell)
    BY <1>2
  <2>2. CASE offsets.docid = <<>>
    BY <1>1, <2>1, <2>2
  <2>3. CASE offsets.docid # <<>> /\ Len(offsets.docid) <= 2
    <3>1. Written(offsets, TRUE) = <<>>
      BY <1>2, <2>3 DEF Written
    <3>. QED BY <1>1, <2>1, <2>3, <3>1
  <2>4. CASE offsets.docid # <<>> /\ ~(Len(offsets.docid) <= 2)
    <3>1. Compress(offsets.docid) = <<Cell("list", offsets.docid)>>
      BY <1>2, <2>4, CompressWrites
    <3>2. Cell("list", offsets.docid) \in FileCell
      BY <1>2 DEF Cell, FileCell, CellKinds
    <3>3. Written(offsets, TRUE) = <<Cell("list", offsets.docid)>>
      BY <1>2, <2>4, <3>1 DEF Written
    <3>4. <<Cell("list", offsets.docid)>> \in Seq(FileCell)
      BY <3>2
    <3>. QED BY <1>1, <2>4, <3>3, <3>4
  <2>. QED BY <2>2, <2>3, <2>4
<1>4. PICK cells \in Seq(FileCell) : repository_file' = repository_file \o cells
  BY <1>3
<1>5. TextsInFile'
  BY <1>1, <1>2, <1>4, TextsStay
<1>6. stored # <<>> => NamesAt' /\ IndexAt'
  <2>. SUFFICES ASSUME stored # <<>> PROVE NamesAt' /\ IndexAt'
    OBVIOUS
  <2>1. NamesAt /\ IndexAt
    BY <1>1 DEF StoreInv, FileInv, NamesInFile
  <2>2. \A v \in {"start", "finish"} : v \in DOMAIN variables' /\ variables'[v] = variables[v]
    BY <1>1, <2>1 DEF NamesAt
  <2>3. NamesAt'
    BY <1>1, <1>2, <1>4, <2>1, <2>2, NamesStay
  <2>4. IndexAt'
    BY <1>1, <1>2, <1>4, <2>1, IndexStays
  <2>. QED BY <2>3, <2>4
<1>7. OffsetsInFile'
  <2>. SUFFICES ASSUME Len(offsets.docid) > 2
                PROVE  GetList(Leaf(offsets, offsets_in_disk'), repository_file') = offsets.docid
    BY <1>1 DEF OffsetsInFile
  <2>1. offsets.docid # <<>>
    OBVIOUS
  <2>2. GetList(Leaf(offsets, InDisk(offsets, TRUE, Len(repository_file))),
                repository_file \o Written(offsets, TRUE)) = offsets.docid
    BY <1>2, ListRead
  <2>. QED BY <1>1, <2>1, <2>2
<1>8. NamesInFile' /\ IsOpen'
  BY <1>1, <1>6 DEF NamesInFile, IsOpen
<1>. QED BY <1>5, <1>7, <1>8 DEF FileInv

LEMMA OpenKeepsFile == StoreInv /\ OpenRepository => FileInv'
<1>. SUFFICES ASSUME StoreInv, OpenRepository PROVE FileInv'
  OBVIOUS
<1>1. /\ stage = "written" /\ stage' = "searching"
      /\ UNCHANGED <<storing, offsets, stored, variables, repository_file, offsets_in_disk>>
      /\ document_offsets' = IF offsets.docid = <<>> THEN <<>>
                             ELSE Sums(GetList(Leaf(offsets, offsets_in_disk), repository_file))
      /\ filename_start' = GetVariableOf("start")
      /\ filename_finish' = GetVariableOf("finish")
      /\ filename_index_start' = GetVariableOf("index start")
  BY DEF OpenRepository
<1>2. TextsInFile'
  BY <1>1 DEF StoreInv, FileInv, TextsInFile
<1>3. NamesInFile' /\ OffsetsInFile'
  BY <1>1 DEF StoreInv, FileInv, NamesInFile, NamesAt, IndexAt, FlatNames, NameStarts, OffsetsInFile
<1>4. \A v \in DOMAIN variables : variables[v] \in Nat => GetVariableOf(v) = variables[v]
  BY VariableRead DEF GetVariableOf
<1>5. stored # <<>> => /\ filename_start' = variables["start"]
                       /\ filename_finish' = variables["finish"]
                       /\ filename_index_start' = variables["index start"]
  <2>. SUFFICES ASSUME stored # <<>>
                PROVE  /\ filename_start' = variables["start"]
                       /\ filename_finish' = variables["finish"]
                       /\ filename_index_start' = variables["index start"]
    OBVIOUS
  <2>1. NamesAt /\ IndexAt
    BY <1>1 DEF StoreInv, FileInv, NamesInFile
  <2>2. Len(FlatNames) \in Nat
    BY NamesTypes DEF StoreInv, NamesInv
  <2>3. /\ {"start", "finish", "index start"} \subseteq DOMAIN variables
        /\ variables["start"] \in Nat /\ variables["finish"] \in Nat /\ variables["index start"] \in Nat
    <3>1. \A a, b \in Nat : a + b \in Nat
      OBVIOUS
    <3>2. /\ {"start", "finish"} \subseteq DOMAIN variables
          /\ variables["start"] \in Nat /\ variables["finish"] = variables["start"] + Len(FlatNames)
      BY <2>1 DEF NamesAt
    <3>3. "index start" \in DOMAIN variables /\ variables["index start"] \in Nat
      BY <2>1 DEF IndexAt
    <3>4. variables["finish"] \in Nat
      BY <2>2, <3>1, <3>2
    <3>. QED BY <3>2, <3>3, <3>4
  <2>. QED BY <1>1, <1>4, <2>3
<1>6. offsets.docid = <<>> => document_offsets' = <<>>
  BY <1>1
<1>7. Len(offsets.docid) > 2 => document_offsets' = Sums(offsets.docid)
  <2>. SUFFICES ASSUME Len(offsets.docid) > 2 PROVE document_offsets' = Sums(offsets.docid)
    OBVIOUS
  <2>1. offsets.docid # <<>>
    BY DEF StoreInv, FileInv, TextsInFile
  <2>2. GetList(Leaf(offsets, offsets_in_disk), repository_file) = offsets.docid
    BY <1>1 DEF StoreInv, FileInv, OffsetsInFile
  <2>. QED BY <1>1, <2>1, <2>2
<1>8. IsOpen'
  BY <1>1, <1>5, <1>6, <1>7 DEF IsOpen
<1>. QED BY <1>2, <1>3, <1>8 DEF FileInv

LEMMA StepKeepsFile == ListsAreWritten /\ StoreInv /\ [RepositoryNext]_repository_vars => StoreInv'
<1>. SUFFICES ASSUME ListsAreWritten, StoreInv, [RepositoryNext]_repository_vars PROVE FileInv'
  BY StepKeepsNames DEF StoreInv
<1>2. CASE OtherMalloc
  BY <1>2, FileUnchanged DEF OtherMalloc, StoreInv
<1>3. CASE \E name \in FileNames, text \in Texts : AddToDocumentRepository(name, text)
  BY <1>3, AddKeepsFile
<1>4. CASE SerialiseOffsetsEnd
  BY <1>4, EndKeepsFile
<1>5. CASE SerialiseFilenames \/ SerialiseFilenamesIndex
  BY <1>5, NamesKeepFile, IndexKeepsFile
<1>6. CASE SerialiseOffsets \/ OpenRepository
  BY <1>6, OffsetsKeepFile, OpenKeepsFile
<1>7. ASSUME NEW question, NEW answer, Answer(question, answer)
      PROVE  FileInv'
  BY <1>7, FileUnchanged DEF Answer, StoreInv
<1>8. CASE \/ \E id \in 0 .. Len(stored) - 1 : GetDocumentFilename(id) \/ GetDocument(id)
           \/ GetDocumentFilenames
  BY <1>7, <1>8 DEF GetDocumentFilename, GetDocument, GetDocumentFilenames
<1>9. CASE UNCHANGED repository_vars
  BY <1>9, FileUnchanged DEF repository_vars, StoreInv
<1>. QED
  BY <1>2, <1>3, <1>4, <1>5, <1>6, <1>8, <1>9 DEF RepositoryNext

-----------------------------------------------------------------------------
\* The answers

LEMMA StartsAre ==
  ASSUME stored \in Seq(Document)
  PROVE  \A i \in 1 .. Len(stored) + 1 : NameStarts[i] = Position(StringsOf(stored), i)
<1>. DEFINE strings == StringsOf(stored)
            positions == Positions(strings)
            n == Len(stored)
            size == Len(FlatNames)
<1>1. /\ strings \in Seq(Seq(Nat)) /\ Len(strings) = n /\ n \in Nat
      /\ positions \in Seq(Nat) /\ Len(positions) = n /\ size \in Nat
      /\ NameStarts = Append(positions, size)
  BY NamesTypes DEF NameStarts
<1>2. \A i \in 1 .. n : positions[i] = Position(strings, i)
  BY <1>1 DEF Positions
<1>3. size = Position(strings, n + 1)
  BY <1>1, FirstAndEnd DEF FlatNames
<1>. HIDE DEF strings, positions, n, size
<1>4. /\ Append(positions, size)[n + 1] = size
      /\ \A i \in 1 .. n : Append(positions, size)[i] = positions[i]
  BY <1>1, AppendFacts
<1>5. \A i \in 1 .. n + 1 : i = n + 1 \/ i \in 1 .. n
  BY <1>1
<1>6. \A i \in 1 .. n + 1 : NameStarts[i] = Position(strings, i)
  BY <1>1, <1>2, <1>3, <1>4, <1>5
<1>. QED BY <1>6 DEF strings, n

\* get_document_filename()
LEMMA NameRead ==
  ASSUME StoreInv, stage = "searching", NEW id \in 0 .. Len(stored) - 1
  PROVE  LET offset == ReadCells(filename_index_start + id, 2)
         IN  NameOf(ReadCells(filename_start + offset[1], offset[2] - offset[1]))
                = stored[id + 1].name
<1>. DEFINE strings == StringsOf(stored)
            n == Len(stored)
            i == id + 1
            name == stored[i].name
            from == Position(strings, i)
            to == Position(strings, i + 1)
            part == <<from, to>>
            offset == ReadCells(filename_index_start + id, 2)
<1>1. stored \in Seq(Document) /\ n \in Nat /\ stored # <<>>
  BY DEF StoreInv, NamesInv
<1>2. /\ strings \in Seq(Seq(Nat)) /\ Len(strings) = n
      /\ FlatNames \in Seq(Nat) /\ Len(FlatNames) \in Nat
      /\ NameStarts \in Seq(Nat) /\ Len(NameStarts) = n + 1
  BY <1>1, NamesTypes
<1>3. i \in 1 .. n /\ i \in 1 .. n + 1 /\ i + 1 \in 1 .. n + 1 /\ id \in Nat /\ id + 2 <= n + 1
      /\ id + 1 = i /\ id + 2 = i + 1
  BY <1>1
<1>4. /\ filename_start = variables["start"] /\ filename_index_start = variables["index start"]
      /\ NamesAt /\ IndexAt
  BY <1>1 DEF StoreInv, FileInv, IsOpen, NamesInFile
<1>5. /\ filename_start \in Int /\ Kept(repository_file, filename_start, FlatNames)
      /\ filename_index_start \in Int /\ Kept(repository_file, filename_index_start, NameStarts)
  <2>1. filename_start \in Nat /\ Kept(repository_file, filename_start, FlatNames)
    BY <1>4 DEF NamesAt
  <2>2. filename_index_start \in Nat /\ Kept(repository_file, filename_index_start, NameStarts)
    BY <1>4 DEF IndexAt
  <2>. QED BY <2>1, <2>2
<1>6. /\ name \in Seq(Nat \ {0}) /\ Len(strings[i]) = Len(name) + 1
      /\ \A j \in 1 .. Len(name) : strings[i][j] = name[j]
      /\ strings[i][Len(name) + 1] = 0
  BY <1>1, <1>3, StringIs
<1>7. /\ from \in Nat /\ Len(strings[i]) \in Nat /\ to = from + Len(strings[i])
      /\ to <= Len(FlatNames)
      /\ \A j \in 1 .. Len(strings[i]) : FlatNames[from + j] = strings[i][j]
      /\ strings[i] \in Seq(Nat)
  <2>1. FlatNames = FlattenSeq(strings) /\ strings[i] \in Seq(Nat)
    BY <1>2, <1>3 DEF FlatNames
  <2>2. strings \in Seq(Seq(Nat)) /\ i \in 1 .. Len(strings)
    BY <1>2, <1>3
  <2>. HIDE DEF strings, i
  <2>3. /\ from \in Nat /\ Len(strings[i]) \in Nat /\ to = from + Len(strings[i])
        /\ to <= Len(FlattenSeq(strings))
        /\ \A j \in 1 .. Len(strings[i]) : FlattenSeq(strings)[from + j] = strings[i][j]
    BY <2>2, PartBetween
  <2>. QED BY <2>1, <2>3
<1>8. NameStarts[i] = from /\ NameStarts[i + 1] = to
  BY <1>1, <1>3, StartsAre
<1>. HIDE DEF strings, n, i, name, from, to
<1>9. /\ part \in Seq(Nat) /\ Len(part) = 2 /\ part[1] = from /\ part[2] = to
  <2>1. from \in Nat /\ to \in Nat
    BY <1>7
  <2>. QED BY <2>1
<1>10. \A j \in 1 .. 2 : NameStarts[id + j] = part[j]
  <2>1. \A j \in 1 .. 2 : j = 1 \/ j = 2
    OBVIOUS
  <2>. QED BY <1>3, <1>8, <1>9, <2>1
<1>. HIDE DEF part
<1>11. Kept(repository_file, filename_index_start + id, part)
  BY <1>2, <1>3, <1>5, <1>9, <1>10, KeptPart
<1>12. ReadCells(filename_index_start + id, 2) = part
  BY <1>9, <1>11, ReadKept
<1>13. Kept(repository_file, filename_start + from, strings[i])
  BY <1>2, <1>5, <1>7, KeptPart
<1>14. ReadCells(filename_start + from, to - from) = strings[i]
  <2>1. to - from = Len(strings[i])
    BY <1>7
  <2>. QED BY <1>7, <1>13, <2>1, ReadKept
<1>15. NameOf(strings[i]) = name
  <2>1. Len(name) + 1 <= Len(strings[i])
    BY <1>6, <1>7
  <2>. QED BY <1>6, <1>7, <2>1, NameOfIs
<1>16. offset[1] = from /\ offset[2] = to
  BY <1>9, <1>12
<1>. HIDE DEF offset
<1>17. NameOf(ReadCells(filename_start + offset[1], offset[2] - offset[1])) = name
  BY <1>14, <1>15, <1>16
<1>. QED BY <1>17 DEF offset, name, i

\* get_document(), of an index of more than one document.
LEMMA TextRead ==
  ASSUME StoreInv, stage = "searching", NEW id \in 0 .. Len(stored) - 1, Len(stored) > 1
  PROVE  (IF document_offsets = <<>> THEN <<>>
          ELSE ReadCells(document_offsets[id + 1], document_offsets[id + 2] - document_offsets[id + 1]))
            = stored[id + 1].text
<1>. DEFINE n == Len(stored)
            i == id + 1
            text == stored[i].text
            starts == Sums(offsets.docid)
<1>1. stored \in Seq(Document) /\ n \in Nat /\ stored[i] \in Document /\ id + 2 = i + 1 /\ i \in 1 .. n
  <2>1. stored \in Seq(Document)
    BY DEF StoreInv, NamesInv
  <2>. QED BY <2>1
<1>2. text \in Seq(Nat) /\ text \in Seq(Int) /\ Len(text) \in Nat
  BY <1>1, TextTypes
<1>3. CASE ~storing
  BY <1>1, <1>3 DEF StoreInv, FileInv, TextsInFile, IsOpen
<1>4. CASE storing
  <2>1. /\ Len(offsets.docid) = n + 1 /\ offsets.docid \in Seq(Int)
        /\ Kept(repository_file, starts[i], text)
        /\ starts[i] + Len(text) =
              IF i < Len(offsets.docid) THEN starts[i + 1] ELSE Len(repository_file)
    BY <1>1, <1>4 DEF StoreInv, FileInv, TextsInFile
  <2>2. i < Len(offsets.docid) /\ i \in 1 .. n + 1 /\ n + 1 > 2
    BY <1>1, <2>1
  <2>3. document_offsets = starts
    BY <2>1, <2>2 DEF StoreInv, FileInv, IsOpen
  <2>4. starts \in Seq(Int) /\ Len(starts) = n + 1
    <3>1. 0 \in Int
      OBVIOUS
    <3>. QED BY <2>1, <3>1, SumsAppend
  <2>. HIDE DEF starts, n, i, text
  <2>5. starts # <<>> /\ starts[i] \in Int /\ starts[i + 1] = starts[i] + Len(text)
    BY <1>1, <2>1, <2>2, <2>4
  <2>6. starts[i + 1] - starts[i] = Len(text)
    BY <1>2, <2>5
  <2>7. ReadCells(starts[i], Len(text)) = text
    BY <1>2, <2>1, ReadKept
  <2>8. (IF document_offsets = <<>> THEN <<>>
         ELSE ReadCells(document_offsets[i], document_offsets[i + 1] - document_offsets[i])) = text
    BY <2>3, <2>5, <2>6, <2>7
  <2>. QED BY <1>1, <2>8 DEF i, text
<1>. QED BY <1>3, <1>4

\* What is left of the names, from where one starts, begins with that one.
LEMMA NameLeft ==
  ASSUME stored \in Seq(Document), NEW i \in 1 .. Len(stored)
  PROVE  /\ NameOf(SubSeq(FlatNames, Position(StringsOf(stored), i) + 1, Len(FlatNames)))
                = stored[i].name
         /\ Position(StringsOf(stored), i + 1)
                = Position(StringsOf(stored), i) + Len(stored[i].name) + 1
<1>. DEFINE strings == StringsOf(stored)
            name == stored[i].name
            from == Position(strings, i)
            left == SubSeq(FlatNames, from + 1, Len(FlatNames))
<1>1. /\ strings \in Seq(Seq(Nat)) /\ Len(strings) = Len(stored)
      /\ FlatNames \in Seq(Nat) /\ Len(FlatNames) \in Nat
  BY NamesTypes
<1>2. /\ name \in Seq(Nat \ {0}) /\ Len(strings[i]) = Len(name) + 1
      /\ \A j \in 1 .. Len(name) : strings[i][j] = name[j]
      /\ strings[i][Len(name) + 1] = 0
  BY StringIs
<1>3. /\ from \in Nat /\ Len(strings[i]) \in Nat
      /\ Position(strings, i + 1) = from + Len(strings[i])
      /\ from + Len(strings[i]) <= Len(FlatNames)
      /\ \A j \in 1 .. Len(strings[i]) : FlatNames[from + j] = strings[i][j]
  BY <1>1, PartBetween DEF FlatNames
<1>4. Len(name) \in Nat
  BY <1>2
<1>. HIDE DEF strings, name, from
<1>5. from <= Len(FlatNames)
  BY <1>1, <1>3
<1>6. /\ left \in Seq(Nat) /\ Len(left) = Len(FlatNames) - from
      /\ \A j \in 1 .. Len(FlatNames) - from : left[j] = FlatNames[from + j]
  <2>. DEFINE flat == FlatNames
  <2>1. flat \in Seq(Nat) /\ from <= Len(flat) /\ from \in Nat
    BY <1>1, <1>3, <1>5
  <2>. HIDE DEF flat
  <2>2. /\ SubSeq(flat, from + 1, Len(flat)) \in Seq(Nat)
        /\ Len(SubSeq(flat, from + 1, Len(flat))) = Len(flat) - from
        /\ \A j \in 1 .. Len(flat) - from : SubSeq(flat, from + 1, Len(flat))[j] = flat[from + j]
    BY <2>1
  <2>. QED BY <2>2 DEF flat
<1>7. Len(name) + 1 <= Len(left)
  BY <1>1, <1>2, <1>3, <1>6
<1>8. \A j \in 1 .. Len(name) + 1 : left[j] = strings[i][j]
  BY <1>1, <1>2, <1>3, <1>4, <1>6
<1>9. /\ \A j \in 1 .. Len(name) : left[j] = name[j]
      /\ left[Len(name) + 1] = 0
  <2>1. \A j \in 1 .. Len(name) : j \in 1 .. Len(name) + 1
    BY <1>4
  <2>2. Len(name) + 1 \in 1 .. Len(name) + 1
    BY <1>4
  <2>. QED BY <1>2, <1>8, <2>1, <2>2
<1>10. left \in Seq(Nat)
  BY <1>6
<1>. HIDE DEF left
<1>11. NameOf(left) = name
  BY <1>2, <1>7, <1>9, <1>10, NameOfIs
<1>12. Position(strings, i + 1) = from + Len(name) + 1
  <2>1. \A a, b \in Nat : a + (b + 1) = a + b + 1
    OBVIOUS
  <2>. QED BY <1>2, <1>3, <1>4, <2>1
<1>. QED BY <1>11, <1>12 DEF left, name, from, strings

\* The offset of a name, given that of the one before.
NextStart(upto, buffer, current_doc) ==
    IF current_doc = 0 THEN 0
    ELSE upto[current_doc - 1]
         + Len(NameOf(SubSeq(buffer, upto[current_doc - 1] + 1, Len(buffer)))) + 1

IsUpto(upto, buffer, n) == upto = [current_doc \in 0 .. n |-> NextStart(upto, buffer, current_doc)]
ChosenUpto(buffer, n) == CHOOSE upto : IsUpto(upto, buffer, n)

LEMMA UptoIs ==
  ASSUME stored \in Seq(Document)
  PROVE  \A k \in 0 .. Len(stored) :
            ChosenUpto(FlatNames, Len(stored))[k] = Position(StringsOf(stored), k + 1)
<1>. DEFINE n == Len(stored)
            strings == StringsOf(stored)
            flat == FlatNames
            g == [k \in 0 .. n |-> Position(strings, k + 1)]
            chosen == ChosenUpto(flat, n)
            T == {k \in Nat : k <= n => chosen[k] = Position(strings, k + 1)}
<1>1. n \in Nat
  OBVIOUS
<1>2. Position(strings, 0 + 1) = 0
  BY NamesTypes, FirstAndEnd
<1>3. ASSUME NEW upto, NEW k \in 0 .. n, k = 0 \/ upto[k - 1] = Position(strings, k)
      PROVE  NextStart(upto, flat, k) = Position(strings, k + 1)
  <2>1. CASE k = 0
    BY <1>2, <2>1 DEF NextStart
  <2>2. CASE k # 0
    <3>1. k \in 1 .. Len(stored)
      BY <1>1, <2>2
    <3>2. /\ NameOf(SubSeq(flat, Position(strings, k) + 1, Len(flat))) = stored[k].name
          /\ Position(strings, k + 1) = Position(strings, k) + Len(stored[k].name) + 1
      BY <3>1, NameLeft
    <3>. HIDE DEF flat, strings
    <3>. QED BY <1>3, <2>2, <3>2 DEF NextStart
  <2>. QED BY <2>1, <2>2
<1>. HIDE DEF n, strings, flat
<1>4. IsUpto(g, flat, n)
  <2>1. ASSUME NEW k \in 0 .. n PROVE NextStart(g, flat, k) = Position(strings, k + 1)
    <3>1. k # 0 => k - 1 \in 0 .. n /\ (k - 1) + 1 = k
      BY <1>1
    <3>2. k = 0 \/ g[k - 1] = Position(strings, k)
      BY <3>1
    <3>. HIDE DEF g
    <3>. QED BY <1>3, <3>2
  <2>. QED BY <2>1 DEF IsUpto
<1>5. IsUpto(chosen, flat, n)
  BY <1>4 DEF ChosenUpto
<1>. HIDE DEF chosen, g
<1>6. \A k \in 0 .. n : chosen[k] = NextStart(chosen, flat, k)
  <2>. DEFINE h == [k \in 0 .. n |-> NextStart(chosen, flat, k)]
  <2>1. chosen = h
    BY <1>5 DEF IsUpto
  <2>2. \A k \in 0 .. n : h[k] = NextStart(chosen, flat, k)
    OBVIOUS
  <2>. HIDE DEF h
  <2>. QED BY <2>1, <2>2
<1>7. 0 \in T
  <2>1. 0 \in 0 .. n /\ NextStart(chosen, flat, 0) = Position(strings, 0 + 1)
    BY <1>1, <1>3
  <2>. QED BY <1>6, <2>1
<1>8. ASSUME NEW k \in Nat, k \in T PROVE k + 1 \in T
  <2>. SUFFICES ASSUME k + 1 <= n PROVE chosen[k + 1] = Position(strings, (k + 1) + 1)
    BY <1>8
  <2>1. k + 1 \in 0 .. n /\ (k + 1) - 1 = k /\ k <= n
    BY <1>1
  <2>2. chosen[(k + 1) - 1] = Position(strings, k + 1)
    BY <1>8, <2>1
  <2>3. NextStart(chosen, flat, k + 1) = Position(strings, (k + 1) + 1)
    BY <1>3, <2>1, <2>2
  <2>. QED BY <1>6, <2>1, <2>3
<1>. HIDE DEF T
<1>9. Nat \subseteq T
  BY <1>7, <1>8, Induction
<1>10. \A k \in 0 .. n : chosen[k] = Position(strings, k + 1)
  BY <1>1, <1>9 DEF T
<1>. QED BY <1>10 DEF n, strings, flat, chosen

\* get_document_filenames()
LEMMA AllNamesRead ==
  ASSUME StoreInv, GetDocumentFilenames
  PROVE  answered' = [question |-> <<"names">>, answer |-> [i \in DOMAIN stored |-> stored[i].name]]
<1>. DEFINE n == Len(stored)
            buffer == ReadCells(filename_start, filename_finish - filename_start)
            upto == ChosenUpto(buffer, n)
            answer == [i \in DOMAIN stored |-> NameOf(SubSeq(buffer, upto[i - 1] + 1, Len(buffer)))]
<1>1. stage = "searching" /\ answered' = [question |-> <<"names">>, answer |-> answer]
  BY DEF GetDocumentFilenames, Answer, ChosenUpto, IsUpto, NextStart
<1>2. stored \in Seq(Document) /\ n \in Nat /\ DOMAIN stored = 1 .. n
  BY DEF StoreInv, NamesInv
<1>3. ASSUME NEW i \in 1 .. n
      PROVE  NameOf(SubSeq(buffer, upto[i - 1] + 1, Len(buffer))) = stored[i].name
  <2>1. stored # <<>>
    BY <1>2
  <2>2. filename_start = variables["start"] /\ filename_finish = variables["finish"] /\ NamesAt
    BY <1>1, <2>1 DEF StoreInv, FileInv, IsOpen, NamesInFile
  <2>3. FlatNames \in Seq(Nat) /\ Len(FlatNames) \in Nat
    BY <1>2, NamesTypes
  <2>4. /\ filename_start \in Nat /\ Kept(repository_file, filename_start, FlatNames)
        /\ filename_finish = filename_start + Len(FlatNames)
    BY <2>2 DEF NamesAt
  <2>5. filename_finish - filename_start = Len(FlatNames)
    BY <2>3, <2>4
  <2>6. buffer = FlatNames
    BY <2>3, <2>4, <2>5, ReadKept
  <2>7. i - 1 \in 0 .. n /\ (i - 1) + 1 = i
    BY <1>2
  <2>8. ChosenUpto(FlatNames, n)[i - 1] = Position(StringsOf(stored), i)
    BY <1>2, <2>7, UptoIs
  <2>9. NameOf(SubSeq(FlatNames, Position(StringsOf(stored), i) + 1, Len(FlatNames)))
            = stored[i].name
    BY <1>2, NameLeft
  <2>. HIDE DEF buffer
  <2>. QED BY <2>6, <2>8, <2>9
<1>. HIDE DEF n, buffer, upto
<1>4. answer = [i \in DOMAIN stored |-> stored[i].name]
  BY <1>2, <1>3
<1>. QED BY <1>1, <1>4

-----------------------------------------------------------------------------
\* The refinement

LEMMA StoreSteps == StoreInv /\ [RepositoryNext]_repository_vars => [Store!Next]_(Store!vars)
<1>. SUFFICES ASSUME StoreInv, [RepositoryNext]_repository_vars PROVE [Store!Next]_(Store!vars)
  OBVIOUS
<1>1. CASE \/ OtherMalloc
           \/ SerialiseOffsetsEnd \/ SerialiseFilenames \/ SerialiseFilenamesIndex \/ SerialiseOffsets
           \/ OpenRepository \/ UNCHANGED repository_vars
  BY <1>1 DEF OtherMalloc, SerialiseOffsetsEnd, SerialiseFilenames, SerialiseFilenamesIndex,
              SerialiseOffsets, OpenRepository, repository_vars, Store!vars
<1>2. ASSUME NEW name \in FileNames, NEW text \in Texts, AddToDocumentRepository(name, text)
      PROVE  Store!Add
  <2>. DEFINE document == [name |-> name, text |-> IF storing THEN text ELSE <<>>]
  <2>1. stored' = Append(stored, document) /\ answered' = answered
    BY <1>2 DEF AddToDocumentRepository
  <2>2. document \in Document /\ stored \in Seq(Document)
    BY DEF Document, StoreInv, NamesInv
  <2>. HIDE DEF document
  <2>3. Len(Append(stored, document)) = Len(stored) + 1
        /\ stored = SubSeq(Append(stored, document), 1, Len(stored))
    BY <2>2
  <2>. QED BY <2>1, <2>3 DEF Store!Add
<1>3. ASSUME NEW id \in 0 .. Len(stored) - 1, GetDocumentFilename(id)
      PROVE  Store!Name(id) /\ UNCHANGED stored
  <2>. DEFINE offset == ReadCells(filename_index_start + id, 2)
              answer == NameOf(ReadCells(filename_start + offset[1], offset[2] - offset[1]))
  <2>1. /\ stage = "searching" /\ stored' = stored
        /\ answered' = [question |-> <<"name", id>>, answer |-> answer]
    BY <1>3 DEF GetDocumentFilename, Answer
  <2>2. answer = stored[id + 1].name
    BY <2>1, NameRead
  <2>. HIDE DEF answer
  <2>. QED BY <2>1, <2>2 DEF Store!Name
<1>4. ASSUME NEW id \in 0 .. Len(stored) - 1, GetDocument(id)
      PROVE  Store!Text(id) /\ UNCHANGED stored
  <2>. DEFINE answer == IF document_offsets = <<>> THEN <<>>
                        ELSE ReadCells(document_offsets[id + 1],
                                       document_offsets[id + 2] - document_offsets[id + 1])
  <2>1. /\ stage = "searching" /\ stored' = stored
        /\ answered' = [question |-> <<"text", id>>, answer |-> answer]
    BY <1>4 DEF GetDocument, Answer
  <2>2. Len(stored) > 1 => answer = stored[id + 1].text
    BY <2>1, TextRead
  <2>. HIDE DEF answer
  <2>. QED BY <2>1, <2>2 DEF Store!Text
<1>5. ASSUME GetDocumentFilenames
      PROVE  Store!AllNames /\ UNCHANGED stored
  BY <1>5, AllNamesRead DEF Store!AllNames, Store!Names, GetDocumentFilenames, Answer
<1>6. CASE \E name \in FileNames, text \in Texts : AddToDocumentRepository(name, text)
  BY <1>2, <1>6 DEF Store!Next
<1>7. CASE \/ \E id \in 0 .. Len(stored) - 1 : GetDocumentFilename(id) \/ GetDocument(id)
           \/ GetDocumentFilenames
  BY <1>3, <1>4, <1>5, <1>7 DEF Store!Next
<1>. QED
  BY <1>1, <1>6, <1>7 DEF RepositoryNext

\* The names and the texts that are read from the index are those that were added, under the
\* numbers they were added under, whatever their sizes, however the names were cut into chunks
\* and whoever else got memory in between; unless the list of offsets was not written.
THEOREM StoreImplemented ==
  ASSUME ListsAreWritten
  PROVE  RepositorySpec => ImplementsStore
<1>1. RepositoryInit => StoreInv
  BY InitNames, InitFile DEF StoreInv
<1>2. StoreInv /\ [RepositoryNext]_repository_vars => StoreInv'
  BY StepKeepsFile
<1>3. RepositoryInit => Store!Init
  BY DEF RepositoryInit, Store!Init, Store!NoReply
<1>. QED
  BY <1>1, <1>2, <1>3, StoreSteps, PTL DEF RepositorySpec, ImplementsStore, Store!Spec
=============================================================================
