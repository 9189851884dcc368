------------------------------- MODULE Memory -------------------------------
(***************************************************************************)
(* ANT_memory, from which the indexer and the search engine allocate what  *)
(* they never free one by one: large blocks from the C library, chained to *)
(* each other, and in the current one a position `at` before which all is  *)
(* given out.                                                              *)
(*                                                                         *)
(* A block is known by its place in the chain and an address in it is the  *)
(* number of bytes from its start.                                         *)
(***************************************************************************)
EXTENDS Integers, Sequences

CONSTANTS
    Requests,           \* the numbers of bytes that are asked for
    BlockSize,          \* block_size_for_allocation
    memory_ceiling,     \* soft limit on what is allocated
    HeaderSize,         \* of a block: the pointer to the one before and the size
    LongSize            \* what realign() aligns to

ASSUME MemoryAssumption ==
    /\ Requests \subseteq Nat
    /\ BlockSize \in Nat /\ memory_ceiling \in Nat
    /\ HeaderSize \in Nat /\ LongSize \in Nat \ {0}

VARIABLES
    blocks,             \* the lengths of the blocks in the chain, the newest last
    at, chunk_end,      \* in the newest block
    used, allocated, block_size,
    ans,                \* what malloc() returned last; the block is 0 for NULL
    granted             \* what malloc() returned since the last rewind()

memory_vars == <<blocks, at, chunk_end, used, allocated, block_size, ans, granted>>

NULL == [block |-> 0, start |-> 0, bytes |-> 0]

MemoryInit ==
    /\ blocks = <<>> /\ at = 0 /\ chunk_end = 0
    /\ used = 0 /\ allocated = 0 /\ block_size = BlockSize
    /\ ans = NULL /\ granted = {}

Larger(a, b) == IF a > b THEN a ELSE b

Fits(bytes) == blocks # <<>> /\ at + bytes <= chunk_end

\* malloc() in the current block.
MallocHere(bytes) ==
    /\ Fits(bytes)
    /\ ans' = [block |-> Len(blocks), start |-> at, bytes |-> bytes]
    /\ granted' = granted \cup {ans'}
    /\ at' = at + bytes
    /\ used' = used + bytes
    /\ UNCHANGED <<blocks, chunk_end, allocated, block_size>>

\* Mutant: `at` stays at the start of a new block.
MallocBlock_AtStart(bytes) ==
    LET request == Larger(block_size, bytes) + HeaderSize
    IN  /\ ~Fits(bytes)
        /\ allocated + request <= memory_ceiling
        /\ block_size' = Larger(block_size, bytes)
        /\ blocks' = Append(blocks, request)
        /\ chunk_end' = request
        /\ allocated' = allocated + request
        /\ ans' = [block |-> Len(blocks'), start |-> HeaderSize, bytes |-> bytes]
        /\ granted' = granted \cup {ans'}
        /\ at' = HeaderSize
        /\ used' = used + bytes

\* malloc() that needs get_chained_block(), which never makes a smaller block again.
MallocBlock(bytes) ==
    LET request == Larger(block_size, bytes) + HeaderSize
    IN  /\ ~Fits(bytes)
        /\ allocated + request <= memory_ceiling
        /\ block_size' = Larger(block_size, bytes)
        /\ blocks' = Append(blocks, request)
        /\ chunk_end' = request
        /\ allocated' = allocated + request
        /\ ans' = [block |-> Len(blocks'), start |-> HeaderSize, bytes |-> bytes]
        /\ granted' = granted \cup {ans'}
        /\ at' = HeaderSize + bytes
        /\ used' = used + bytes

\* A block over the ceiling, or one that the C library does not have.
MallocRefused(bytes) ==
    /\ ~Fits(bytes)
    /\ block_size' = Larger(block_size, bytes)
    /\ ans' = NULL
    /\ UNCHANGED <<blocks, at, chunk_end, used, allocated, granted>>

\* realign(): this may take `at` past the end of the block.
Realign ==
    LET padding == IF used % LongSize = 0 THEN 0 ELSE LongSize - (used % LongSize)
    IN  /\ at' = at + padding
        /\ allocated' = allocated + padding
        /\ used' = used + padding
        /\ UNCHANGED <<blocks, chunk_end, block_size, ans, granted>>

\* rewind() gives all blocks back; what was granted must not be used any more.
Rewind ==
    /\ blocks' = <<>> /\ at' = 0 /\ chunk_end' = 0
    /\ used' = 0 /\ allocated' = 0
    /\ granted' = {}
    /\ UNCHANGED <<block_size, ans>>

Malloc(bytes) == MallocHere(bytes) \/ MallocBlock(bytes)

MemoryNext ==
    \/ \E bytes \in Requests : Malloc(bytes) \/ MallocRefused(bytes)
    \/ Realign
    \/ Rewind

MemorySpec == MemoryInit /\ [][MemoryNext]_memory_vars

-----------------------------------------------------------------------------
\* What is granted lies in a block of the chain, after its header.
InBlocks ==
    \A a \in granted : /\ a.block \in DOMAIN blocks
                       /\ HeaderSize <= a.start
                       /\ a.start + a.bytes <= blocks[a.block]

Overlap(a, b) ==
    a.block = b.block /\ a.start < b.start + b.bytes /\ b.start < a.start + a.bytes

\* No byte is granted twice: what one user of the memory writes is never in what another
\* was given, whatever was asked for, refused, realigned or rewound in between.
Apart == \A a, b \in granted : a # b => ~Overlap(a, b)

\* The memory does not give out more than it holds: bytes_used() stays within
\* bytes_allocated(), from which the indexer's memory usage is reported.
WithinAllocated == used <= allocated
=============================================================================
