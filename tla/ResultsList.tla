---------------------------- MODULE ResultsList ----------------------------
(***************************************************************************)
(* ANT_search_engine_result: an accumulator for every document, and a list *)
(* of pointers to those of the results.  The ranking functions call        *)
(* add_rsv() for every posting of every term of a query.                   *)
(*                                                                         *)
(* Accumulators are not cleared at the start of a query: they are in rows, *)
(* and a row is cleared the first time that a document in it gets a score. *)
(* The list of the top_k largest is kept as posting follows posting: once  *)
(* it is full it is a heap with the smallest of them on top, and whether a *)
(* document is in it is told from its accumulator.  A search for as many   *)
(* results as there are documents needs no heap.                           *)
(*                                                                         *)
(* A Boolean query fills the list anew when all its terms are done, from   *)
(* the documents that satisfy it.  Without pregens every score starts at   *)
(* zero.                                                                   *)
(***************************************************************************)
EXTENDS Integers, Sequences, FiniteSets

CONSTANTS
    N,              \* documents
    Width,          \* the accumulators in a row, a power of two
    Scores,         \* what add_rsv() adds to an accumulator
    Asked,          \* the top_k of a search
    MaxSurplus,     \* bound: by how many documents a Boolean query may exceed top_k
    MaxAdds, MaxSearches    \* bounds: the calls of add_rsv() and of search()

ASSUME ResultsAssumption ==
    /\ N \in Nat \ {0} /\ Width \in Nat \ {0}
    /\ Scores \subseteq Int
    /\ Asked \subseteq Nat \ {0}
    /\ {MaxSurplus, MaxAdds, MaxSearches} \subseteq Nat

Docs == 0 .. N - 1
Row(d) == d \div Width                  \* get_init_flag_row()
Rows == 0 .. N \div Width
Shorts == -32768 .. 32767               \* ANT_ACCUMULATOR_T, 16 bits
Short(n) == ((n + 32768) % 65536) - 32768

VARIABLES
    accumulator,            \* what is in memory, cleared or not
    init_flags,             \* the rows that were cleared
    accumulator_pointers,   \* the list, as the documents pointed to
    results_list_length,
    top_k, sort_top_k,      \* of the results list (and its heap), of the API
    pc,
    total, scored,          \* history: the scores of this query
    adds, searches          \* counted for the bounds

list == <<accumulator_pointers, results_list_length>>
asked == <<top_k, sort_top_k, searches>>
vars == <<accumulator, init_flags, list, asked, pc, total, scored, adds>>

Init ==
    /\ accumulator = [d \in Docs |-> 0]
    /\ init_flags = {}
    /\ accumulator_pointers = [i \in Docs |-> i]
    /\ results_list_length = 0
    /\ top_k = 0 /\ sort_top_k = 0
    /\ pc = "idle"
    /\ total = [d \in Docs |-> 0] /\ scored = {}
    /\ adds = 0 /\ searches = 0

-----------------------------------------------------------------------------
\* The heap of heap.h, over the first top_k pointers; rsv is the accumulators by which
\* it compares.

\* compare() > 0: the larger accumulator, or the later of two that are equal.
Above(rsv, d, e) == rsv[d] > rsv[e] \/ (rsv[d] = rsv[e] /\ d > e)

Left(i) == 2 * i + 1
Right(i) == 2 * i + 2

\* Where key stays on its way down: no child is smaller.
Settles(rsv, heap, key, i) ==
    \A child \in {Left(i), Right(i)} : child < top_k => ~Above(rsv, key, heap[child])

\* The smaller child.
Smaller(rsv, heap, i) ==
    IF Right(i) < top_k /\ Above(rsv, heap[Left(i)], heap[Right(i)]) THEN Right(i) ELSE Left(i)

\* Puts key at a place and moves it down to where it settles, the smaller child up each
\* time.
Sift(rsv, heap, key, place) ==
    LET path[i \in 0 .. top_k] ==
            {i} \cup IF Settles(rsv, heap, key, i) THEN {} ELSE path[Smaller(rsv, heap, i)]
    IN  [i \in DOMAIN heap |->
            IF i \notin path[place] THEN heap[i]
            ELSE IF Settles(rsv, heap, key, i) THEN key
            ELSE heap[Smaller(rsv, heap, i)]]

MinInsert(rsv, heap, key) ==
    IF Above(rsv, heap[0], key) THEN heap ELSE Sift(rsv, heap, key, 0)

\* A key that is not in the heap is put behind it.
MinUpdate(rsv, heap, key) ==
    LET places == {i \in 0 .. top_k - 1 : heap[i] = key}
        first == IF places = {} THEN top_k ELSE CHOOSE i \in places : \A j \in places : i <= j
    IN  Sift(rsv, heap, key, first)

\* Mutant: the loop stops before the root.
BuildMinHeap_NoRoot(rsv, heap) ==
    LET built[i \in 0 .. top_k \div 2] ==
            IF i >= top_k \div 2 THEN heap ELSE Sift(rsv, built[i + 1], built[i + 1][i], i)
    IN  IF top_k < 4 THEN heap ELSE built[1]

\* min_heapify() from the last parent to the root.
BuildMinHeap(rsv, heap) ==
    LET built[i \in 0 .. top_k \div 2] ==
            IF i = top_k \div 2 THEN heap ELSE Sift(rsv, built[i + 1], built[i + 1][i], i)
    IN  built[0]

-----------------------------------------------------------------------------
\* add_rsv()

\* Mutant: only the accumulator that is needed is cleared, not its row.
Cleared_Single(d) ==
    [e \in Docs |-> IF e = d /\ Row(d) \notin init_flags THEN 0 ELSE accumulator[e]]

\* init_partial_accumulators()
Cleared(d) ==
    [e \in Docs |-> IF Row(e) = Row(d) /\ Row(d) \notin init_flags THEN 0 ELSE accumulator[e]]

PutOnList(d) ==
    /\ accumulator_pointers' = [accumulator_pointers EXCEPT ![results_list_length] = d]
    /\ results_list_length' = results_list_length + 1

\* Mutant: a document is added to the list at every score.
AddToCompletion_Always(d, before, after) == PutOnList(d)

\* Every document gets on the list, at its first score.
AddToCompletion(d, before, after) ==
    IF before[d] = 0 /\ after[d] # 0 THEN PutOnList(d) ELSE UNCHANGED list

\* The list is not full: "just plonk it in", and make a heap of it when it is full.
AddToList(d, before, after) ==
    LET longer == [accumulator_pointers EXCEPT ![results_list_length] = d]
        new == before[d] = 0 /\ after[d] # 0
        fills == new /\ results_list_length + 1 = top_k
    IN  /\ results_list_length' = results_list_length + (IF new THEN 1 ELSE 0)
        /\ accumulator_pointers' =
                IF fills THEN BuildMinHeap(after, longer)
                ELSE IF new THEN longer ELSE accumulator_pointers

\* Mutant: ties with the smallest on the heap are decided for the document.
InHeap_ByRsv(d, before) == before[d] >= before[accumulator_pointers[0]]

\* A document is taken to be in the heap by its accumulator.
InHeap(d, before) == ~Above(before, accumulator_pointers[0], d)

AddToHeap(d, before, after) ==
    /\ accumulator_pointers' =
            IF InHeap(d, before) THEN MinUpdate(after, accumulator_pointers, d)
            ELSE IF Above(after, d, accumulator_pointers[0])
                 THEN MinInsert(after, accumulator_pointers, d)
            ELSE accumulator_pointers
    /\ UNCHANGED results_list_length

\* "Sum of term influences is zero!"
ExitsOnZero(d, before, after) ==
    top_k # N /\ results_list_length < top_k /\ before[d] = 0 /\ after[d] = 0

AddRsv(d, score) ==
    LET before == Cleared(d)
        after == [before EXCEPT ![d] = Short(@ + score)]
    IN  /\ pc = "ranking"
        /\ adds < MaxAdds
        /\ adds' = adds + 1
        /\ init_flags' = init_flags \cup {Row(d)}
        /\ accumulator' = after
        /\ \/ top_k = N /\ AddToCompletion(d, before, after)
           \/ top_k # N /\ results_list_length < top_k /\ AddToList(d, before, after)
           \/ top_k # N /\ results_list_length >= top_k /\ AddToHeap(d, before, after)
        /\ pc' = IF ExitsOnZero(d, before, after) THEN "exit" ELSE pc
        /\ total' = [total EXCEPT ![d] = @ + score]
        /\ scored' = scored \cup {d}
        /\ UNCHANGED asked

-----------------------------------------------------------------------------
\* search()

\* init_accumulators(), and set_accumulator_width() when the query has been parsed.
Search(k) ==
    /\ pc \in {"idle", "ranked"}
    /\ searches < MaxSearches
    /\ searches' = searches + 1
    /\ sort_top_k' = k
    /\ top_k' = IF k > N THEN N ELSE k
    /\ results_list_length' = 0
    /\ init_flags' = {}
    /\ pc' = "ranking"
    /\ total' = [d \in Docs |-> 0] /\ scored' = {}
    /\ UNCHANGED <<accumulator, accumulator_pointers, adds>>

\* Mutant: the smallest first.
Sorted_Ascending(pointers, length) ==
    LET before(i, j) == \/ Above(accumulator, pointers[j], pointers[i])
                        \/ pointers[i] = pointers[j] /\ i < j
        places == 0 .. length - 1
    IN  [i \in DOMAIN pointers |->
            IF i \notin places THEN pointers[i]
            ELSE pointers[CHOOSE j \in places : Cardinality({k \in places : before(k, j)}) = i]]

\* top_k_sort() of the first pointers, the largest first.
Sorted(pointers, length) ==
    LET before(i, j) == \/ Above(accumulator, pointers[i], pointers[j])
                        \/ pointers[i] = pointers[j] /\ i < j
        places == 0 .. length - 1
    IN  [i \in DOMAIN pointers |->
            IF i \notin places THEN pointers[i]
            ELSE pointers[CHOOSE j \in places : Cardinality({k \in places : before(k, j)}) = i]]

\* sort_results_list(), the end of a disjunctive query.
Rank ==
    /\ pc = "ranking"
    /\ accumulator_pointers' = Sorted(accumulator_pointers, results_list_length)
    /\ pc' = "ranked"
    /\ UNCHANGED <<accumulator, init_flags, results_list_length, asked, total, scored, adds>>

\* process_boolean_query(): the list is filled again, with the documents that satisfy
\* the query, in the order of their numbers.
Rebuilt(matching) ==
    LET filled[d \in 0 .. N] ==
            LET done == filled[d - 1]
                put == [done.pointers EXCEPT ![done.added] = d - 1]
                above == accumulator[d - 1] > accumulator[done.pointers[0]]
            IN  IF d = 0 THEN [pointers |-> accumulator_pointers, added |-> 0]
                ELSE IF d - 1 \notin matching THEN done
                ELSE [added |-> done.added + 1,
                      pointers |->
                        CASE done.added < sort_top_k -> put
                          [] done.added = sort_top_k -> BuildMinHeap(accumulator, put)
                          [] done.added > sort_top_k /\ above ->
                                MinInsert(accumulator, done.pointers, d - 1)
                          [] done.added > sort_top_k /\ ~above -> done.pointers]
    IN  filled[N]

RankBoolean(matching) ==
    LET rebuilt == Rebuilt(matching)
        length == IF rebuilt.added < sort_top_k THEN rebuilt.added ELSE sort_top_k
    IN  /\ pc = "ranking"
        /\ Cardinality(matching) <= top_k + MaxSurplus
        /\ results_list_length' = length
        /\ accumulator_pointers' = Sorted(rebuilt.pointers, length)
        /\ pc' = "ranked"
        /\ UNCHANGED <<accumulator, init_flags, asked, total, scored, adds>>

-----------------------------------------------------------------------------
Next ==
    \/ \E k \in Asked : Search(k)
    \/ \E d \in Docs, score \in Scores : AddRsv(d, score)
    \/ Rank
    \/ \E matching \in SUBSET scored : RankBoolean(matching)

Spec == Init /\ [][Next]_vars

-----------------------------------------------------------------------------
\* Every score counts, and the sums of a query are small enough for an accumulator:
\* what add_rsv() and the heap take for granted.
ScoresCount == \A score \in Scores : score >= 1
SumsFit == \A d \in Docs : total[d] <= 32767

\* The types; the list never has more than top_k entries, so it never overflows.
TypeOK ==
    /\ accumulator \in [Docs -> Shorts]
    /\ init_flags \subseteq Rows
    /\ accumulator_pointers \in [Docs -> Docs]
    /\ results_list_length \in 0 .. top_k
    /\ top_k \in 0 .. N /\ top_k <= sort_top_k
    /\ pc \in {"idle", "ranking", "ranked", "exit"}
    /\ total \in [Docs -> Int] /\ scored \subseteq Docs

\* Clearing row by row is as good as clearing everything at the start of a query: what
\* the query before left in a row is never taken for a score.
RowsAgree ==
    \A d \in Docs :
        IF Row(d) \in init_flags THEN accumulator[d] = Short(total[d]) ELSE total[d] = 0

HeapFull == pc = "ranking" /\ top_k # N /\ results_list_length = top_k

\* The full list is a heap, however the accumulators of its members grow.
HeapOrdered ==
    HeapFull =>
        \A i \in 1 .. top_k - 1 :
            Above(accumulator, accumulator_pointers[i], accumulator_pointers[(i - 1) \div 2])

Search_ == INSTANCE TopK WITH
    Unanswered <- <<"none">>,
    limit <- top_k,
    answer <- IF pc = "ranked"
              THEN [i \in 1 .. results_list_length |-> accumulator_pointers[i - 1]]
              ELSE <<"none">>

Listed == {accumulator_pointers[i] : i \in 0 .. results_list_length - 1}

\* At any time the list holds the documents with the largest sums so far, each once:
\* a document that leaves the heap is never one that belongs there, and one that grows
\* while it is outside comes back in time.
HoldsBest ==
    pc = "ranking" =>
        /\ Listed = Search_!Best({d \in Docs : total[d] # 0})
        /\ Cardinality(Listed) = results_list_length

\* The answer to each query is the list of those with the largest sums, in order,
\* whatever the queries before have left behind.
ImplementsTopK == Search_!Spec

\* process_boolean_query(): "update the heap if this node belongs".  No document that
\* satisfies the query and is above one on the list is left out.
BooleanSeesAll ==
    [][\A matching \in SUBSET scored : RankBoolean(matching) =>
        \A d \in matching \ Listed' : \A e \in Listed' : total[d] <= total[e]]_vars
=============================================================================
