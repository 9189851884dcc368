----------------------------- MODULE Dictionary -----------------------------
(***************************************************************************)
(* The dictionary of an index file: the sorted terms in nodes, a node for  *)
(* each term shorter than B_TREE_PREFIX_SIZE and one for all the terms     *)
(* that start with the same B_TREE_PREFIX_SIZE letters, then the root with *)
(* the start and the position of every node, and last where the root is.   *)
(* ANT_search_engine opens that file, looks terms up in it by two binary   *)
(* searches, and ANT_btree_iterator walks through the terms from any       *)
(* string on.  The indexer and the program that merges indexes both write  *)
(* it, each with a copy of the same functions.                             *)
(*                                                                         *)
(* Sizes and positions are cells of the file (see ImpactPostings): the     *)
(* number of the terms of a node, a leaf and a letter are a cell each.     *)
(***************************************************************************)
EXTENDS ImpactPostings

CONSTANTS
    B_TREE_PREFIX_SIZE,
    Tilde,                  \* the letter that special terms start with
    Length, TrimPoint,      \* the special terms ~length and ~trimpoint
    Asked, Ks               \* bounds: the strings and the trim_postings_k of the searches

Special(term) == term[1] = Tilde

LONG_MAX == 1000000         \* no trimming

\* The strings that are terms: '\0' is no letter.
Term == Seq(Nat \ {0}) \ {<<>>}

ASSUME DictionaryAssumption ==
    /\ B_TREE_PREFIX_SIZE \in Nat \ {0}
    /\ {Length, TrimPoint} \subseteq Term
    /\ Special(Length) /\ Special(TrimPoint) /\ Length # TrimPoint
    /\ Asked \subseteq Term \cup {<<>>}
    /\ Ks \subseteq 1 .. LONG_MAX

VARIABLES
    pc,
    index,                  \* the hash nodes of the terms
    index_file,             \* the cells of the file
    unique_terms, in_disk,  \* of the terms written: how many, and where
    term_list, here,        \* the sorted terms, and those already in nodes
    header,                 \* the nodes written
    btree_root,             \* of the search engine, from its entry 0 on
    document_lengths, global_trim_postings_k,
    iterator,               \* node and leaf of an ANT_btree_iterator, and the node read
    keyword,                \* what it returned, <<>> for NULL
    reply                   \* to the last query

written == <<index, unique_terms, in_disk, term_list, here, header>>
opened == <<btree_root, document_lengths, global_trim_postings_k>>
read == <<opened, iterator, keyword, reply>>
dictionary == <<pc, index_file, written, read>>

Reply(question, found, postings) == [question |-> question, found |-> found, postings |-> postings]
NoReply == Reply(<<>>, FALSE, <<>>)
NoIterator == [node |-> 0, leaf |-> 0, buffer |-> <<>>]

\* An index file that was just created: only its magic number.
DictionaryInit ==
    /\ index_file = <<Cell("magic", 0)>>            \* open_index_file()
    /\ unique_terms = 0 /\ in_disk = <<>>
    /\ term_list = <<>> /\ here = 0 /\ header = <<>>
    /\ btree_root = <<>> /\ document_lengths = <<>> /\ global_trim_postings_k = LONG_MAX
    /\ iterator = NoIterator /\ keyword = <<>>
    /\ reply = NoReply

-----------------------------------------------------------------------------
\* The end of serialise()

\* find_end_of_node(): a short term is alone in its node.
EndOfNode(start) ==
    IF Len(term_list[start + 1]) < B_TREE_PREFIX_SIZE THEN start + 1
    ELSE Min({i \in start + 1 .. Len(term_list) :
                \/ i = Len(term_list)
                \/ Len(term_list[i + 1]) < B_TREE_PREFIX_SIZE
                \/ Head_(term_list[i + 1], B_TREE_PREFIX_SIZE)
                        # Head_(term_list[start + 1], B_TREE_PREFIX_SIZE)})

Letters(string) == [i \in 1 .. Len(string) + 1 |-> Cell("char", IF i <= Len(string) THEN string[i] ELSE 0)]

\* What of a term is in the leaf: the letters after those in the root.
Suffix(term) == SubSeq(term, B_TREE_PREFIX_SIZE + 1, Len(term))

\* The number of terms, a leaf for each, and their strings at the positions in the leaves.
NodeCells(terms) ==
    LET strings == [i \in DOMAIN terms |-> Letters(Suffix(terms[i]))]
        start(i) == 1 + Len(terms) + Len(FlattenSeq(SubSeq(strings, 1, i - 1)))
    IN  <<Cell("number", Len(terms))>>
        \o [i \in DOMAIN terms |->
                Cell("leaf", [entry |-> Leaf(index[terms[i]], in_disk[terms[i]]),
                              string_pos |-> start(i)])]
        \o FlattenSeq(strings)

WriteNode ==
    /\ pc = "nodes" /\ here < Len(term_list)
    /\ header' = Append(header, [term |-> Head_(term_list[here + 1], B_TREE_PREFIX_SIZE),
                                 disk_pos |-> Len(index_file)])
    /\ index_file' = index_file \o NodeCells(SubSeq(term_list, here + 1, EndOfNode(here)))
    /\ here' = EndOfNode(here)
    /\ UNCHANGED <<pc, index, unique_terms, in_disk, term_list, read>>

\* The root and, at the end of the file, its position.
WriteHeader ==
    /\ pc = "nodes" /\ here = Len(term_list)
    /\ index_file' = index_file \o <<Cell("number", Len(header))>>
            \o FlattenSeq([i \in DOMAIN header |->
                    Letters(header[i].term) \o <<Cell("number", header[i].disk_pos)>>])
            \o <<Cell("number", Len(index_file)), Cell("number", unique_terms)>>
    /\ pc' = "written"
    /\ UNCHANGED <<written, read>>

-----------------------------------------------------------------------------
\* ANT_search_engine

\* The '\0' terminated string at a position of some cells.
StringAt(cells, position) ==
    LET ends == {i \in position + 1 .. Len(cells) : cells[i].kind = "char" /\ cells[i].value = 0}
    IN  IF ends = {} THEN <<>> ELSE [i \in 1 .. Min(ends) - position - 1 |-> cells[position + i].value]

\* The first of some sorted strings that is not less than a string, counted from 0.
LowerBound(strings, string) ==
    LET places == 0 .. Len(strings)
        search[range \in places \X places] ==
            LET low == range[1]
                high == range[2]
                mid == (low + high) \div 2
            IN  IF low >= high THEN low
                ELSE IF StrLess(strings[mid + 1], string) THEN search[<<mid + 1, high>>]
                ELSE search[<<low, mid>>]
    IN  search[<<0, Len(strings)>>]

\* The root as open() loads it: a sentinel at position 0, the nodes, and the end of the
\* last node.
Root(cells) ==
    LET term_header == cells[Len(cells) - 1].value
        nodes == cells[term_header + 1].value
        after(start) == start + Len(StringAt(cells, start)) + 1
        block[i \in 1 .. nodes] == IF i = 1 THEN term_header + 1 ELSE after(block[i - 1]) + 1
    IN  <<[term |-> <<>>, disk_pos |-> 0]>>
        \o [i \in 1 .. nodes |-> [term |-> StringAt(cells, block[i]),
                                  disk_pos |-> cells[after(block[i]) + 1].value]]
        \o <<[term |-> <<>>, disk_pos |-> term_header]>>

\* get_btree_leaf_position(): the entry of the root that is the string or the last before it.
LeafPosition(root, string) ==
    LET btree_nodes == Len(root) - 1
        low == LowerBound([i \in 1 .. btree_nodes |-> root[i].term], string)
        exact == low < btree_nodes /\ root[low + 1].term = string
    IN  [exact_match |-> exact, node |-> IF exact THEN low ELSE low - 1]

\* The node of an entry, as read into the btree_leaf_buffer.
NodeAt(root, node) ==
    SubSeq(index_file, root[node + 1].disk_pos + 1, root[node + 2].disk_pos)

TermsIn(buffer) == buffer[1].value
StringsIn(buffer) == [i \in 1 .. TermsIn(buffer) |-> StringAt(buffer, buffer[i + 1].value.string_pos)]

\* Whether the terms of that node start with what the string starts with.
InNode(root, place, string) ==
    IF Len(string) < B_TREE_PREFIX_SIZE THEN place.exact_match
    ELSE root[place.node + 1].term = Head_(string, B_TREE_PREFIX_SIZE)

\* get_postings_details(): the leaf of a term, or nothing.
PostingsDetails(root, term) ==
    LET place == LeafPosition(root, term)
        buffer == NodeAt(root, place.node)
        strings == StringsIn(buffer)
        leaf == LowerBound(strings, Suffix(term))
    IN  IF root[place.node + 1].disk_pos = 0 \/ ~InNode(root, place, term) THEN <<>>
        ELSE IF leaf < Len(strings) /\ strings[leaf + 1] = Suffix(term)
        THEN <<buffer[leaf + 2].value.entry>>
        ELSE <<>>

Open ==
    LET root == Root(index_file)
        trim == PostingsDetails(root, TrimPoint)
        trimpoint == IF trim = <<>> THEN 0 ELSE GetVariable(trim[1], index_file)
        lengths == GetList(PostingsDetails(root, Length)[1], index_file)
    IN  /\ pc = "written"
        /\ btree_root' = root
        /\ document_lengths' = [d \in DOMAIN lengths |-> lengths[d] - 1]
        /\ global_trim_postings_k' = IF trimpoint = 0 THEN LONG_MAX ELSE trimpoint
        /\ pc' = "searching"
        /\ UNCHANGED <<index_file, written, iterator, keyword, reply>>

\* process_one_search_term(): the dictionary, and then the postings to be ranked.  An
\* iterator that was walking through the terms is dropped.
Search(term, k) ==
    LET leaf == PostingsDetails(btree_root, term)
    IN  /\ pc = "searching"
        /\ reply' = IF leaf = <<>> THEN Reply(<<"search", term, k>>, FALSE, <<>>)
                    ELSE Reply(<<"search", term, k>>, TRUE,
                               ReadAndDecompress(leaf[1], index_file,
                                                 Lesser(k, global_trim_postings_k)))
        /\ iterator' = NoIterator /\ keyword' = <<>>
        /\ UNCHANGED <<pc, index_file, written, opened>>

-----------------------------------------------------------------------------
\* ANT_btree_iterator

\* The term at a leaf of the node that was read.
Keyword(at) ==
    <<btree_root[at.node + 1].term \o StringAt(at.buffer, at.buffer[at.leaf + 2].value.string_pos)>>
\* next(): the next leaf, or the first of the next node.
Advance(at) ==
    IF at.leaf + 1 < TermsIn(at.buffer) THEN [at EXCEPT !.leaf = @ + 1]
    ELSE IF at.node + 2 = Len(btree_root) THEN [at EXCEPT !.leaf = @ + 1, !.node = @ + 1]
    ELSE [node |-> at.node + 1, leaf |-> 0, buffer |-> NodeAt(btree_root, at.node + 1)]

\* next() returns NULL when it gets to the end of the root.
MoveTo(question, at) ==
    /\ iterator' = at
    /\ keyword' = IF at.node + 1 = Len(btree_root) THEN <<>> ELSE Keyword(at)
    /\ reply' = Reply(question, FALSE, <<>>)
    /\ UNCHANGED <<pc, index_file, written, opened>>

\* first(): where a string is or would be.  Before the first term it starts at node 1.
First(string) ==
    LET place == LeafPosition(btree_root, string)
        before == btree_root[place.node + 1].disk_pos = 0
        node == IF before THEN 1 ELSE place.node
        buffer == NodeAt(btree_root, node)
        leaf == LowerBound(StringsIn(buffer), Suffix(string))
        at(i) == [node |-> node, leaf |-> i, buffer |-> buffer]
    IN  /\ pc = "searching"
        /\ MoveTo(<<"first", string>>,
                  IF before THEN Advance(at(-1))
                  ELSE IF ~InNode(btree_root, place, string) \/ leaf >= TermsIn(buffer)
                  THEN Advance(at(TermsIn(buffer)))
                  ELSE at(leaf))

Following ==
    /\ pc = "searching" /\ keyword # <<>>
    /\ MoveTo(<<"next">>, Advance(iterator))

-----------------------------------------------------------------------------
\* Writing the dictionary and then searching it.
DictionaryNext ==
    \/ WriteNode \/ WriteHeader
    \/ Open
    \/ \E term \in Asked, k \in Ks : term # <<>> /\ ~Special(term) /\ Search(term, k)
    \/ \E string \in Asked : First(string)
    \/ Following

\* The types.
DictionaryTypes ==
    /\ DOMAIN in_disk \subseteq DOMAIN index
    /\ here \in 0 .. Len(term_list)
    /\ Len(header) <= here
    /\ iterator.node \in Nat /\ iterator.leaf \in Nat
    /\ Len(keyword) <= 1
=============================================================================
