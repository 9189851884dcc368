------------------------------ MODULE TermTree ------------------------------
(***************************************************************************)
(* One entry of ANT_memory_index::hash_table: the binary tree of the terms *)
(* that hash there.  Inserters run add_term(); in the indexer there is one *)
(* of them, the main loop.  Readers are the preindexing threads: for every *)
(* term of their document, ANT_memory_index_one::new_hash_node() looks for *)
(* the node in the tree, without a lock and while the inserter changes it, *)
(* and keeps it as a hint (final_node) with which the main loop later adds *)
(* a posting without a search of its own.                                  *)
(*                                                                         *)
(* With REBALANCE_FACTOR > 0 (make rb=N) add_term() also rebalances a tree *)
(* that has grown deep, by rotations (the Day-Stout-Warren algorithm).     *)
(* Every write to a shared pointer is a step.                              *)
(***************************************************************************)
EXTENDS Integers, Sequences, FiniteSets

CONSTANTS
    Terms,              \* in the order of ANT_string_pair::strcmp()
    Inserters, Readers,
    Builds,             \* how the program may be built: REBALANCE_FACTOR, and ...
                        \* ... whether documents are preindexed by readers
    Dummy,              \* dummy_root
    NULL

Threads == Inserters \cup Readers
Node == Inserters \X Terms          \* the nodes that an inserter can create
StringOf(node) == node[2]
Sides == {"left", "right"}

ASSUME TermTreeAssumption ==
    /\ Terms \subseteq Int /\ IsFiniteSet(Terms)
    /\ IsFiniteSet(Inserters) /\ IsFiniteSet(Readers)
    /\ Inserters \cap Readers = {}
    /\ Builds \subseteq [rebalance : Int, parallel : BOOLEAN]
    /\ Dummy \notin Node \cup {NULL} /\ NULL \notin Node

VARIABLES
    build,              \* how this program was built
    hash_table,         \* the root of the tree, or NULL
    link,               \* the left and right pointers of every node, and of dummy_root
    pc,
    term,               \* the string that each thread looks for
    at,                 \* the node that each thread has reached: root, finder
    depth,              \* *depth, of the inserters
    posted,             \* the nodes on which a posting of each term was put
    hint,               \* final_node, of the readers
    vine                \* the local variables of the rebalancing inserter

tree == <<build, hash_table, link>>
vars == <<tree, pc, term, at, depth, posted, hint, vine>>

NoVine == [tail |-> NULL, remainder |-> NULL, nodes |-> 0, passes |-> <<>>, left |-> NULL]

Init ==
    /\ build \in Builds
    /\ hash_table = NULL
    /\ link = [node \in Node \cup {Dummy} |-> [side \in Sides |-> NULL]]
    /\ pc = [t \in Threads |-> "idle"]
    /\ term \in [Threads -> Terms]
    /\ at = [t \in Threads |-> NULL]
    /\ depth = [t \in Inserters |-> 1]
    /\ posted = [string \in Terms |-> {}]
    /\ hint = [t \in Readers |-> NULL]
    /\ vine = NoVine

Goto(t, here, there) == pc[t] = here /\ pc' = [pc EXCEPT ![t] = there]

\* strcmp() > 0 goes to the left.
SideOf(string, node) == IF string > StringOf(node) THEN "left" ELSE "right"

Child(t) == link[at[t]][SideOf(term[t], at[t])]

-----------------------------------------------------------------------------
\* Readers: new_hash_node() of the document's index and find_node()

FindBegin(r, string) ==
    /\ build.parallel
    /\ Goto(r, "idle", "find")
    /\ term' = [term EXCEPT ![r] = string]
    /\ at' = [at EXCEPT ![r] = hash_table]
    /\ UNCHANGED <<tree, depth, posted, hint, vine>>

FindAnswer(r, node) ==
    /\ hint' = [hint EXCEPT ![r] = node]
    /\ pc' = [pc EXCEPT ![r] = "idle"]
    /\ UNCHANGED <<tree, term, at, depth, posted, vine>>

\* Compares, and checks the pointer that leads on ...
Elsewhere(t) == at[t] # NULL /\ StringOf(at[t]) # term[t]

FindMore(r) ==
    /\ Goto(r, "find", "follow")
    /\ UNCHANGED <<tree, term, at, depth, posted, hint, vine>>

\* Mutant: the pointer is not checked.
FindCompare_NoCheck(r) ==
    /\ pc[r] = "find"
    /\ \/ ~Elsewhere(r) /\ FindAnswer(r, at[r])
       \/ Elsewhere(r) /\ FindMore(r)

FindCompare(r) ==
    /\ pc[r] = "find"
    /\ \/ ~Elsewhere(r) /\ FindAnswer(r, at[r])
       \/ Elsewhere(r) /\ Child(r) = NULL /\ FindAnswer(r, NULL)
       \/ Elsewhere(r) /\ Child(r) # NULL /\ FindMore(r)

\* Mutant: the search stays where it is.
FindFollow_Stays(r) ==
    /\ Goto(r, "follow", "find")
    /\ UNCHANGED <<tree, term, at, depth, posted, hint, vine>>

\* ... which it then reads again: finder is a pointer to volatile.
FindFollow(r) ==
    /\ pc[r] = "follow"
    /\ Goto(r, "follow", IF Child(r) = NULL THEN "crash" ELSE "find")
    /\ at' = [at EXCEPT ![r] = Child(r)]
    /\ UNCHANGED <<tree, term, depth, posted, hint, vine>>

-----------------------------------------------------------------------------
\* Inserters: add_term() and find_add_node()

AddBegin(t, string) ==
    /\ Goto(t, "idle", IF hash_table = NULL THEN "swap root" ELSE "compare")
    /\ term' = [term EXCEPT ![t] = string]
    /\ at' = [at EXCEPT ![t] = hash_table]
    /\ depth' = [depth EXCEPT ![t] = 1]
    /\ UNCHANGED <<tree, posted, hint, vine>>

\* A compare-and-swap of a new node into a pointer that was NULL.
SwapRoot(t) ==
    /\ Goto(t, "swap root", "load root")
    /\ hash_table' = IF hash_table = NULL THEN <<t, term[t]>> ELSE hash_table
    /\ UNCHANGED <<build, link, term, at, depth, posted, hint, vine>>

\* Mutant: the answer is what the root was before the swap.
LoadRoot_Before(t) ==
    /\ Goto(t, "load root", "found")
    /\ UNCHANGED <<tree, term, at, depth, posted, hint, vine>>

LoadRoot(t) ==
    /\ Goto(t, "load root", "found")
    /\ at' = [at EXCEPT ![t] = hash_table]
    /\ UNCHANGED <<tree, term, depth, posted, hint, vine>>

AddFound(t) ==
    /\ Goto(t, "compare", "found")
    /\ StringOf(at[t]) = term[t]
    /\ UNCHANGED <<tree, term, at, depth, posted, hint, vine>>

AddDescend(t) ==
    /\ pc[t] = "compare" /\ StringOf(at[t]) # term[t]
    /\ Goto(t, "compare", IF Child(t) = NULL THEN "swap" ELSE "compare")
    /\ at' = [at EXCEPT ![t] = IF Child(t) = NULL THEN @ ELSE Child(t)]
    /\ depth' = [depth EXCEPT ![t] = @ + 1]
    /\ UNCHANGED <<tree, term, posted, hint, vine>>

Swap(t) ==
    /\ Goto(t, "swap", "load")
    /\ link' = [link EXCEPT ![at[t]][SideOf(term[t], at[t])] =
                    IF @ = NULL THEN <<t, term[t]>> ELSE @]
    /\ UNCHANGED <<build, hash_table, term, at, depth, posted, hint, vine>>

\* Whatever node is there now is the answer.
Load(t) ==
    /\ Goto(t, "load", "found")
    /\ at' = [at EXCEPT ![t] = Child(t)]
    /\ UNCHANGED <<tree, term, depth, posted, hint, vine>>

Deep(t) == build.rebalance > 0 /\ depth[t] >= build.rebalance

AddPosting(t) ==
    /\ ~Deep(t) \/ pc[t] = "balanced"
    /\ pc[t] \in {"found", "balanced"}
    /\ posted' = [posted EXCEPT ![term[t]] = @ \cup {at[t]}]
    /\ pc' = [pc EXCEPT ![t] = "idle"]
    /\ UNCHANGED <<tree, term, at, depth, hint, vine>>

\* add_indexed_document_node(): a term whose node a reader found needs no search.
UseHint(t, r) ==
    /\ pc[t] = "idle" /\ pc[r] = "idle" /\ hint[r] # NULL
    /\ posted' = [posted EXCEPT ![term[r]] = @ \cup {hint[r]}]
    /\ hint' = [hint EXCEPT ![r] = NULL]
    /\ UNCHANGED <<tree, pc, term, at, depth, vine>>

-----------------------------------------------------------------------------
\* rebalance_tree(): first tree_to_vine() ...

Rotate(t) == UNCHANGED <<build, hash_table, term, at, depth, posted, hint>>

VineBegin(t) ==
    /\ Deep(t)
    /\ Goto(t, "found", "vine")
    /\ link' = [link EXCEPT ![Dummy].right = hash_table]
    /\ vine' = [NoVine EXCEPT !.tail = Dummy, !.remainder = hash_table]
    /\ Rotate(t)

\* A node without larger strings is in its place.
VineNext(t) ==
    /\ pc[t] = "vine" /\ vine.remainder # NULL
    /\ link[vine.remainder].left = NULL
    /\ vine' = [vine EXCEPT !.tail = vine.remainder,
                            !.remainder = link[vine.remainder].right,
                            !.nodes = @ + 1]
    /\ UNCHANGED <<link, pc>> /\ Rotate(t)

\* The three writes of a rotation to the right.
\* Mutant: the subtree between the two nodes is not taken over.
VineRotate1_Drop(t) ==
    /\ pc[t] = "vine" /\ vine.remainder # NULL
    /\ link[vine.remainder].left # NULL
    /\ Goto(t, "vine", "vine 2")
    /\ link' = [link EXCEPT ![vine.remainder].left = NULL]
    /\ vine' = [vine EXCEPT !.left = link[vine.remainder].left]
    /\ Rotate(t)

VineRotate1(t) ==
    /\ pc[t] = "vine" /\ vine.remainder # NULL
    /\ link[vine.remainder].left # NULL
    /\ Goto(t, "vine", "vine 2")
    /\ LET tmp == link[vine.remainder].left IN
       /\ link' = [link EXCEPT ![vine.remainder].left = link[tmp].right]
       /\ vine' = [vine EXCEPT !.left = tmp]
    /\ Rotate(t)

VineRotate2(t) ==
    /\ Goto(t, "vine 2", "vine 3")
    /\ link' = [link EXCEPT ![vine.left].right = vine.remainder]
    /\ UNCHANGED vine /\ Rotate(t)

VineRotate3(t) ==
    /\ Goto(t, "vine 3", "vine")
    /\ link' = [link EXCEPT ![vine.tail].right = vine.left]
    /\ vine' = [vine EXCEPT !.remainder = vine.left]
    /\ Rotate(t)

\* ... and then vine_to_tree(): size - full_size rotations for the lowest level, and
\* one pass for each level of the full tree above it.
Levels(size) == CHOOSE k \in 0 .. size : 2 ^ k - 1 <= size /\ 2 ^ (k + 1) - 1 > size
FullSize(size) == 2 ^ Levels(size) - 1

\* Mutant: only the lowest level is made.
Passes_LowestOnly(size) == <<size - FullSize(size)>>

Passes(size) ==
    <<size - FullSize(size)>>
        \o [level \in 1 .. Levels(size) - 1 |-> FullSize(size) \div 2 ^ level]

TreeBegin(t) ==
    /\ vine.remainder = NULL
    /\ Goto(t, "vine", "tree")
    /\ vine' = [vine EXCEPT !.tail = Dummy, !.passes = Passes(vine.nodes)]
    /\ UNCHANGED link /\ Rotate(t)

\* The three writes of a rotation to the left; tail is current, left is child.
TreeRotate1(t) ==
    /\ vine.passes # <<>> /\ Head(vine.passes) > 0
    /\ Goto(t, "tree", "tree 2")
    /\ LET child == link[vine.tail].right IN
       /\ link' = [link EXCEPT ![vine.tail].right = link[child].right]
       /\ vine' = [vine EXCEPT !.left = child, !.tail = link[child].right,
                               !.passes = <<Head(@) - 1>> \o Tail(@)]
    /\ Rotate(t)

TreeRotate2(t) ==
    /\ Goto(t, "tree 2", "tree 3")
    /\ link' = [link EXCEPT ![vine.left].right = link[vine.tail].left]
    /\ UNCHANGED vine /\ Rotate(t)

\* Mutant: the child goes back to the right.
TreeRotate3_Right(t) ==
    /\ Goto(t, "tree 3", "tree")
    /\ link' = [link EXCEPT ![vine.tail].right = vine.left]
    /\ UNCHANGED vine /\ Rotate(t)

TreeRotate3(t) ==
    /\ Goto(t, "tree 3", "tree")
    /\ link' = [link EXCEPT ![vine.tail].left = vine.left]
    /\ UNCHANGED vine /\ Rotate(t)

TreePass(t) ==
    /\ pc[t] = "tree" /\ vine.passes # <<>> /\ Head(vine.passes) = 0
    /\ vine' = [vine EXCEPT !.tail = Dummy, !.passes = Tail(@)]
    /\ UNCHANGED <<link, pc>> /\ Rotate(t)

TreeEnd(t) ==
    /\ vine.passes = <<>>
    /\ Goto(t, "tree", "balanced")
    /\ hash_table' = link[Dummy].right
    /\ vine' = NoVine
    /\ UNCHANGED <<build, link, term, at, depth, posted, hint>>

Rebalance(t) ==
    \/ VineBegin(t) \/ VineNext(t) \/ VineRotate1(t) \/ VineRotate2(t) \/ VineRotate3(t)
    \/ TreeBegin(t) \/ TreeRotate1(t) \/ TreeRotate2(t) \/ TreeRotate3(t)
    \/ TreePass(t) \/ TreeEnd(t)

-----------------------------------------------------------------------------
Find(r) == FindCompare(r) \/ FindFollow(r)

AddTerm(t) ==
    \/ SwapRoot(t) \/ LoadRoot(t) \/ AddFound(t) \/ AddDescend(t) \/ Swap(t) \/ Load(t)
    \/ AddPosting(t)

Next ==
    \/ \E r \in Readers : Find(r) \/ \E string \in Terms : FindBegin(r, string)
    \/ \E t \in Inserters :
        \/ AddTerm(t) \/ Rebalance(t)
        \/ \E string \in Terms : AddBegin(t, string)
        \/ \E r \in Readers : UseHint(t, r)

Spec == Init /\ [][Next]_vars

FairSpec == Spec /\ \A r \in Readers : WF_vars(Find(r))

-----------------------------------------------------------------------------
Statements == {"idle", "find", "follow", "crash", "swap root", "load root", "compare", "swap",
               "load", "found", "balanced", "vine", "vine 2", "vine 3", "tree", "tree 2", "tree 3"}

\* The type of the tree, of what each thread holds of it and of the postings: a
\* posting is always put on a node.
TypeOK ==
    /\ hash_table \in Node \cup {NULL}
    /\ link \in [Node \cup {Dummy} -> [Sides -> Node \cup {NULL}]]
    /\ pc \in [Threads -> Statements]
    /\ term \in [Threads -> Terms]
    /\ at \in [Threads -> Node \cup {NULL}]
    /\ depth \in [Inserters -> Nat]
    /\ posted \in [Terms -> SUBSET Node]
    /\ hint \in [Readers -> Node \cup {NULL}]
    /\ vine.remainder \in Node \cup {NULL}

\* The nodes that are reached from a node, itself included.
Closed(nodes) == \A node \in nodes, side \in Sides : link[node][side] \in nodes \cup {NULL}
Below(root) ==
    {node \in Node : \A nodes \in SUBSET Node :
        Closed(nodes) /\ root \in nodes \cup {NULL} => node \in nodes}

Tree == Below(hash_table)
Depth(node) == Cardinality({above \in Tree : node \in Below(above)})

Rebalancing == \E t \in Inserters : pc[t] \in {"vine", "vine 2", "vine 3", "tree", "tree 2", "tree 3"}

\* The tree is a search tree: no two nodes for one term, the larger strings on the
\* left of a node and the smaller on the right.
SearchTree ==
    ~Rebalancing =>
        \A node \in Tree :
            /\ \A below \in Below(link[node].left) : StringOf(below) > StringOf(node)
            /\ \A below \in Below(link[node].right) : StringOf(below) < StringOf(node)

\* A posting goes to a node for its own term, and to one that serialisation, which
\* walks the tree, will find: no rotation loses a node.
PostingsInTree ==
    /\ \A string \in Terms : \A node \in posted[string] : StringOf(node) = string
    /\ ~Rebalancing => \A string \in Terms : posted[string] \subseteq Tree

\* A thread that looks for a node never follows a pointer to nowhere.
ReadersSafe == \A r \in Readers : pc[r] # "crash"

\* Rebalancing leaves a tree as low as one of so many nodes can be.
BalancedLow ==
    \A t \in Inserters : pc[t] = "balanced" =>
        \A node \in Tree : 2 ^ (Depth(node) - 1) <= Cardinality(Tree)

\* A reader that begins to look also finishes, whatever is inserted meanwhile.
FindEnds == \A r \in Readers : pc[r] = "find" ~> pc[r] = "idle"
=============================================================================
