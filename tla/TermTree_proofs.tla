---------------------------- MODULE TermTree_proofs ----------------------------
(***************************************************************************)
(* Proofs about the tree of terms in the builds that do not rebalance it,  *)
(* the default, for every number of terms, inserters and readers: however  *)
(* their steps interleave, and without a lock, the tree stays a search     *)
(* tree, readers never follow a pointer to nowhere, and every posting is   *)
(* put on a node that is in the tree; with one inserter, as in the         *)
(* indexer, on the node of its own term.                                   *)
(*                                                                         *)
(* The first part is about trees as such: l is what link is, a function    *)
(* from nodes to their pointers, and root is a node or NULL.               *)
(***************************************************************************)
EXTENDS TermTree, TLAPS

Link == [Node \cup {Dummy} -> [Sides -> Node \cup {NULL}]]

IsClosed(l, nodes) == \A node \in nodes, side \in Sides : l[node][side] \in nodes \cup {NULL}

\* The nodes that are reached from a root, and those on one side of a node.
Reach(l, root) ==
    {node \in Node : \A nodes \in SUBSET Node :
        IsClosed(l, nodes) /\ root \in nodes \cup {NULL} => node \in nodes}
Under(l, node, side) == Reach(l, l[node][side])

\* The side of a node where a string belongs.
Goes(string, node, side) ==
    IF side = "left" THEN string > StringOf(node) ELSE string < StringOf(node)

Ordered(l, root) ==
    \A node \in Reach(l, root), side \in Sides :
        \A below \in Under(l, node, side) : Goes(StringOf(below), node, side)

\* Of two nodes above a third one is above the other.
Nested(l, root) ==
    \A a, b \in Reach(l, root) :
        \A node \in Reach(l, a) \cap Reach(l, b) : a \in Reach(l, b) \/ b \in Reach(l, a)

\* A node that is not in the tree points to nothing.
Blank(l, root) == \A node \in Node \ Reach(l, root), side \in Sides : l[node][side] = NULL

Shape(l, root) == Ordered(l, root) /\ Nested(l, root) /\ Blank(l, root)

\* Who looks for the string comes past the node ...
OnPath(l, root, string, here) ==
    \A node \in Reach(l, root), side \in Sides :
        here \in Under(l, node, side) => Goes(string, node, side)

\* ... and who is there has missed no other node that he had to come past.
Search(l, root, string, here) ==
    /\ here \in Reach(l, root)
    /\ OnPath(l, root, string, here)
    /\ \A node \in Reach(l, root) : OnPath(l, root, string, node) =>
          node \in Reach(l, here) \/ here \in Reach(l, node)

-----------------------------------------------------------------------------
\* What is reached

LEMMA ReachClosed ==
  ASSUME NEW l \in Link, NEW root
  PROVE  /\ Reach(l, root) \subseteq Node
         /\ IsClosed(l, Reach(l, root))
         /\ root \in Node => root \in Reach(l, root)
  <1>1. ASSUME NEW node \in Reach(l, root), NEW side \in Sides
        PROVE  l[node][side] \in Reach(l, root) \cup {NULL}
    <2>1. node \in Node /\ l[node][side] \in Node \cup {NULL}
      BY DEF Reach, Link
    <2>2. ASSUME NEW nodes \in SUBSET Node, IsClosed(l, nodes), root \in nodes \cup {NULL}
          PROVE  l[node][side] \in nodes \cup {NULL}
      <3>1. node \in nodes
        BY <2>2 DEF Reach
      <3> QED
        BY <2>2, <3>1 DEF IsClosed
    <2> QED
      BY <2>1, <2>2 DEF Reach
  <1>2. root \in Node => root \in Reach(l, root)
    BY TermTreeAssumption DEF Reach
  <1> QED
    BY <1>1, <1>2 DEF Reach, IsClosed

\* Reach is the least closed set.
LEMMA ReachLeast ==
  ASSUME NEW l, NEW root, NEW nodes \in SUBSET Node, IsClosed(l, nodes), root \in nodes \cup {NULL}
  PROVE  Reach(l, root) \subseteq nodes
  BY DEF Reach

LEMMA ReachNull ==
  ASSUME NEW l
  PROVE  Reach(l, NULL) = {}
  <1>1. IsClosed(l, {})
    BY DEF IsClosed
  <1> QED
    BY <1>1 DEF Reach

LEMMA ReachIn ==
  ASSUME NEW l \in Link, NEW root, NEW node \in Reach(l, root)
  PROVE  Reach(l, node) \subseteq Reach(l, root)
  BY ReachClosed, ReachLeast

\* What is on a side of a node is reached from it.
LEMMA UnderIn ==
  ASSUME NEW l \in Link, NEW node \in Node, NEW side \in Sides
  PROVE  /\ Under(l, node, side) \subseteq Reach(l, node)
         /\ l[node][side] \in Node => l[node][side] \in Under(l, node, side)
         /\ l[node][side] = NULL => Under(l, node, side) = {}
         /\ \A below \in Under(l, node, side) : Reach(l, below) \subseteq Under(l, node, side)
  <1>1. node \in Reach(l, node) /\ IsClosed(l, Reach(l, node)) /\ Reach(l, node) \subseteq Node
    BY ReachClosed
  <1>2. l[node][side] \in Reach(l, node) \cup {NULL}
    BY <1>1 DEF IsClosed
  <1>3. Reach(l, l[node][side]) \subseteq Reach(l, node)
    BY <1>1, <1>2, ReachLeast
  <1>4. l[node][side] \in Node => l[node][side] \in Reach(l, l[node][side])
    BY ReachClosed
  <1> QED
    BY <1>3, <1>4, ReachNull, ReachIn DEF Under

\* A node that is reached is the node itself, or on one of its sides.
LEMMA Sided ==
  ASSUME NEW l \in Link, NEW node \in Node, NEW below \in Reach(l, node), below # node
  PROVE  \E side \in Sides : below \in Under(l, node, side)
  <1> DEFINE nodes == {node} \cup Under(l, node, "left") \cup Under(l, node, "right")
  <1>1. nodes \in SUBSET Node
    BY ReachClosed DEF Under
  <1>2. IsClosed(l, nodes)
    <2> SUFFICES ASSUME NEW n \in nodes, NEW side \in Sides PROVE l[n][side] \in nodes \cup {NULL}
      BY DEF IsClosed
    <2>1. CASE n = node
      <3>1. l[node][side] \in Node \cup {NULL}
        BY DEF Link
      <3>2. side = "left" \/ side = "right"
        BY DEF Sides
      <3> QED
        BY <2>1, <3>1, <3>2, UnderIn
    <2>2. ASSUME NEW s \in Sides, n \in Under(l, node, s)
          PROVE  l[n][side] \in Under(l, node, s) \cup {NULL}
      BY <2>2, ReachClosed DEF Under, IsClosed
    <2> QED
      BY <2>1, <2>2 DEF Sides
  <1>3. Reach(l, node) \subseteq nodes
    BY <1>1, <1>2, ReachLeast
  <1> QED
    BY <1>3 DEF Sides

\* No string belongs on both sides of a node, and none of its own on either.
LEMMA OneSide ==
  ASSUME NEW string \in Terms, NEW node \in Node
  PROVE  /\ \A a, b \in Sides : Goes(string, node, a) /\ Goes(string, node, b) => a = b
         /\ StringOf(node) \in Terms
         /\ \A side \in Sides : ~Goes(StringOf(node), node, side)
         /\ SideOf(string, node) \in Sides
         /\ string # StringOf(node) => Goes(string, node, SideOf(string, node))
  <1>1. StringOf(node) \in Int /\ StringOf(node) \in Terms /\ string \in Int
    BY TermTreeAssumption DEF Node, StringOf
  <1>2. \A a, b \in Sides : Goes(string, node, a) /\ Goes(string, node, b) => a = b
    BY <1>1 DEF Goes, Sides
  <1>3. \A side \in Sides : ~Goes(StringOf(node), node, side)
    BY <1>1 DEF Goes
  <1>4. SideOf(string, node) \in Sides
    BY DEF SideOf, Sides
  <1>5. string # StringOf(node) => Goes(string, node, SideOf(string, node))
    BY <1>1 DEF Goes, SideOf
  <1> QED
    BY <1>1, <1>2, <1>3, <1>4, <1>5

-----------------------------------------------------------------------------
\* A search

\* A search begins at the root ...
LEMMA SearchFromRoot ==
  ASSUME NEW l \in Link, NEW root \in Node, NEW string, Ordered(l, root)
  PROVE  Search(l, root, string, root)
  <1>1. root \in Reach(l, root) /\ Reach(l, root) \subseteq Node
    BY ReachClosed
  <1>2. ASSUME NEW node \in Reach(l, root), NEW side \in Sides, root \in Under(l, node, side)
        PROVE  FALSE
    <2>1. node \in Node /\ StringOf(node) \in Terms
      BY <1>1 DEF Node, StringOf
    <2>2. node \in Under(l, node, side)
      BY <1>2, <2>1, UnderIn
    <2>3. Goes(StringOf(node), node, side)
      BY <2>2 DEF Ordered
    <2> QED
      BY <2>1, <2>3, OneSide
  <1> QED
    BY <1>1, <1>2 DEF Search, OnPath

\* ... goes down on the side of its string ...
LEMMA SearchDescends ==
  ASSUME NEW l \in Link, NEW root, NEW string \in Terms, NEW here, NEW side \in Sides,
         Ordered(l, root), Nested(l, root), Search(l, root, string, here),
         Goes(string, here, side), l[here][side] # NULL
  PROVE  Search(l, root, string, l[here][side])
  <1> DEFINE down == l[here][side]
  <1>1. here \in Reach(l, root) /\ Reach(l, root) \subseteq Node /\ here \in Node
    BY ReachClosed DEF Search
  <1>2. down \in Node /\ Under(l, here, side) = Reach(l, down)
    BY <1>1 DEF Link, Under
  <1> HIDE DEF down
  <1>3. /\ down \in Reach(l, down) /\ down \in Reach(l, here) /\ down \in Reach(l, root)
        /\ down \in Under(l, here, side)
        /\ Reach(l, down) \subseteq Reach(l, here)
    BY <1>1, <1>2, ReachClosed, ReachIn, UnderIn DEF down
  <1>4. ASSUME NEW node \in Node, NEW below \in Node, NEW a \in Sides,
               node \in Reach(l, root), below \in Under(l, node, a)
        PROVE  /\ Goes(StringOf(below), node, a)
               /\ \A b \in Sides : below \in Under(l, node, b) => a = b
    <2>1. \A b \in Sides : below \in Under(l, node, b) => Goes(StringOf(below), node, b)
      BY <1>4 DEF Ordered
    <2>2. StringOf(below) \in Terms
      BY <1>4 DEF Node, StringOf
    <2> QED
      BY <1>4, <2>1, <2>2, OneSide
  <1>5. OnPath(l, root, string, down)
    <2> SUFFICES ASSUME NEW node \in Reach(l, root), NEW a \in Sides, down \in Under(l, node, a)
                 PROVE  Goes(string, node, a)
      BY DEF OnPath
    <2>1. node \in Node /\ down \in Reach(l, node)
      BY <1>1, UnderIn
    <2>2. here \in Reach(l, node) \/ node \in Reach(l, here)
      BY <1>1, <1>3, <2>1 DEF Nested
    <2>3. CASE node = here
      BY <1>1, <1>2, <1>3, <1>4, <2>3
    <2>4. CASE node # here /\ here \in Reach(l, node)
      <3>1. PICK b \in Sides : here \in Under(l, node, b)
        BY <2>1, <2>4, Sided
      <3>2. down \in Under(l, node, b)
        BY <1>3, <2>1, <3>1, UnderIn
      <3>3. a = b
        BY <1>2, <1>4, <2>1, <3>2
      <3> QED
        BY <3>1, <3>3 DEF Search, OnPath
    <2>5. CASE node # here /\ node \in Reach(l, here)
      <3>1. PICK b \in Sides : node \in Under(l, here, b)
        BY <1>1, <2>5, Sided
      <3>2. down \in Under(l, here, b)
        BY <1>1, <2>1, <3>1, UnderIn
      <3>3. b = side
        BY <1>1, <1>2, <1>3, <1>4, <3>2
      <3>4. node \in Reach(l, down)
        BY <1>2, <3>1, <3>3
      <3>5. \E c \in {down, node}, b2 \in Sides : c \in Under(l, c, b2) /\ c \in Reach(l, root)
        <4>1. CASE node = down
          BY <1>3, <4>1
        <4>2. CASE node # down
          <5>1. PICK e \in Sides : node \in Under(l, down, e)
            BY <1>2, <3>4, <4>2, Sided
          <5>2. down \in Under(l, down, e)
            BY <1>2, <2>1, <5>1, UnderIn
          <5> QED
            BY <1>3, <5>2
        <4> QED
          BY <4>1, <4>2
      <3>6. PICK c \in {down, node}, b2 \in Sides : c \in Under(l, c, b2) /\ c \in Reach(l, root)
        BY <3>5
      <3>7. c \in Node /\ Goes(StringOf(c), c, b2) /\ StringOf(c) \in Terms
        BY <1>1, <1>4, <3>6 DEF Node, StringOf
      <3> QED
        BY <3>7, OneSide
    <2> QED
      BY <2>2, <2>3, <2>4, <2>5
  <1>6. ASSUME NEW node \in Reach(l, root), OnPath(l, root, string, node)
        PROVE  node \in Reach(l, down) \/ down \in Reach(l, node)
    <2>1. node \in Node
      BY <1>1
    <2>2. node \in Reach(l, here) \/ here \in Reach(l, node)
      BY <1>6 DEF Search
    <2>3. CASE here \in Reach(l, node)
      BY <1>3, <2>3, ReachIn
    <2>4. CASE node = here
      BY <1>3, <2>4
    <2>5. CASE node # here /\ node \in Reach(l, here)
      <3>1. PICK b \in Sides : node \in Under(l, here, b)
        BY <1>1, <2>5, Sided
      <3>2. Goes(string, here, b)
        BY <1>1, <1>6, <3>1 DEF OnPath
      <3>3. b = side
        BY <1>1, <3>2, OneSide
      <3> QED
        BY <1>2, <3>1, <3>3
    <2> QED
      BY <2>2, <2>3, <2>4, <2>5
  <1> QED
    BY <1>3, <1>5, <1>6 DEF Search, down

\* ... and where it ends, the tree has no node for the string.
LEMMA SearchFails ==
  ASSUME NEW l \in Link, NEW root, NEW string \in Terms, NEW here, NEW side \in Sides,
         Ordered(l, root), Search(l, root, string, here),
         Goes(string, here, side), l[here][side] = NULL
  PROVE  \A node \in Reach(l, root) : StringOf(node) # string
  <1> SUFFICES ASSUME NEW node \in Reach(l, root), StringOf(node) = string PROVE FALSE
    OBVIOUS
  <1>1. node \in Node /\ here \in Node /\ here \in Reach(l, root)
    BY ReachClosed DEF Search
  <1>2. OnPath(l, root, string, node)
    BY DEF Ordered, OnPath
  <1>3. node \in Reach(l, here) \/ here \in Reach(l, node)
    BY <1>2 DEF Search
  <1>4. node # here
    BY <1>1, OneSide
  <1>5. CASE node \in Reach(l, here)
    <2>1. PICK a \in Sides : node \in Under(l, here, a)
      BY <1>1, <1>4, <1>5, Sided
    <2>2. Goes(string, here, a)
      BY <1>1, <2>1 DEF Ordered
    <2>3. a = side
      BY <1>1, <2>2, OneSide
    <2> QED
      BY <1>1, <2>1, <2>3, UnderIn
  <1>6. CASE here \in Reach(l, node)
    <2>1. PICK a \in Sides : here \in Under(l, node, a)
      BY <1>1, <1>4, <1>6, Sided
    <2>2. Goes(string, node, a)
      BY <2>1 DEF Search, OnPath
    <2> QED
      BY <1>1, <2>2, OneSide
  <1> QED
    BY <1>3, <1>5, <1>6

-----------------------------------------------------------------------------
\* A node is put where there was none

\* after is what the tree l becomes.
Put(l, after, here, side, new) ==
    /\ l \in Link /\ after \in Link
    /\ here \in Node /\ side \in Sides /\ new \in Node
    /\ l[here][side] = NULL /\ after[here][side] = new
    /\ \A a \in Sides : after[new][a] = NULL
    /\ \A node \in Node, a \in Sides :
          ~(node = here /\ a = side) => after[node][a] = l[node][a]

LEMMA PutReach ==
  ASSUME NEW l, NEW after, NEW here, NEW side, NEW new, Put(l, after, here, side, new),
         NEW root \in Node \cup {NULL}
  PROVE  /\ Reach(l, root) \subseteq Reach(after, root)
         /\ Reach(after, root) \subseteq Reach(l, root) \cup {new}
         /\ root # new => (new \in Reach(after, root) => new \in Reach(l, root) \/ here \in Reach(l, root))
         /\ here \in Reach(l, root) => new \in Reach(after, root)
         /\ Reach(after, new) = {new}
  <1> USE DEF Put
  <1>1. /\ Reach(l, root) \subseteq Node /\ IsClosed(l, Reach(l, root))
        /\ Reach(after, root) \subseteq Node /\ IsClosed(after, Reach(after, root))
        /\ root \in Reach(l, root) \cup {NULL} /\ root \in Reach(after, root) \cup {NULL}
    BY ReachClosed
  <1>2. IsClosed(l, Reach(after, root))
    BY <1>1 DEF IsClosed
  <1>3. Reach(l, root) \subseteq Reach(after, root)
    BY <1>1, <1>2, ReachLeast
  <1>4. IsClosed(after, Reach(l, root) \cup {new})
    BY <1>1 DEF IsClosed
  <1>5. Reach(after, root) \subseteq Reach(l, root) \cup {new}
    BY <1>1, <1>4, ReachLeast
  <1>6. here \notin Reach(l, root) => IsClosed(after, Reach(l, root))
    BY <1>1 DEF IsClosed
  <1>7. here \notin Reach(l, root) => Reach(after, root) \subseteq Reach(l, root)
    BY <1>1, <1>6, ReachLeast
  <1>8. here \in Reach(l, root) => new \in Reach(after, root)
    <2>1. new # NULL
      BY TermTreeAssumption
    <2> QED
      BY <1>1, <1>3, <2>1 DEF IsClosed
  <1>9. Reach(after, new) = {new}
    <2>1. IsClosed(after, {new})
      BY DEF IsClosed
    <2> QED
      BY <2>1, ReachLeast, ReachClosed
  <1> QED
    BY <1>3, <1>5, <1>7, <1>8, <1>9

\* On each side of a node that was in the tree there is what was there and, on the way to
\* the place, the new node.
LEMMA PutUnder ==
  ASSUME NEW l, NEW after, NEW here, NEW side, NEW new, Put(l, after, here, side, new),
         NEW node \in Node, NEW a \in Sides
  PROVE  /\ Under(l, node, a) \subseteq Under(after, node, a)
         /\ \A below \in Under(after, node, a) :
                below # new => below \in Under(l, node, a)
         /\ l[node][a] # new /\ new \in Under(after, node, a) =>
                \/ node = here /\ a = side
                \/ new \in Under(l, node, a)
                \/ here \in Under(l, node, a)
         /\ here \in Under(l, node, a) => new \in Under(after, node, a)
         /\ new \in Under(after, here, side)
         /\ node = new => Under(after, node, a) = {}
  <1>1. CASE node = here /\ a = side
    <2>1. Under(l, node, a) = {}
      BY <1>1, UnderIn DEF Put
    <2>2. Under(after, node, a) = {new}
      BY <1>1, PutReach DEF Put, Under
    <2>3. new # NULL /\ (node = new => after[node][a] = NULL)
      BY TermTreeAssumption DEF Put
    <2> QED
      BY <1>1, <2>1, <2>2, <2>3 DEF Put
  <1>2. CASE ~(node = here /\ a = side)
    <2>1. after[node][a] = l[node][a] /\ l[node][a] \in Node \cup {NULL}
      BY <1>2 DEF Put, Link
    <2>2. Under(after, here, side) = {new}
      BY PutReach DEF Put, Under
    <2>3. node = new => Under(after, node, a) = {}
      BY UnderIn DEF Put
    <2> QED
      BY <2>1, <2>2, <2>3, PutReach DEF Under
  <1> QED
    BY <1>1, <1>2

\* A new node where its search ended leaves a search tree.
LEMMA PutShape ==
  ASSUME NEW l, NEW after, NEW here, NEW side, NEW new, Put(l, after, here, side, new),
         NEW root \in Node \cup {NULL}, Shape(l, root), here \in Reach(l, root),
         new \notin Reach(l, root),
         OnPath(l, root, StringOf(new), here), Goes(StringOf(new), here, side)
  PROVE  Shape(after, root)
  <1>1. /\ l \in Link /\ after \in Link /\ here \in Node /\ side \in Sides /\ new \in Node
        /\ here # new
    BY DEF Put
  <1>2. /\ Reach(l, root) \subseteq Reach(after, root) /\ Reach(l, root) \subseteq Node
        /\ Reach(after, root) \subseteq Reach(l, root) \cup {new}
        /\ new \in Reach(after, root)
    BY <1>1, PutReach, ReachClosed
  <1>3. root # new
    BY <1>1, ReachClosed
  <1>4. \A node \in Reach(l, root), a \in Sides :
            l[node][a] # new /\ new \notin Under(l, node, a) /\ Under(l, node, a) \subseteq Reach(l, root)
    <2> TAKE node \in Reach(l, root), a \in Sides
    <2>1. node \in Node
      BY <1>2
    <2>2. Under(l, node, a) \subseteq Reach(l, root)
      BY <1>1, <2>1, UnderIn, ReachIn
    <2> QED
      BY <1>1, <2>1, <2>2, UnderIn
  <1>5. Ordered(after, root)
    <2> SUFFICES ASSUME NEW node \in Reach(after, root), NEW a \in Sides,
                        NEW below \in Under(after, node, a)
                 PROVE  Goes(StringOf(below), node, a)
      BY DEF Ordered
    <2>1. node # new /\ node \in Reach(l, root) /\ node \in Node
      BY <1>1, <1>2, PutUnder
    <2>2. CASE below # new
      BY <2>1, <2>2, PutUnder DEF Shape, Ordered
    <2>3. CASE below = new
      <3>1. (node = here /\ a = side) \/ here \in Under(l, node, a)
        BY <1>4, <2>1, <2>3, PutUnder
      <3> QED
        BY <2>1, <2>3, <3>1 DEF OnPath
    <2> QED
      BY <2>2, <2>3
  <1>6. \A y \in Reach(l, root) : /\ y \in Node /\ new \notin Reach(l, y) /\ y # new
                                  /\ Reach(l, y) \subseteq Reach(after, y)
                                  /\ Reach(after, y) \subseteq Reach(l, y) \cup {new}
                                  /\ new \in Reach(after, y) <=> here \in Reach(l, y)
    <2> TAKE y \in Reach(l, root)
    <2>1. y \in Node /\ Reach(l, y) \subseteq Reach(l, root)
      BY <1>1, <1>2, ReachIn
    <2> QED
      BY <2>1, PutReach
  <1>7. Reach(after, new) = {new}
    BY PutReach
  <1>8. Nested(after, root)
    <2> SUFFICES ASSUME NEW a \in Reach(after, root), NEW b \in Reach(after, root),
                        NEW node \in Reach(after, a) \cap Reach(after, b)
                 PROVE  a \in Reach(after, b) \/ b \in Reach(after, a)
      BY DEF Nested
    <2>1. CASE a = new \/ b = new
      BY <1>7, <2>1
    <2>2. CASE a # new /\ b # new
      <3>1. a \in Reach(l, root) /\ b \in Reach(l, root)
        BY <1>2, <2>2
      <3>2. \E n \in Reach(l, a) : n \in Reach(l, b)
        <4>1. CASE node = new
          BY <1>6, <3>1, <4>1
        <4>2. CASE node # new
          BY <1>6, <3>1, <4>2
        <4> QED
          BY <4>1, <4>2
      <3>3. a \in Reach(l, b) \/ b \in Reach(l, a)
        BY <3>1, <3>2 DEF Shape, Nested
      <3> QED
        BY <1>6, <3>1, <3>3
    <2> QED
      BY <2>1, <2>2
  <1>9. Blank(after, root)
    BY <1>1, <1>2 DEF Shape, Blank, Put
  <1> QED
    BY <1>5, <1>8, <1>9 DEF Shape

\* Nor does it disturb a search that is under way, for the same string or another.
LEMMA PutSearch ==
  ASSUME NEW l, NEW after, NEW here, NEW side, NEW new, Put(l, after, here, side, new),
         NEW root \in Node \cup {NULL}, Shape(l, root), here \in Reach(l, root),
         new \notin Reach(l, root),
         NEW string \in Terms, NEW there, Search(l, root, string, there)
  PROVE  Search(after, root, string, there)
  <1>1. /\ l \in Link /\ after \in Link /\ here \in Node /\ side \in Sides /\ new \in Node
        /\ here # new /\ there \in Reach(l, root)
    BY DEF Put, Search
  <1>2. /\ Reach(l, root) \subseteq Reach(after, root) /\ Reach(l, root) \subseteq Node
        /\ Reach(after, root) \subseteq Reach(l, root) \cup {new}
        /\ there \in Reach(after, root) /\ there \in Node /\ there # new
    BY <1>1, PutReach, ReachClosed
  <1>3. OnPath(after, root, string, there)
    <2> SUFFICES ASSUME NEW node \in Reach(after, root), NEW a \in Sides,
                        there \in Under(after, node, a)
                 PROVE  Goes(string, node, a)
      BY DEF OnPath
    <2>1. node # new /\ node \in Reach(l, root) /\ node \in Node
      BY <1>1, <1>2, PutUnder
    <2>2. there \in Under(l, node, a)
      BY <1>2, <2>1, PutUnder
    <2> QED
      BY <2>1, <2>2 DEF Search, OnPath
  <1>4. ASSUME NEW node \in Reach(l, root), OnPath(after, root, string, node)
        PROVE  node \in Reach(l, there) \/ there \in Reach(l, node)
    <2>1. OnPath(l, root, string, node)
      <3> SUFFICES ASSUME NEW above \in Reach(l, root), NEW a \in Sides, node \in Under(l, above, a)
                   PROVE  Goes(string, above, a)
        BY DEF OnPath
      <3>1. node \in Under(after, above, a) /\ above \in Reach(after, root)
        BY <1>2, PutUnder
      <3> QED
        BY <1>4, <3>1 DEF OnPath
    <2> QED
      BY <2>1 DEF Search
  <1>5. ASSUME OnPath(after, root, string, new)
        PROVE  new \in Reach(after, there)
    <2>1. Goes(string, here, side)
      BY <1>1, <1>2, <1>5, PutUnder DEF OnPath
    <2>2. OnPath(l, root, string, here)
      <3> SUFFICES ASSUME NEW above \in Reach(l, root), NEW a \in Sides, here \in Under(l, above, a)
                   PROVE  Goes(string, above, a)
        BY DEF OnPath
      <3>1. new \in Under(after, above, a) /\ above \in Reach(after, root)
        BY <1>2, PutUnder
      <3> QED
        BY <1>5, <3>1 DEF OnPath
    <2>3. here \in Reach(l, there) \/ there \in Reach(l, here)
      BY <2>2 DEF Search
    <2>4. here \in Reach(l, there)
      <3>1. CASE there = here
        BY <1>1, <3>1, ReachClosed
      <3>2. CASE there # here /\ there \in Reach(l, here)
        <4>1. PICK a \in Sides : there \in Under(l, here, a)
          BY <1>1, <3>2, Sided
        <4>2. Goes(string, here, a)
          BY <4>1 DEF Search, OnPath
        <4>3. a = side
          BY <1>1, <2>1, <4>2, OneSide
        <4>4. Under(l, here, side) = {}
          BY <1>1, UnderIn DEF Put
        <4> QED
          BY <4>1, <4>3, <4>4
      <3> QED
        BY <2>3, <3>1, <3>2
    <2> QED
      BY <1>2, <2>4, PutReach
  <1>6. ASSUME NEW node \in Reach(after, root), OnPath(after, root, string, node)
        PROVE  node \in Reach(after, there) \/ there \in Reach(after, node)
    <2>1. CASE node = new
      BY <1>5, <1>6, <2>1
    <2>2. CASE node # new
      <3>1. node \in Reach(l, root) /\ node \in Node
        BY <1>2, <2>2
      <3> QED
        BY <1>2, <1>4, <1>6, <3>1, PutReach
    <2> QED
      BY <2>1, <2>2
  <1> QED
    BY <1>2, <1>3, <1>6 DEF Search

\* The first node of a tree.
LEMMA FirstNode ==
  ASSUME NEW l \in Link, Shape(l, NULL), NEW root \in Node
  PROVE  Shape(l, root)
  <1>1. \A node \in Node, side \in Sides : l[node][side] = NULL
    BY ReachNull DEF Shape, Blank
  <1>2. IsClosed(l, {root})
    BY <1>1 DEF IsClosed
  <1>3. Reach(l, root) = {root}
    BY <1>2, ReachLeast, ReachClosed
  <1>4. \A side \in Sides : Under(l, root, side) = {}
    BY <1>1, UnderIn
  <1> QED
    BY <1>1, <1>3, <1>4 DEF Shape, Ordered, Nested, Blank

-----------------------------------------------------------------------------
\* The invariant

\* No program rebalances.
NeverRebalances == \A b \in Builds : b.rebalance <= 0

InTree == Reach(link, hash_table)

\* An inserter is on the way of its string, and what it swaps into is its own place.
Inserting(t) ==
    /\ pc[t] \in {"idle", "swap root", "load root", "compare", "swap", "load", "found"}
    /\ pc[t] \in {"compare", "swap", "load"} => Search(link, hash_table, term[t], at[t])
    /\ pc[t] \in {"swap", "load"} => StringOf(at[t]) # term[t]
    /\ pc[t] = "load" => Child(t) # NULL
    /\ pc[t] = "load root" => hash_table # NULL
    /\ pc[t] = "found" => at[t] \in InTree

\* A pointer that a reader has seen is not taken away again.
Reading(r) ==
    /\ pc[r] \in {"idle", "find", "follow"}
    /\ at[r] \in InTree \cup {NULL} /\ hint[r] \in InTree \cup {NULL}
    /\ pc[r] = "follow" => at[r] # NULL /\ Child(r) # NULL

TInv ==
    /\ TypeOK /\ build \in Builds
    /\ Shape(link, hash_table)
    /\ \A t \in Inserters : Inserting(t)
    /\ \A r \in Readers : Reading(r)
    /\ \A string \in Terms : posted[string] \subseteq InTree

\* A step keeps the tree or puts a node in it.
Grows ==
    /\ link' \in Link /\ hash_table' \in Node \cup {NULL} /\ build' = build
    /\ Shape(link', hash_table')
    /\ InTree \subseteq Reach(link', hash_table')
    /\ \A string \in Terms, here \in Node :
          Search(link, hash_table, string, here) => Search(link', hash_table', string, here)
    /\ \A node \in Node, side \in Sides :
          link[node][side] # NULL => link'[node][side] = link[node][side]
    /\ hash_table # NULL => hash_table' = hash_table

LEMMA TreeTypes ==
  ASSUME TInv
  PROVE  /\ link \in Link /\ hash_table \in Node \cup {NULL} /\ InTree \subseteq Node
         /\ pc \in [Threads -> Statements] /\ term \in [Threads -> Terms]
         /\ at \in [Threads -> Node \cup {NULL}]
         /\ Inserters \subseteq Threads /\ Readers \subseteq Threads
         /\ \A t \in Threads : SideOf(term[t], at[t]) \in Sides
  <1>1. link \in Link /\ hash_table \in Node \cup {NULL}
    BY DEF TInv, TypeOK, Link
  <1>2. InTree \subseteq Node
    BY <1>1, ReachClosed DEF InTree
  <1> QED
    BY <1>1, <1>2 DEF TInv, TypeOK, Threads, SideOf, Sides

LEMMA KeepsGrows ==
  ASSUME TInv, UNCHANGED tree
  PROVE  Grows
  BY TreeTypes DEF tree, Grows, TInv, InTree

\* The other threads do not notice.
LEMMA OthersKeep ==
  ASSUME TInv, Grows, TypeOK', NEW t \in Threads,
         \A u \in Threads \ {t} : pc'[u] = pc[u] /\ term'[u] = term[u] /\ at'[u] = at[u],
         \A r \in Readers \ {t} : hint'[r] \in {hint[r], NULL},
         t \in Inserters => Inserting(t)',
         t \in Readers => Reading(t)',
         \A string \in Terms : posted'[string] \subseteq Reach(link', hash_table')
  PROVE  TInv'
  <1> USE TreeTypes
  <1>1. ASSUME NEW u \in Inserters, u # t PROVE Inserting(u)'
    <2>1. /\ pc'[u] = pc[u] /\ term'[u] = term[u] /\ at'[u] = at[u] /\ Inserting(u)
          /\ u \in Threads /\ term[u] \in Terms
      BY <1>1 DEF TInv
    <2>2. pc[u] \in {"compare", "swap", "load"} =>
              at[u] \in Node /\ Search(link', hash_table', term[u], at[u])
      BY <2>1 DEF Inserting, Grows, Search, InTree
    <2>3. pc[u] = "load" => link'[at[u]][SideOf(term[u], at[u])] # NULL
      BY <2>1, <2>2 DEF Inserting, Grows, Child
    <2> QED
      BY <2>1, <2>2, <2>3 DEF Inserting, Grows, Child, InTree, SideOf
  <1>2. ASSUME NEW u \in Readers, u # t PROVE Reading(u)'
    <2>1. /\ pc'[u] = pc[u] /\ term'[u] = term[u] /\ at'[u] = at[u] /\ Reading(u)
          /\ hint'[u] \in {hint[u], NULL} /\ u \in Threads
      BY <1>2 DEF TInv
    <2>2. pc[u] = "follow" => at[u] # NULL /\ link'[at[u]][SideOf(term[u], at[u])] # NULL
      BY <2>1 DEF Reading, Grows, Child
    <2> QED
      BY <2>1, <2>2 DEF Reading, Grows, Child, InTree, SideOf
  <1> QED
    BY <1>1, <1>2 DEF TInv, Grows, InTree

-----------------------------------------------------------------------------
\* The invariant is inductive: one lemma for each action of a reader ...

LEMMA FindBeginKeeps ==
  ASSUME TInv, NEW r \in Readers, NEW string \in Terms, FindBegin(r, string)
  PROVE  TInv'
  <1> USE TreeTypes
  <1>1. /\ pc' = [pc EXCEPT ![r] = "find"] /\ term' = [term EXCEPT ![r] = string]
        /\ at' = [at EXCEPT ![r] = hash_table]
        /\ UNCHANGED <<tree, depth, posted, hint, vine>>
    BY DEF FindBegin, Goto
  <1>2. TypeOK'
    BY <1>1 DEF TInv, TypeOK, tree, Statements
  <1>3. hash_table \in InTree \cup {NULL}
    BY ReachClosed DEF InTree
  <1>4. Reading(r)'
    BY <1>1, <1>3 DEF TInv, Reading, InTree, tree
  <1>5. \A text \in Terms : posted'[text] \subseteq Reach(link', hash_table')
    BY <1>1 DEF TInv, InTree, tree
  <1>6. r \notin Inserters
    BY TermTreeAssumption
  <1> QED
    BY <1>1, <1>2, <1>4, <1>5, <1>6, KeepsGrows, OthersKeep

LEMMA FindCompareKeeps ==
  ASSUME TInv, NEW r \in Readers, FindCompare(r)
  PROVE  TInv'
  <1> USE TreeTypes
  <1>1. /\ pc[r] = "find" /\ UNCHANGED <<tree, term, at, depth, posted, vine>>
        /\ \/ /\ pc' = [pc EXCEPT ![r] = "idle"]
              /\ hint' = [hint EXCEPT ![r] = at[r]] \/ hint' = [hint EXCEPT ![r] = NULL]
           \/ /\ pc' = [pc EXCEPT ![r] = "follow"] /\ UNCHANGED hint
              /\ at[r] # NULL /\ Child(r) # NULL
    BY DEF FindCompare, FindAnswer, FindMore, Goto, Elsewhere
  <1>2. /\ at[r] \in InTree \cup {NULL} /\ hint[r] \in InTree \cup {NULL}
        /\ hint \in [Readers -> Node \cup {NULL}]
    BY DEF TInv, Reading, TypeOK
  <1>3. TypeOK'
    BY <1>1, <1>2 DEF TInv, TypeOK, tree, Statements
  <1>4. Reading(r)'
    BY <1>1, <1>2 DEF Reading, InTree, tree, Child, SideOf
  <1>5. \A text \in Terms : posted'[text] \subseteq Reach(link', hash_table')
    BY <1>1 DEF TInv, InTree, tree
  <1>6. r \notin Inserters /\ \A s \in Readers \ {r} : hint'[s] = hint[s]
    BY <1>1, <1>2, TermTreeAssumption
  <1> QED
    BY <1>1, <1>3, <1>4, <1>5, <1>6, KeepsGrows, OthersKeep

LEMMA FindFollowKeeps ==
  ASSUME TInv, NEW r \in Readers, FindFollow(r)
  PROVE  TInv'
  <1> USE TreeTypes
  <1>1. at[r] # NULL /\ Child(r) # NULL /\ at[r] \in InTree /\ hint[r] \in InTree \cup {NULL}
    BY DEF TInv, Reading, FindFollow
  <1>2. /\ pc' = [pc EXCEPT ![r] = "find"] /\ at' = [at EXCEPT ![r] = Child(r)]
        /\ UNCHANGED <<tree, term, depth, posted, hint, vine>>
    BY <1>1 DEF FindFollow, Goto
  <1>3. Child(r) \in InTree /\ Child(r) \in Node
    <2>1. IsClosed(link, InTree)
      BY ReachClosed DEF InTree
    <2> QED
      BY <1>1, <2>1 DEF IsClosed, Child
  <1>4. TypeOK'
    BY <1>2, <1>3 DEF TInv, TypeOK, tree, Statements
  <1>5. Reading(r)'
    <2>1. pc'[r] = "find" /\ at'[r] = Child(r) /\ hint'[r] = hint[r]
      BY <1>2
    <2> QED
      BY <1>1, <1>2, <1>3, <2>1 DEF Reading, InTree, tree
  <1>6. \A text \in Terms : posted'[text] \subseteq Reach(link', hash_table')
    BY <1>2 DEF TInv, InTree, tree
  <1>7. r \notin Inserters
    BY TermTreeAssumption
  <1> QED
    BY <1>2, <1>4, <1>5, <1>6, <1>7, KeepsGrows, OthersKeep

\* ... and of an inserter.
LEMMA AddBeginKeeps ==
  ASSUME TInv, NEW t \in Inserters, NEW string \in Terms, AddBegin(t, string)
  PROVE  TInv'
  <1> USE TreeTypes
  <1>1. /\ pc' = [pc EXCEPT ![t] = IF hash_table = NULL THEN "swap root" ELSE "compare"]
        /\ term' = [term EXCEPT ![t] = string] /\ at' = [at EXCEPT ![t] = hash_table]
        /\ depth' = [depth EXCEPT ![t] = 1]
        /\ UNCHANGED <<tree, posted, hint, vine>>
    BY DEF AddBegin, Goto
  <1>2. TypeOK'
    BY <1>1 DEF TInv, TypeOK, tree, Statements
  <1>3. hash_table # NULL => Search(link, hash_table, string, hash_table)
    BY SearchFromRoot DEF TInv, Shape
  <1>4. Inserting(t)'
    <2>1. /\ pc'[t] = (IF hash_table = NULL THEN "swap root" ELSE "compare")
          /\ term'[t] = string /\ at'[t] = hash_table
          /\ link' = link /\ hash_table' = hash_table
      BY <1>1 DEF tree
    <2> QED
      BY <1>3, <2>1 DEF Inserting
  <1>5. \A text \in Terms : posted'[text] \subseteq Reach(link', hash_table')
    BY <1>1 DEF TInv, InTree, tree
  <1>6. t \notin Readers
    BY TermTreeAssumption
  <1> QED
    BY <1>1, <1>2, <1>4, <1>5, <1>6, KeepsGrows, OthersKeep

LEMMA SwapRootKeeps ==
  ASSUME TInv, NEW t \in Inserters, SwapRoot(t)
  PROVE  TInv'
  <1> USE TreeTypes
  <1> DEFINE new == <<t, term[t]>>
  <1>1. /\ pc' = [pc EXCEPT ![t] = "load root"]
        /\ hash_table' = IF hash_table = NULL THEN new ELSE hash_table
        /\ UNCHANGED <<build, link, term, at, depth, posted, hint, vine>>
        /\ new \in Node
    BY DEF SwapRoot, Goto, Node
  <1> HIDE DEF new
  <1>2. TypeOK'
    BY <1>1 DEF TInv, TypeOK, Statements
  <1>3. new # NULL
    BY <1>1, TermTreeAssumption
  <1>4. hash_table = NULL => /\ Shape(link, new) /\ InTree = {}
                             /\ \A string, here : ~Search(link, hash_table, string, here)
    BY <1>1, FirstNode, ReachNull DEF TInv, InTree, Search
  <1>5. Grows
    BY <1>1, <1>3, <1>4 DEF Grows, TInv, InTree
  <1>6. Inserting(t)'
    BY <1>1, <1>3 DEF Inserting
  <1>7. \A text \in Terms : posted'[text] \subseteq Reach(link', hash_table')
    BY <1>1, <1>5 DEF TInv, Grows
  <1>8. t \notin Readers
    BY TermTreeAssumption
  <1> QED
    BY <1>1, <1>2, <1>5, <1>6, <1>7, <1>8, OthersKeep

LEMMA LoadRootKeeps ==
  ASSUME TInv, NEW t \in Inserters, LoadRoot(t)
  PROVE  TInv'
  <1> USE TreeTypes
  <1>1. /\ pc[t] = "load root" /\ pc' = [pc EXCEPT ![t] = "found"]
        /\ at' = [at EXCEPT ![t] = hash_table]
        /\ UNCHANGED <<tree, term, depth, posted, hint, vine>>
    BY DEF LoadRoot, Goto
  <1>2. TypeOK'
    BY <1>1 DEF TInv, TypeOK, tree, Statements
  <1>3. hash_table # NULL /\ hash_table \in InTree
    BY <1>1, ReachClosed DEF TInv, Inserting, InTree
  <1>4. Inserting(t)'
    BY <1>1, <1>3 DEF Inserting, InTree, tree
  <1>5. \A text \in Terms : posted'[text] \subseteq Reach(link', hash_table')
    BY <1>1 DEF TInv, InTree, tree
  <1>6. t \notin Readers
    BY TermTreeAssumption
  <1> QED
    BY <1>1, <1>2, <1>4, <1>5, <1>6, KeepsGrows, OthersKeep

LEMMA AddFoundKeeps ==
  ASSUME TInv, NEW t \in Inserters, AddFound(t)
  PROVE  TInv'
  <1> USE TreeTypes
  <1>1. /\ pc[t] = "compare" /\ pc' = [pc EXCEPT ![t] = "found"]
        /\ UNCHANGED <<tree, term, at, depth, posted, hint, vine>>
    BY DEF AddFound, Goto
  <1>2. TypeOK'
    BY <1>1 DEF TInv, TypeOK, tree, Statements
  <1>3. at[t] \in InTree
    BY <1>1 DEF TInv, Inserting, InTree, Search
  <1>4. Inserting(t)'
    BY <1>1, <1>3 DEF Inserting, InTree, tree
  <1>5. \A text \in Terms : posted'[text] \subseteq Reach(link', hash_table')
    BY <1>1 DEF TInv, InTree, tree
  <1>6. t \notin Readers
    BY TermTreeAssumption
  <1> QED
    BY <1>1, <1>2, <1>4, <1>5, <1>6, KeepsGrows, OthersKeep

LEMMA AddDescendKeeps ==
  ASSUME TInv, NEW t \in Inserters, AddDescend(t)
  PROVE  TInv'
  <1> USE TreeTypes
  <1> DEFINE child == Child(t)
  <1>1. /\ pc[t] = "compare" /\ StringOf(at[t]) # term[t]
        /\ pc' = [pc EXCEPT ![t] = IF child = NULL THEN "swap" ELSE "compare"]
        /\ at' = [at EXCEPT ![t] = IF child = NULL THEN @ ELSE child]
        /\ depth' = [depth EXCEPT ![t] = @ + 1]
        /\ UNCHANGED <<tree, term, posted, hint, vine>>
    BY DEF AddDescend, Goto
  <1>2. /\ Search(link, hash_table, term[t], at[t]) /\ at[t] \in Node /\ term[t] \in Terms
        /\ child \in Node \cup {NULL}
    BY <1>1 DEF TInv, Inserting, Search, InTree, Child, Link
  <1>3. child # NULL => Search(link, hash_table, term[t], child)
    <2>1. Goes(term[t], at[t], SideOf(term[t], at[t])) /\ SideOf(term[t], at[t]) \in Sides
      BY <1>1, <1>2, OneSide
    <2> QED
      BY <1>2, <2>1, SearchDescends DEF TInv, Shape, Child
  <1> HIDE DEF child
  <1>4. TypeOK'
    <2>1. depth' \in [Inserters -> Nat]
      <3>1. depth \in [Inserters -> Nat] /\ depth[t] + 1 \in Nat
        BY DEF TInv, TypeOK
      <3> QED
        BY <1>1, <3>1
    <2>2. pc' \in [Threads -> Statements] /\ at' \in [Threads -> Node \cup {NULL}]
      BY <1>1, <1>2 DEF Statements
    <2> QED
      BY <1>1, <2>1, <2>2 DEF TInv, TypeOK, tree
  <1>5. Inserting(t)'
    <2>1. /\ pc'[t] = (IF child = NULL THEN "swap" ELSE "compare")
          /\ at'[t] = (IF child = NULL THEN at[t] ELSE child)
          /\ term'[t] = term[t] /\ link' = link /\ hash_table' = hash_table
      BY <1>1 DEF tree
    <2> QED
      BY <1>1, <1>2, <1>3, <2>1 DEF Inserting
  <1>6. \A text \in Terms : posted'[text] \subseteq Reach(link', hash_table')
    BY <1>1 DEF TInv, InTree, tree
  <1>7. t \notin Readers
    BY TermTreeAssumption
  <1> QED
    BY <1>1, <1>4, <1>5, <1>6, <1>7, KeepsGrows, OthersKeep

\* The compare-and-swap that succeeds: the tree has no node for the string, and this is
\* its place.
LEMMA SwapGrows ==
  ASSUME TInv, NEW t \in Inserters, Swap(t)
  PROVE  /\ Grows
         /\ link'[at[t]][SideOf(term[t], at[t])] # NULL
  <1> USE TreeTypes
  <1> DEFINE here == at[t]
             side == SideOf(term[t], at[t])
             new == <<t, term[t]>>
  <1>1. /\ pc[t] = "swap" /\ UNCHANGED <<build, hash_table>>
        /\ link' = [link EXCEPT ![here][side] = IF @ = NULL THEN new ELSE @]
        /\ new \in Node /\ term[t] \in Terms /\ StringOf(new) = term[t]
    BY DEF Swap, Goto, Node, StringOf
  <1>2. /\ Search(link, hash_table, term[t], here) /\ StringOf(here) # term[t]
        /\ here \in Node /\ here \in InTree /\ Shape(link, hash_table)
    BY <1>1 DEF TInv, Inserting, Search, InTree
  <1>3. side \in Sides /\ Goes(term[t], here, side)
    BY <1>1, <1>2, OneSide
  <1> HIDE DEF here, side, new
  <1>4. new # NULL /\ new # Dummy
    BY <1>1, TermTreeAssumption
  <1>5. /\ link' \in Link
        /\ link'[here][side] = IF link[here][side] = NULL THEN new ELSE link[here][side]
        /\ \A node \in Node, a \in Sides :
              ~(node = here /\ a = side) => link'[node][a] = link[node][a]
    BY <1>1, <1>2, <1>3 DEF Link
  <1>6. CASE link[here][side] # NULL
    <2>1. link' = link
      BY <1>1, <1>2, <1>3, <1>6 DEF Link
    <2> QED
      BY <1>1, <1>2, <1>6, <2>1 DEF Grows, InTree, here, side
  <1>7. CASE link[here][side] = NULL
    <2>1. \A node \in InTree : StringOf(node) # term[t]
      BY <1>1, <1>2, <1>3, <1>7, SearchFails DEF InTree, Shape
    <2>2. new \notin InTree /\ new # here
      BY <1>1, <1>2, <2>1
    <2>3. Put(link, link', here, side, new)
      BY <1>1, <1>2, <1>3, <1>5, <1>7, <2>2 DEF Put, Shape, Blank, InTree
    <2>4. Shape(link', hash_table)
      BY <1>1, <1>2, <1>3, <2>2, <2>3, PutShape DEF Search, InTree
    <2>5. \A string \in Terms, there \in Node : Search(link, hash_table, string, there) =>
              Search(link', hash_table, string, there)
      BY <1>2, <2>2, <2>3, PutSearch DEF InTree
    <2>6. InTree \subseteq Reach(link', hash_table)
      BY <2>3, PutReach DEF InTree
    <2>7. link'[here][side] # NULL
      BY <1>4, <1>5
    <2> QED
      BY <1>1, <1>5, <1>7, <2>4, <2>5, <2>6, <2>7 DEF Grows, here, side
  <1> QED
    BY <1>6, <1>7

LEMMA SwapKeeps ==
  ASSUME TInv, NEW t \in Inserters, Swap(t)
  PROVE  TInv'
  <1> USE TreeTypes
  <1>1. /\ pc[t] = "swap" /\ pc' = [pc EXCEPT ![t] = "load"]
        /\ UNCHANGED <<build, hash_table, term, at, depth, posted, hint, vine>>
    BY DEF Swap, Goto
  <1>2. Grows /\ link'[at[t]][SideOf(term[t], at[t])] # NULL
    BY SwapGrows
  <1>3. TypeOK'
    BY <1>1, <1>2 DEF TInv, TypeOK, Statements, Grows, Link
  <1>4. Inserting(t)'
    <2>1. /\ Search(link, hash_table, term[t], at[t]) /\ StringOf(at[t]) # term[t]
          /\ at[t] \in Node /\ term[t] \in Terms
      BY <1>1 DEF TInv, Inserting, Search, InTree
    <2>2. Search(link', hash_table', term[t], at[t])
      BY <1>2, <2>1 DEF Grows
    <2>3. pc'[t] = "load"
      BY <1>1
    <2> QED
      BY <1>1, <1>2, <2>1, <2>2, <2>3 DEF Inserting, Child, SideOf
  <1>5. \A text \in Terms : posted'[text] \subseteq Reach(link', hash_table')
    BY <1>1, <1>2 DEF TInv, Grows
  <1>6. t \notin Readers
    BY TermTreeAssumption
  <1> QED
    BY <1>1, <1>2, <1>3, <1>4, <1>5, <1>6, OthersKeep

LEMMA LoadKeeps ==
  ASSUME TInv, NEW t \in Inserters, Load(t)
  PROVE  TInv'
  <1> USE TreeTypes
  <1>1. /\ pc[t] = "load" /\ pc' = [pc EXCEPT ![t] = "found"]
        /\ at' = [at EXCEPT ![t] = Child(t)]
        /\ UNCHANGED <<tree, term, depth, posted, hint, vine>>
    BY DEF Load, Goto
  <1>2. Child(t) \in InTree /\ Child(t) \in Node
    <2>1. Child(t) # NULL /\ at[t] \in InTree
      BY <1>1 DEF TInv, Inserting, Search, InTree
    <2>2. IsClosed(link, InTree)
      BY ReachClosed DEF InTree
    <2> QED
      BY <2>1, <2>2 DEF IsClosed, Child
  <1>3. TypeOK'
    BY <1>1, <1>2 DEF TInv, TypeOK, tree, Statements
  <1>4. Inserting(t)'
    <2>1. pc'[t] = "found" /\ at'[t] = Child(t)
      BY <1>1
    <2> QED
      BY <1>1, <1>2, <2>1 DEF Inserting, InTree, tree
  <1>5. \A text \in Terms : posted'[text] \subseteq Reach(link', hash_table')
    BY <1>1 DEF TInv, InTree, tree
  <1>6. t \notin Readers
    BY TermTreeAssumption
  <1> QED
    BY <1>1, <1>3, <1>4, <1>5, <1>6, KeepsGrows, OthersKeep

LEMMA AddPostingKeeps ==
  ASSUME TInv, NEW t \in Inserters, AddPosting(t)
  PROVE  TInv'
  <1> USE TreeTypes
  <1>1. /\ pc[t] \in {"found", "balanced"} /\ pc' = [pc EXCEPT ![t] = "idle"]
        /\ posted' = [posted EXCEPT ![term[t]] = @ \cup {at[t]}]
        /\ posted \in [Terms -> SUBSET Node]
        /\ UNCHANGED <<tree, term, at, depth, hint, vine>>
    BY DEF AddPosting, TInv, TypeOK
  <1>2. at[t] \in InTree
    BY <1>1 DEF TInv, Inserting
  <1>3. TypeOK'
    BY <1>1, <1>2 DEF TInv, TypeOK, tree, Statements
  <1>4. Inserting(t)'
    BY <1>1 DEF Inserting
  <1>5. \A text \in Terms : posted'[text] \subseteq Reach(link', hash_table')
    BY <1>1, <1>2 DEF TInv, InTree, tree
  <1>6. t \notin Readers
    BY TermTreeAssumption
  <1> QED
    BY <1>1, <1>3, <1>4, <1>5, <1>6, KeepsGrows, OthersKeep

LEMMA UseHintKeeps ==
  ASSUME TInv, NEW t \in Inserters, NEW r \in Readers, UseHint(t, r)
  PROVE  TInv'
  <1> USE TreeTypes
  <1>1. /\ hint[r] # NULL /\ hint' = [hint EXCEPT ![r] = NULL]
        /\ posted' = [posted EXCEPT ![term[r]] = @ \cup {hint[r]}]
        /\ posted \in [Terms -> SUBSET Node] /\ hint \in [Readers -> Node \cup {NULL}]
        /\ UNCHANGED <<tree, pc, term, at, depth, vine>>
    BY DEF UseHint, TInv, TypeOK
  <1>2. hint[r] \in InTree
    BY <1>1 DEF TInv, Reading
  <1>3. TypeOK'
    BY <1>1, <1>2 DEF TInv, TypeOK, tree
  <1>4. Inserting(t)'
    BY <1>1 DEF TInv, Inserting, InTree, tree, Child, SideOf
  <1>5. \A text \in Terms : posted'[text] \subseteq Reach(link', hash_table')
    BY <1>1, <1>2 DEF TInv, InTree, tree
  <1>6. t \notin Readers
    BY TermTreeAssumption
  <1> QED
    BY <1>1, <1>3, <1>4, <1>5, <1>6, KeepsGrows, OthersKeep

\* Rebalancing never begins.
LEMMA NoRebalance ==
  ASSUME NeverRebalances, TInv, NEW t \in Inserters
  PROVE  ~Rebalance(t)
  <1>1. build.rebalance <= 0 /\ build.rebalance \in Int
    BY TermTreeAssumption DEF NeverRebalances, TInv
  <1>2. ~Deep(t)
    BY <1>1 DEF Deep
  <1>3. pc[t] \notin {"vine", "vine 2", "vine 3", "tree", "tree 2", "tree 3"}
    BY DEF TInv, Inserting
  <1> QED
    BY <1>2, <1>3 DEF Rebalance, VineBegin, VineNext, VineRotate1, VineRotate2, VineRotate3,
         TreeBegin, TreeRotate1, TreeRotate2, TreeRotate3, TreePass, TreeEnd, Goto

LEMMA InitEstablishes == Init => TInv
  <1> SUFFICES ASSUME Init PROVE TInv
    OBVIOUS
  <1>1. TypeOK /\ build \in Builds /\ link \in Link
    BY DEF Init, TypeOK, NoVine, Statements, Sides, Link
  <1>2. InTree = {} /\ Reach(link, hash_table) = {}
    BY ReachNull DEF Init, InTree
  <1>3. Shape(link, hash_table)
    BY <1>2 DEF Init, Shape, Ordered, Nested, Blank
  <1>4. \A t \in Threads : pc[t] = "idle" /\ at[t] = NULL
    BY DEF Init
  <1>5. \A t \in Inserters : Inserting(t)
    BY <1>4 DEF Inserting, Threads
  <1>6. \A r \in Readers : Reading(r)
    BY <1>4 DEF Init, Reading, Threads
  <1>7. \A string \in Terms : posted[string] \subseteq InTree
    BY DEF Init
  <1> QED
    BY <1>1, <1>3, <1>5, <1>6, <1>7 DEF TInv

LEMMA NextKeeps == NeverRebalances /\ TInv /\ [Next]_vars => TInv'
  <1> SUFFICES ASSUME NeverRebalances, TInv, [Next]_vars PROVE TInv'
    OBVIOUS
  <1>1. ASSUME NEW r \in Readers, Find(r) PROVE TInv'
    BY <1>1, FindCompareKeeps, FindFollowKeeps DEF Find
  <1>2. ASSUME NEW t \in Inserters, AddTerm(t) PROVE TInv'
    BY <1>2, SwapRootKeeps, LoadRootKeeps, AddFoundKeeps, AddDescendKeeps, SwapKeeps, LoadKeeps,
       AddPostingKeeps DEF AddTerm
  <1>3. CASE UNCHANGED vars
    BY <1>3 DEF vars, tree, TInv, TypeOK, Inserting, Reading, InTree, Child, SideOf
  <1> QED
    BY <1>1, <1>2, <1>3, FindBeginKeeps, AddBeginKeeps, UseHintKeeps, NoRebalance DEF Next

LEMMA Invariance == NeverRebalances /\ Spec => [](NeverRebalances /\ TInv)
  <1>1. NeverRebalances /\ Init => NeverRebalances /\ TInv
    BY InitEstablishes
  <1>2. NeverRebalances /\ TInv /\ [Next]_vars => NeverRebalances' /\ TInv'
    BY NextKeeps DEF NeverRebalances
  <1> QED
    BY <1>1, <1>2, PTL DEF Spec

-----------------------------------------------------------------------------
\* What follows

LEMMA BelowIsReach ==
  ASSUME NEW root
  PROVE  Below(root) = Reach(link, root)
  BY DEF Below, Reach, Closed, IsClosed

\* The types, without rebalancing.
THEOREM TypeCorrect == NeverRebalances /\ Spec => []TypeOK
  <1>1. NeverRebalances /\ TInv => TypeOK
    BY DEF TInv
  <1> QED
    BY <1>1, Invariance, PTL

\* The tree of add_term() is a search tree at every moment, however many threads insert into
\* it at once: the compare-and-swap puts a node only where a search for its string ends.
THEOREM AlwaysSearchTree == NeverRebalances /\ Spec => []SearchTree
  <1>1. NeverRebalances /\ TInv => SearchTree
    <2> SUFFICES ASSUME TInv, NEW node \in Tree
                 PROVE  /\ \A below \in Below(link[node].left) : StringOf(below) > StringOf(node)
                        /\ \A below \in Below(link[node].right) : StringOf(below) < StringOf(node)
      BY DEF SearchTree
    <2>1. node \in Reach(link, hash_table)
      BY BelowIsReach DEF Tree
    <2>2. /\ Below(link[node].left) = Under(link, node, "left")
          /\ Below(link[node].right) = Under(link, node, "right")
      BY BelowIsReach DEF Under
    <2>3. \A side \in Sides : \A below \in Under(link, node, side) :
              Goes(StringOf(below), node, side)
      BY <2>1 DEF TInv, Shape, Ordered
    <2> QED
      BY <2>2, <2>3 DEF Goes, Sides
  <1> QED
    BY <1>1, Invariance, PTL

\* A reader, which takes no lock, never follows a NULL pointer.
THEOREM AlwaysSafe == NeverRebalances /\ Spec => []ReadersSafe
  <1>1. NeverRebalances /\ TInv => ReadersSafe
    BY DEF TInv, Reading, ReadersSafe
  <1> QED
    BY <1>1, Invariance, PTL

-----------------------------------------------------------------------------
\* With one inserter a posting goes to the node of its own term

OneInserter == \A t, u \in Inserters : t = u

\* What the only inserter has found is its own, and so is what a reader has found.
Own ==
    /\ \A string \in Terms : \A node \in posted[string] : StringOf(node) = string
    /\ \A r \in Readers : pc[r] = "idle" /\ hint[r] # NULL => StringOf(hint[r]) = term[r]
    /\ \A t \in Inserters :
        /\ pc[t] = "swap root" => hash_table = NULL
        /\ pc[t] = "load root" => StringOf(hash_table) = term[t]
        /\ pc[t] = "swap" => Child(t) = NULL
        /\ pc[t] = "load" => StringOf(Child(t)) = term[t]
        /\ pc[t] = "found" => StringOf(at[t]) = term[t]

LEMMA NextOwn == OneInserter /\ NeverRebalances /\ TInv /\ Own /\ [Next]_vars => Own'
  <1> SUFFICES ASSUME OneInserter, NeverRebalances, TInv, Own, [Next]_vars PROVE Own'
    OBVIOUS
  <1> USE TreeTypes
  <1>1. /\ posted \in [Terms -> SUBSET Node] /\ hint \in [Readers -> Node \cup {NULL}]
        /\ \A r \in Readers : r \notin Inserters
    BY TermTreeAssumption DEF TInv, TypeOK
  <1>2. ASSUME NEW r \in Readers, NEW string \in Terms, FindBegin(r, string) PROVE Own'
    BY <1>1, <1>2 DEF Own, FindBegin, Goto, tree, Child, SideOf
  <1>3. ASSUME NEW r \in Readers, FindCompare(r) PROVE Own'
    <2>1. /\ UNCHANGED <<tree, term, at, posted>> /\ pc[r] = "find"
          /\ \/ /\ pc' = [pc EXCEPT ![r] = "idle"]
                /\ \/ hint' = [hint EXCEPT ![r] = at[r]] /\ (at[r] = NULL \/ StringOf(at[r]) = term[r])
                   \/ hint' = [hint EXCEPT ![r] = NULL]
             \/ pc' = [pc EXCEPT ![r] = "follow"] /\ UNCHANGED hint
      BY <1>3 DEF FindCompare, FindAnswer, FindMore, Goto, Elsewhere
    <2>2. \A u \in Threads \ {r} : pc'[u] = pc[u]
      BY <2>1
    <2>3. \A s \in Readers : pc'[s] = "idle" /\ hint'[s] # NULL => StringOf(hint'[s]) = term'[s]
      BY <1>1, <2>1 DEF Own
    <2>4. \A t \in Inserters : t # r /\ Child(t)' = Child(t) /\ at'[t] = at[t] /\ term'[t] = term[t]
      BY <1>1, <2>1 DEF Child, SideOf, tree
    <2> QED
      BY <2>1, <2>2, <2>3, <2>4 DEF Own, tree
  <1>4. ASSUME NEW r \in Readers, FindFollow(r) PROVE Own'
    <2>1. /\ UNCHANGED <<tree, term, posted, hint>> /\ at' = [at EXCEPT ![r] = Child(r)]
          /\ \E there \in {"crash", "find"} : pc' = [pc EXCEPT ![r] = there]
      BY <1>4 DEF FindFollow, Goto
    <2>2. \A t \in Inserters : /\ t # r /\ Child(t)' = Child(t)
                               /\ at'[t] = at[t] /\ term'[t] = term[t] /\ pc'[t] = pc[t]
      BY <1>1, <2>1 DEF Child, SideOf, tree
    <2>3. \A s \in Readers : pc'[s] = "idle" => pc[s] = "idle"
      BY <2>1
    <2> QED
      BY <2>1, <2>2, <2>3, SMTT(30), ZenonT(30) DEF Own, tree
  <1>5. ASSUME NEW t \in Inserters, AddTerm(t) \/ \E string \in Terms : AddBegin(t, string)
        PROVE  Own'
    <2>1. \A u \in Inserters : u = t
      BY DEF OneInserter
    <2>2. \A r \in Readers : r # t
      BY <1>1
    <2>3. ASSUME NEW string \in Terms, AddBegin(t, string) PROVE Own'
      BY <2>1, <2>2, <2>3 DEF Own, AddBegin, Goto, tree
    <2>4. CASE SwapRoot(t)
      <3>1. hash_table = NULL /\ hash_table' = <<t, term[t]>> /\ pc' = [pc EXCEPT ![t] = "load root"]
            /\ UNCHANGED <<term, posted, hint>>
        BY <2>4 DEF SwapRoot, Goto, Own
      <3> QED
        BY <2>1, <2>2, <3>1 DEF Own, StringOf
    <2>5. CASE LoadRoot(t)
      BY <2>1, <2>2, <2>5 DEF LoadRoot, Goto, Own
    <2>6. CASE AddFound(t)
      BY <2>1, <2>2, <2>6 DEF AddFound, Goto, Own
    <2>7. CASE AddDescend(t)
      <3>1. /\ \/ /\ Child(t) = NULL /\ pc' = [pc EXCEPT ![t] = "swap"]
                  /\ at' = [at EXCEPT ![t] = at[t]]
               \/ pc' = [pc EXCEPT ![t] = "compare"]
            /\ UNCHANGED <<tree, term, posted, hint>>
        BY <2>7 DEF AddDescend, Goto
      <3>2. pc'[t] = "swap" => Child(t)' = NULL
        BY <3>1 DEF Child, SideOf, tree
      <3>3. pc'[t] \in {"swap", "compare"} /\ \A r \in Readers : pc'[r] = pc[r]
        BY <2>2, <3>1
      <3> QED
        BY <2>1, <3>1, <3>2, <3>3 DEF Own
    <2>8. CASE Swap(t)
      <3>1. /\ pc[t] = "swap" /\ pc' = [pc EXCEPT ![t] = "load"] /\ Child(t) = NULL
            /\ UNCHANGED <<hash_table, term, at, posted, hint>>
            /\ link' = [link EXCEPT ![at[t]][SideOf(term[t], at[t])] =
                            IF @ = NULL THEN <<t, term[t]>> ELSE @]
        BY <2>8 DEF Swap, Goto, Own
      <3>2. at[t] \in Node
        BY <3>1 DEF TInv, Inserting, Search, InTree
      <3>3. link'[at[t]][SideOf(term[t], at[t])] = <<t, term[t]>>
        BY <3>1, <3>2 DEF Child, Link
      <3>4. Child(t)' = <<t, term[t]>>
        BY <3>1, <3>3 DEF Child, SideOf
      <3>5. StringOf(Child(t))' = term[t]
        BY <3>4 DEF StringOf
      <3> QED
        BY <2>1, <2>2, <3>1, <3>5 DEF Own
    <2>9. CASE Load(t)
      <3>1. /\ pc[t] = "load" /\ pc' = [pc EXCEPT ![t] = "found"]
            /\ at' = [at EXCEPT ![t] = Child(t)] /\ StringOf(Child(t)) = term[t]
            /\ UNCHANGED <<term, posted, hint>>
        BY <2>9 DEF Load, Goto, Own
      <3>2. at'[t] = Child(t)
        BY <3>1
      <3>3. StringOf(at'[t]) = term'[t]
        BY <3>1, <3>2
      <3>4. pc'[t] = "found" /\ \A r \in Readers : pc'[r] = pc[r]
        BY <2>2, <3>1
      <3> QED
        BY <2>1, <3>1, <3>3, <3>4 DEF Own
    <2>10. CASE AddPosting(t)
      <3>1. /\ pc[t] = "found" /\ pc' = [pc EXCEPT ![t] = "idle"]
            /\ posted' = [posted EXCEPT ![term[t]] = @ \cup {at[t]}]
            /\ StringOf(at[t]) = term[t] /\ term[t] \in Terms
            /\ UNCHANGED <<term, hint>>
        BY <2>10 DEF AddPosting, TInv, Inserting, Own
      <3>2. \A string \in Terms : \A node \in posted'[string] : StringOf(node) = string
        BY <1>1, <3>1 DEF Own
      <3> QED
        BY <2>1, <2>2, <3>1, <3>2 DEF Own
    <2> QED
      BY <1>5, <2>3, <2>4, <2>5, <2>6, <2>7, <2>8, <2>9, <2>10 DEF AddTerm
  <1>6. ASSUME NEW t \in Inserters, NEW r \in Readers, UseHint(t, r) PROVE Own'
    <2>1. /\ pc[r] = "idle" /\ hint[r] # NULL /\ hint' = [hint EXCEPT ![r] = NULL]
          /\ posted' = [posted EXCEPT ![term[r]] = @ \cup {hint[r]}]
          /\ UNCHANGED <<tree, pc, term, at>> /\ StringOf(hint[r]) = term[r]
      BY <1>6 DEF UseHint, Own
    <2>2. \A string \in Terms : \A node \in posted'[string] : StringOf(node) = string
      BY <1>1, <2>1 DEF Own
    <2>3. \A u \in Inserters : Child(u)' = Child(u)
      BY <2>1 DEF Child, SideOf, tree
    <2> QED
      BY <1>1, <2>1, <2>2, <2>3 DEF Own, tree
  <1>7. CASE UNCHANGED vars
    BY <1>7 DEF vars, tree, Own, Child, SideOf
  <1> QED
    BY <1>2, <1>3, <1>4, <1>5, <1>6, <1>7, NoRebalance DEF Next, Find

\* Every posting is on the node of its own term and in the tree that is written out, though
\* the main loop takes nodes that the readers found while it was inserting.
THEOREM AlwaysInTree == OneInserter /\ NeverRebalances /\ Spec => []PostingsInTree
  <1>1. Init => Own
    BY DEF Init, Own, Threads
  <1>2. OneInserter /\ NeverRebalances /\ TInv /\ Own /\ [Next]_vars => OneInserter' /\ Own'
    BY NextOwn DEF OneInserter
  <1>3. TInv /\ Own => PostingsInTree
    BY BelowIsReach DEF TInv, Own, PostingsInTree, Tree, InTree
  <1> QED
    BY <1>1, <1>2, <1>3, Invariance, PTL DEF Spec
=============================================================================
