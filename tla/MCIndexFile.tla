---------------------------- MODULE MCIndexFile ----------------------------
(* Small indexes for TLC: letters 1 and 2, and 3 for the '~'; prefixes of two letters. *)
EXTENDS IndexFile

Node(docid, tf) ==
    [docid |-> docid, tf |-> tf, collection_frequency |-> FoldLeft(+, 0, tf),
     document_frequency |-> Len(docid)]

\* One document to four, in every order of the impacts, some of them equal.
Shapes == <<
    Node(<<2>>, <<1>>),
    Node(<<1, 2>>, <<1, 2>>),
    Node(<<2, 1>>, <<2, 2>>),
    Node(<<1, 1, 2>>, <<1, 3, 1>>),
    Node(<<1, 2>>, <<3, 1>>),
    Node(<<1, 1, 1, 1>>, <<2, 1, 2, 3>>) >>

\* Shorter than the prefix, as long, longer; alone in a node and not.
Words == << <<1>>, <<1, 1>>, <<1, 1, 1>>, <<1, 1, 2>>, <<1, 2, 2>>, <<2>>, <<2, 1, 1>> >>

Lengths == Node(<<4, 1, 6, 3>>, <<1, 1, 1, 1>>)

MCLength == <<3, 1, 1>>
MCTrimPoint == <<3, 2>>

MCCollections ==
    {[t \in {Words[w] : w \in which} \cup {MCLength} |->
        IF t = MCLength THEN Lengths
        ELSE LET w == CHOOSE i \in DOMAIN Words : Words[i] = t
             IN  Shapes[((w + turn) % Len(Shapes)) + 1]]
     : which \in {w \in SUBSET DOMAIN Words : Cardinality(w) \in {0, 2, 7}}, turn \in {0, 3}}

MCHash == [t \in ToSet(Words) \cup {MCLength, MCTrimPoint} |-> FoldLeft(+, 0, t) % 2]
MCModes == {{}, {"cf singletons", "stop list"}, {"df singletons", "df frequents"}}
MCStopList == {<<1, 1, 1>>}
MCAsked == ToSet(Words) \cup {<<>>, <<1, 1, 1, 1>>, <<1, 2>>, <<1, 2, 1>>, <<2, 2>>, <<3, 1, 1>>, <<3, 3>>}
=============================================================================
