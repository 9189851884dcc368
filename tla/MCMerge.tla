------------------------------ MODULE MCMerge ------------------------------
(* Small indexes for TLC: letters 1 and 2, 7 a digit, 8 a capital letter, and 9 for '~'. *)
EXTENDS Merge

Node(docid, tf) ==
    [docid |-> docid, tf |-> tf, collection_frequency |-> FoldLeft(+, 0, tf),
     document_frequency |-> Len(docid)]

MCLength == <<9, 2>>
MCTrimPoint == <<9, 3>>
MCFilenamesStart == <<9, 1, 1, 1>>
MCFilenamesFinish == <<9, 1, 1, 2>>
MCFilenamesIndexStart == <<9, 1, 2, 1>>
MCFilenamesIndexFinish == <<9, 1, 2, 2>>
MCDocumentOffsets == <<9, 1, 3>>
MCDocumentLongest == <<9, 1, 4>>
MCStemmer == <<9, 4>>

Names == << <<1>>, <<2, 2>>, <<3>>, <<4, 4>> >>
Texts == << <<5, 5>>, <<6>>, <<7, 7, 7>>, <<8>> >>

\* An index of some documents.
Index(lists, lengths, storing, stemmer, turn) ==
    [terms |-> lists @@ MCLength :> Node(lengths, [d \in DOMAIN lengths |-> 1])
               @@ (IF static_prune_point < Len(lengths)
                   THEN MCTrimPoint :> Variable(static_prune_point) ELSE <<>>),
     documents |-> [d \in DOMAIN lengths |->
                      [name |-> Append(Names[d], turn), text |-> Append(Texts[d], turn)]],
     storing |-> storing, stemmer |-> stemmer, longest |-> Len(lengths) + turn]

\* Terms with one posting to four, of equal and of different impacts.
First3 == <<1>> :> Node(<<2>>, <<2>>)
          @@ <<1, 1>> :> Node(<<1, 2>>, <<1, 3>>)
          @@ <<1, 1, 2>> :> Node(<<1, 1, 1>>, <<1, 2, 1>>)
          @@ <<2>> :> Node(<<3>>, <<1>>)
          @@ <<8, 1>> :> Node(<<1, 1>>, <<1, 1>>)
Second4 == <<1>> :> Node(<<3>>, <<2>>)
           @@ <<1, 1>> :> Node(<<2>>, <<3>>)
           @@ <<1, 1, 1>> :> Node(<<1, 3>>, <<2, 2>>)
           @@ <<1, 1, 2>> :> Node(<<1, 1, 1, 1>>, <<3, 2, 1, 2>>)
           @@ <<7, 1>> :> Node(<<2, 1, 1>>, <<1, 1, 1>>)
Third3 == <<1, 1, 2>> :> Node(<<2, 1>>, <<1, 2>>)
          @@ <<2>> :> Node(<<1>>, <<4>>)
          @@ <<7, 1>> :> Node(<<1>>, <<1>>)

One(storing) == Index(First3, <<2, 5, 3>>, storing, 0, 1)
Two(storing) == Index(Second4, <<4, 1, 6, 3>>, storing, 0, 2)
Three(storing) == Index(Third3, <<1, 1, 2>>, storing, 0, 3)

MCMerges ==
    {<<One(TRUE), Two(TRUE)>>, <<Two(TRUE), One(FALSE)>>, <<Three(TRUE)>>,
     <<One(TRUE), Three(TRUE), Two(TRUE)>>, <<Three(TRUE), One(TRUE)>>,
     <<[One(TRUE) EXCEPT !.stemmer = 5], [Two(TRUE) EXCEPT !.stemmer = 5]>>,
     <<[One(TRUE) EXCEPT !.stemmer = 5], Two(TRUE)>>}

Option(mode, intersection, documents, prune_point) ==
    [mode |-> mode, intersection |-> intersection, documents |-> documents,
     static_prune_point |-> prune_point]

MCOptions ==
    {Option(mode, intersection, documents, prune_point) :
        mode \in {{}, {"cf singletons", "tags"}, {"numbers", "df singletons", "df frequents"},
                  {"stop list"}},
        intersection \in {<<>>, <<{<<1>>, <<1, 1, 2>>, <<2, 2>>}>>},
        documents \in BOOLEAN, prune_point \in {2, LONG_MAX}}

MCStopList == {<<1>>}
MCAsked == {<<>>, <<1>>, <<1, 1>>, <<1, 1, 1>>, <<1, 1, 2>>, <<2>>, <<7, 1>>, <<9>>}
=============================================================================
