--------------------------- MODULE DocumentStore ---------------------------
(***************************************************************************)
(* What an index promises of the documents that are kept in it: the name   *)
(* and the text of a document are those it was added with, under the       *)
(* number that it got.                                                     *)
(***************************************************************************)
EXTENDS Integers, Sequences

VARIABLES
    stored,     \* the documents: a name and a text each
    reply       \* the last question and its answer

vars == <<stored, reply>>

NoReply == [question |-> <<>>, answer |-> <<>>]

Init == stored = <<>> /\ reply = NoReply

Names == [i \in DOMAIN stored |-> stored[i].name]

Add ==
    /\ Len(stored') = Len(stored) + 1
    /\ stored = SubSeq(stored', 1, Len(stored))
    /\ UNCHANGED reply

Name(id) == reply' = [question |-> <<"name", id>>, answer |-> stored[id + 1].name]

AllNames == reply' = [question |-> <<"names">>, answer |-> Names]

\* An index of a single document does not keep this promise: the list of its two offsets is
\* packed into the dictionary, and not read as it was packed.
Text(id) ==
    /\ reply'.question = <<"text", id>>
    /\ Len(stored) > 1 => reply'.answer = stored[id + 1].text

Next ==
    \/ Add
    \/ /\ \E id \in 0 .. Len(stored) - 1 : Name(id) \/ Text(id)
       /\ UNCHANGED stored
    \/ AllNames /\ UNCHANGED stored

Spec == Init /\ [][Next]_vars
=============================================================================
