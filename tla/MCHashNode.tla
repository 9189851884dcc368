----------------------------- MODULE MCHashNode -----------------------------
(***************************************************************************)
(* Instances of HashNode for TLC.                                          *)
(***************************************************************************)
EXTENDS HashNode

Plenty == {9}
AnyMemory == {0, 1, 2, 3} \cup Plenty

\* Codes of one, three and five bytes: the move into the lists, splits at every
\* offset of the first pieces, and the cap of the term frequency.
Split == [gaps |-> {1, 20000, 268435456}, extra |-> {1, 200}, adds |-> 4, memory |-> Plenty]
\* The third pieces of both lists, and the retries over them.
Long == [gaps |-> {20000}, extra |-> {200}, adds |-> 11, memory |-> Plenty]
\* Any allocation may fail.  Three of these codes fit in the first piece: with larger
\* differences the allocation for the third can fail with the union overwritten.
Failing == [gaps |-> {1, 300}, extra |-> {1}, adds |-> 6, memory |-> AnyMemory]

Uses == {Split, Long, Failing}

\* The theorems of HashNode_proofs hold for all three.
ASSUME MovesSucceed
=============================================================================
