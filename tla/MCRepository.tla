---------------------------- MODULE MCRepository ----------------------------
(* A few documents for TLC: chunks of a pointer and three cells. *)
EXTENDS Repository

MCFileNames == {<<1>>, <<2, 3>>}
MCTexts == {<<5>>, <<6, 7>>}

\* What the proof that the documents are read back assumes of the codecs.
ASSUME ListsAreWritten
=============================================================================
