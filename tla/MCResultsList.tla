--------------------------- MODULE MCResultsList ---------------------------
(***************************************************************************)
(* An instance of ResultsList for TLC.                                     *)
(***************************************************************************)
EXTENDS ResultsList

\* The theorems of ResultsList_proofs hold for it: every score counts, no Boolean query
\* is satisfied by more documents than fit, and all scores together fit an accumulator.
ASSUME ScoresCount /\ MaxSurplus = 0
ASSUME \A score \in Scores : score * MaxAdds <= 32767
=============================================================================
