------------------------- MODULE MCDocumentPipeline -------------------------
(***************************************************************************)
(* Instances of DocumentPipeline for TLC.                                  *)
(***************************************************************************)
EXTENDS DocumentPipeline

CONSTANTS w1, v1, v2

\* The preindexing stage alone, and behind a compressing thread.
OneStage == <<{v1, v2}>>
TwoStages == <<{w1}, {v1, v2}>>
=============================================================================
