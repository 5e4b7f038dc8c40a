---------------------------- MODULE MCIngestion ----------------------------
(* Two versions of a document, two workers and two requests at a time. *)
EXTENDS Ingestion, TLC

MCSymmetry == Permutations(Workers) \cup Permutations(Editors)
=============================================================================
