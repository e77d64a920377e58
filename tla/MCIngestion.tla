---------------------------- MODULE MCIngestion ----------------------------
(* Model-checking instances of Ingestion.                                  *)
EXTENDS Ingestion, TLC

\* Uploads, requests and chunks are interchangeable.
Symmetry == Permutations(Uploads) \cup Permutations(Resumes) \cup Permutations(Chunks)
=============================================================================
