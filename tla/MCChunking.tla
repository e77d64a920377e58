----------------------------- MODULE MCChunking -----------------------------
(* Model-checking instances of Chunking.                                   *)
EXTENDS Chunking
=============================================================================
