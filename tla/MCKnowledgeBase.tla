-------------------------- MODULE MCKnowledgeBase ---------------------------
(* Model-checking instances of KnowledgeBase.                              *)
EXTENDS KnowledgeBase
=============================================================================
