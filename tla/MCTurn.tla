------------------------------- MODULE MCTurn -------------------------------
(* Model-checking instances of Turn.                                       *)
EXTENDS Turn
=============================================================================
