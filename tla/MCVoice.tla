------------------------------ MODULE MCVoice -------------------------------
(* Model-checking instances of Voice.                                      *)
EXTENDS Voice
=============================================================================
