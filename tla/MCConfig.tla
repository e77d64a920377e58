------------------------------ MODULE MCConfig ------------------------------
(* Model-checking instances of Config.                                     *)
EXTENDS Config
=============================================================================
