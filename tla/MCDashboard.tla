---------------------------- MODULE MCDashboard -----------------------------
(* Model-checking instances of Dashboard.                                  *)
EXTENDS Dashboard
=============================================================================
