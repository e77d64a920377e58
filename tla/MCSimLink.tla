----------------------------- MODULE MCSimLink -----------------------------
(* Model-checking instances of SimLink.                                    *)
EXTENDS SimLink, TLC

\* Orders of one control, sessions and operators are interchangeable.
Symmetry == Permutations(Sessions) \cup Permutations(RudderOrders)
              \cup Permutations(Operators)
=============================================================================
