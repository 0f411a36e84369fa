--------------------------- MODULE MCSessionStore ---------------------------
(* The store contract on its own, called in every order. *)
EXTENDS SessionStore, TLC

Symmetry == Permutations(SID) \union Permutations(KEY)
=============================================================================
