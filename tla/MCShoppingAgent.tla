---------------------------- MODULE MCShoppingAgent ----------------------------
(* ShoppingAgent for TLC: session identifiers and addresses are opaque and
   interchangeable, so states that differ by renaming them count once. *)
EXTENDS ShoppingAgent, TLC

Symmetry == Permutations(Sessions) \cup Permutations(Addresses)
===============================================================================
