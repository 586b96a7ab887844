----------------------------- MODULE MCRegistry -----------------------------
(* Three registrations over two names: a race, and one beside it.          *)
EXTENDS Registry, TLC

Symmetry == Permutations(Agents) \cup Permutations(Names)
=============================================================================
