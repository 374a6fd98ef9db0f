------------------------------- MODULE MCPair -------------------------------
(* A small instance of BdtunPair for TLC. *)
EXTENDS BdtunPair

\* All the constants but NULL are sets of interchangeable values.
Symmetry == Permutations(Admins) \cup Permutations(Users)
              \cup Permutations(Devices) \cup Permutations(Names)
=============================================================================
