------------------------------ MODULE MCDevice ------------------------------
(* A small instance of BdtunDevice for TLC. *)
EXTENDS BdtunDevice

\* All the constants but NULL are sets of interchangeable values.
Symmetry == Permutations(Admins) \cup Permutations(Users)
              \cup Permutations(Devices) \cup Permutations(Names)
=============================================================================
