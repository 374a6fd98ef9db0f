------------------------------ MODULE MCLocks ------------------------------
(* A small instance of BdtunLocks for TLC. *)
EXTENDS BdtunLocks
=============================================================================
