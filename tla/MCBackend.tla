----------------------------- MODULE MCBackend -----------------------------
(* Small instances of BdtunBackend for TLC. *)
EXTENDS BdtunBackend

CONSTANTS b1, b2, c1, c2, f1, f2

MCBios == {b1, b2}
MCDir == [b \in Bios |-> IF b = b1 THEN "READ" ELSE "WRITE"]
AllWrites == [b \in Bios |-> "WRITE"]
MCClients == {c1, c2}

OneFile == [c \in Clients |-> f1]
TwoFiles == [c \in Clients |-> IF c = c1 THEN f1 ELSE f2]

\* The two threads of one process and the addresses are interchangeable.
Symmetry == Permutations(Entries) \cup Permutations(Clients)
=============================================================================
