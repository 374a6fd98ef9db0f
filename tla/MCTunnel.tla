------------------------------ MODULE MCTunnel ------------------------------
(* A small instance of BdtunTunnel for TLC. *)
EXTENDS BdtunTunnel

CONSTANTS b1, b2, c1, c2, f1, f2

MCBios == {b1, b2}
MCDir == [b \in Bios |-> IF b = b1 THEN "READ" ELSE "WRITE"]
MCClients == {c1, c2}
MCFiles == {f1, f2}
TwoFiles == [c \in Clients |-> IF c = c1 THEN f1 ELSE f2]

\* Addresses are interchangeable, and so are the two threads with their files.
Exchange == [v \in MCClients \cup MCFiles |->
               CASE v = c1 -> c2 [] v = c2 -> c1 [] v = f1 -> f2 [] v = f2 -> f1]
Symmetry == Permutations(Entries) \cup {Exchange}
=============================================================================
