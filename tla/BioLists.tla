------------------------------ MODULE BioLists ------------------------------
(***************************************************************************)
(* What the two bio lists of a tunnel are to its users, with locks, wait   *)
(* queue and threads left out: a queue of the requests nobody works on,    *)
(* and the list of those a driver has read.  Each move is one step.        *)
(***************************************************************************)
EXTENDS Sequences, SequencesExt

CONSTANT Entries

VARIABLES incoming, pending

lists == <<incoming, pending>>

Init == incoming = <<>> /\ pending = <<>>

\* A request arrives behind all others.
Put(e) ==
  /\ e \notin Range(incoming) \cup Range(pending)
  /\ incoming' = Append(incoming, e)
  /\ UNCHANGED pending

\* The oldest request is read.
Take ==
  /\ incoming # <<>>
  /\ pending' = Append(pending, Head(incoming))
  /\ incoming' = Tail(incoming)

\* All the requests that were read go back, in the order they were read.
GiveBack ==
  /\ incoming' = incoming \o pending
  /\ pending' = <<>>

\* A request is completed, in exceptional cases while it waits to be read again.
Drop(e) ==
  \/ /\ e \in Range(pending)
     /\ pending' = RemoveFirst(pending, e)
     /\ UNCHANGED incoming
  \/ /\ e \in Range(incoming)
     /\ incoming' = RemoveFirst(incoming, e)
     /\ UNCHANGED pending

Next == Take \/ GiveBack \/ \E e \in Entries : Put(e) \/ Drop(e)

Spec == Init /\ [][Next]_lists
=============================================================================
