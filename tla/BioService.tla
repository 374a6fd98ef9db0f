----------------------------- MODULE BioService -----------------------------
(***************************************************************************)
(* What a tunnel and the user space driver behind it promise the block     *)
(* layer together, with every queue, lock, thread and header left out: a   *)
(* submitted bio is answered once, and answered "ok" only when the content *)
(* of that very bio has moved between its pages and the driver's store.    *)
(***************************************************************************)
CONSTANTS Bios, Dir, NoBio

VARIABLES
  bio,     \* what the block layer sees of a bio
  pages,   \* whose content is in the pages of a bio
  disk     \* whose content the driver's store holds for a bio

svars == <<bio, pages, disk>>

Moved(b) == pages[b] = b /\ disk[b] = b

Init ==
  /\ bio = [b \in Bios |-> "new"]
  /\ pages = [b \in Bios |-> IF Dir[b] = "WRITE" THEN b ELSE NoBio]
  /\ disk = [b \in Bios |-> IF Dir[b] = "READ" THEN b ELSE NoBio]

Submit(b) ==
  /\ bio[b] = "new"
  /\ bio' = [bio EXCEPT ![b] = "queued"]
  /\ UNCHANGED <<pages, disk>>

Refuse(b) ==
  /\ bio[b] = "new"
  /\ bio' = [bio EXCEPT ![b] = "eio"]
  /\ UNCHANGED <<pages, disk>>

\* While a bio is unanswered its own content may be moved, or spoilt half way
\* at the end it is moved to.
Move(b) ==
  /\ bio[b] = "queued"
  /\ \E content \in {b, NoBio} :
       \/ /\ Dir[b] = "READ" /\ UNCHANGED disk
          /\ pages' = [pages EXCEPT ![b] = content]
       \/ /\ Dir[b] = "WRITE" /\ UNCHANGED pages
          /\ disk' = [disk EXCEPT ![b] = content]
  /\ UNCHANGED bio

Answer(b) ==
  /\ bio[b] = "queued"
  /\ \E status \in {"ok", "eio"} :
       /\ status = "ok" => Moved(b)
       /\ bio' = [bio EXCEPT ![b] = status]
  /\ UNCHANGED <<pages, disk>>

Next == \E b \in Bios : Submit(b) \/ Refuse(b) \/ Move(b) \/ Answer(b)

Spec == Init /\ [][Next]_svars
=============================================================================
