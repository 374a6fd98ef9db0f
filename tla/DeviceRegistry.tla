--------------------------- MODULE DeviceRegistry ---------------------------
(***************************************************************************)
(* What the device life cycle promises programs: a device is there or not, *)
(* has a name of its own while it is, and goes away only when nobody has   *)
(* it open.  The control device, the work queue, the two ends, counters,   *)
(* flags and the many steps of a creation or a removal are left out.       *)
(***************************************************************************)
CONSTANTS Devices, Names, Openers, NULL

VARIABLES
  nameOf,   \* the name of a device, NULL while it is not there
  openers   \* who has a device open

registry == <<nameOf, openers>>

Init ==
  /\ nameOf = [d \in Devices |-> NULL]
  /\ openers = [d \in Devices |-> {}]

There(d) == nameOf[d] # NULL

Create(d, n) ==
  /\ ~There(d)
  /\ \A e \in Devices : nameOf[e] # n
  /\ nameOf' = [nameOf EXCEPT ![d] = n]
  /\ UNCHANGED openers

Open(d, o) ==
  /\ There(d) /\ o \notin openers[d]
  /\ openers' = [openers EXCEPT ![d] = @ \cup {o}]
  /\ UNCHANGED nameOf

Close(d, o) ==
  /\ o \in openers[d]
  /\ openers' = [openers EXCEPT ![d] = @ \ {o}]
  /\ UNCHANGED nameOf

Remove(d) ==
  /\ There(d) /\ openers[d] = {}
  /\ nameOf' = [nameOf EXCEPT ![d] = NULL]
  /\ UNCHANGED openers

Next ==
  \E d \in Devices :
    \/ Remove(d)
    \/ \E n \in Names : Create(d, n)
    \/ \E o \in Openers : Open(d, o) \/ Close(d, o)

Spec == Init /\ [][Next]_registry
=============================================================================
