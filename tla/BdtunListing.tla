---------------------------- MODULE BdtunListing ----------------------------
(***************************************************************************)
(* Listing the tunnels, page by page: the list command of the kernel       *)
(* module, bdtun_list() of the library and the loop of the command line    *)
(* tool on top of them.  The tool keeps the control device open, so the    *)
(* device list does not change under it.                                   *)
(***************************************************************************)
EXTENDS Naturals, Sequences, FiniteSetsExt, SequencesExt

CONSTANTS
  Sizes,        \* the bytes a device name may take in an answer
  MostDevices,  \* bound: the most devices set up
  ResponseSize, \* BDTUN_RESPONSE_SIZE
  DevNames,     \* BDTUN_DEVNAMES
  MaxDevices    \* how many names the tool asks for

\* Each name fits an answer, and an answer has room for a name.
ASSUME ListingAssumption ==
  /\ Sizes \subseteq 1..ResponseSize
  /\ {MostDevices, ResponseSize, DevNames, MaxDevices} \subseteq Nat

VARIABLES
  sizes,    \* the bytes the name of each listed device takes
  off,      \* how many devices the tool has counted
  ret,      \* the number of names in the page it holds
  pc,       \* where the tool is in its loop
  printed,  \* the devices whose names it has printed
  fault     \* names stored behind the end of name_pbuf

vars == <<sizes, off, ret, pc, printed, fault>>

Init ==
  /\ sizes \in UNION {[1..n -> Sizes] : n \in 0..MostDevices}
  /\ off = 0 /\ ret = 0 /\ pc = "ask"
  /\ printed = {}
  /\ fault = FALSE

\* The bytes that k names behind the first "offset" devices take.
Bytes(offset, k) == FoldLeft(+, 0, SubSeq(sizes, offset + 1, offset + k))

\* bdtun_list_k(): as many names as fit the answer, but one more than asked.
PageFrom(offset) ==
  LET limit == Min({Len(sizes) - offset, MaxDevices + 1, DevNames + 1}) IN
  Max({k \in 0..limit : Bytes(offset, k) <= ResponseSize})

\* bdtun_list(): a pointer to each name of the answer.
AskPage ==
  /\ pc = "ask"
  /\ ret' = PageFrom(off)
  /\ fault' = (ret' > DevNames)
  /\ pc' = "print"
  /\ UNCHANGED <<sizes, off, printed>>

\* The even indices of the page, as positions of the device list.
Shown == {off + i + 1 : i \in {j \in 0..(ret - 1) : j % 2 = 0}}

\* Mutant: only whole pairs of names are counted.
PrintPairs ==
  /\ pc = "print" /\ ret # 0
  /\ printed' = printed \cup Shown
  /\ off' = off + ret \div 2
  /\ pc' = "ask"
  /\ UNCHANGED <<sizes, ret, fault>>

\* Mutant: "off" is stepped twice too.
PrintTwoSteps ==
  /\ pc = "print" /\ ret # 0
  /\ printed' = printed \cup Shown
  /\ off' = Min({off + 2 * ((ret + 1) \div 2), Len(sizes) + 1})
  /\ pc' = IF off' > Len(sizes) THEN "done" ELSE "ask"
  /\ UNCHANGED <<sizes, ret, fault>>

\* The tool prints a page.  Its loop steps "i" twice and "off" once.
PrintPage ==
  /\ pc = "print" /\ ret # 0
  /\ printed' = printed \cup Shown
  /\ off' = off + (ret + 1) \div 2
  /\ pc' = "ask"
  /\ UNCHANGED <<sizes, ret, fault>>

\* An empty page ends the loop.
Finish ==
  /\ pc = "print" /\ ret = 0
  /\ pc' = "done"
  /\ UNCHANGED <<sizes, off, ret, printed, fault>>

Next == ~fault /\ (AskPage \/ PrintPage \/ Finish)

Spec == Init /\ [][Next]_vars /\ WF_vars(Next)
-----------------------------------------------------------------------------
\* The loop ends at the end of the device list and nowhere else, with the last
\* device printed: no page but the one behind the last device is empty, although
\* the tool's offset and the pages it gets overlap.
DoneAtEnd ==
  pc = "done" => off = Len(sizes) /\ (sizes # <<>> => Len(sizes) \in printed)

\* The tool comes to an end, however short the pages are (util/bdtun.c:229).
ListingEnds == <>(pc = "done" \/ fault)
=============================================================================
