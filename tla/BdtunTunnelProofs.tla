------------------------- MODULE BdtunTunnelProofs -------------------------
(***************************************************************************)
(* Proofs about BdtunTunnel, for any number of bios, entries, threads and  *)
(* files and any mixture of their calls.                                   *)
(*                                                                         *)
(* The types alone are not inductive: that a header names a bio needs every *)
(* linked entry to be allocated, which is a part of EachBioOnce.  The two  *)
(* together are.                                                           *)
(***************************************************************************)
EXTENDS BdtunTunnel, ListFacts, FiniteSetTheorems, TLAPS

\* A thread that moves data holds a request it has read.
BufferInHand ==
  \A c \in Clients : pc[c] \in {"rd_data", "wr_data", "mmap"} => req[c] # NoReq

Types == TypeOK /\ BufferInHand

IInv == Types /\ EachBioOnce

USE DEF Linked

-----------------------------------------------------------------------------
LEMMA InitIInv == Init => IInv
<1> SUFFICES ASSUME Init PROVE IInv
  OBVIOUS
<1>1. TypeOK
  BY TunnelAssumption DEF Init, TypeOK, Rw, NoReq, Places
<1>2. BufferInHand
  BY DEF Init, BufferInHand
<1>3. EachBioOnce
  BY DEF Init, EachBioOnce, Incoming, Pending, Allocated, Unanswered, Freeing, Range, IsInjective
<1> QED BY <1>1, <1>2, <1>3 DEF IInv, Types

\* An action that touches no list, no entry, no thread that frees one and no
\* unanswered bio keeps EachBioOnce.
SameFreeing == Freeing' = Freeing /\ \A c \in Freeing : ent'[c] = ent[c]
StillAnswered == \A b \in Bios : bio[b] \in {"ok", "eio"} => bio'[b] \in {"ok", "eio"}

\* What a thread is about to free holds a bio.
LEMMA FreeingHolds ==
  ASSUME TypeOK, EachBioOnce, NEW c \in Freeing
  PROVE  ent[c] \in Entries /\ bioOf[ent[c]] \in Bios
BY DEF TypeOK, EachBioOnce, Allocated

LEMMA QuietStep ==
  ASSUME TypeOK, EachBioOnce, SameFreeing, Unanswered' = Unanswered, StillAnswered,
         UNCHANGED <<incoming_bio_list, pending_bio_list, bioOf>>
  PROVE  EachBioOnce'
<1>1. {ent[c] : c \in Freeing}' = {ent[c] : c \in Freeing}
  BY DEF SameFreeing
<1>2. (\A c \in Freeing : ent[c] \notin Linked /\ \A d \in Freeing \ {c} : ent[d] # ent[c])'
  BY DEF EachBioOnce, SameFreeing, Incoming, Pending
<1>3. (\A c \in Freeing : bio[CurrentBio(c)] \in {"ok", "eio"})'
  BY FreeingHolds DEF EachBioOnce, SameFreeing, StillAnswered, CurrentBio
<1> QED BY <1>1, <1>2, <1>3 DEF EachBioOnce, Incoming, Pending, Allocated

\* Most actions of a thread neither begin nor end the freeing of an entry.
LEMMA ThreadSameFreeing ==
  ASSUME NEW c \in Clients, pc[c] # "free", pc'[c] # "free",
         \A d \in Clients \ {c} : pc'[d] = pc[d] /\ ent'[d] = ent[d]
  PROVE  SameFreeing
BY DEF SameFreeing, Freeing

LEMMA BlockSameFreeing ==
  ASSUME UNCHANGED <<pc, ent>>
  PROVE  SameFreeing
BY DEF SameFreeing, Freeing

-----------------------------------------------------------------------------
(* The five actions that move, add or free entries. *)

\* A new bio gets an entry nobody uses, at the tail of the incoming list.
LEMMA MakeRequestKeepsOnce ==
  ASSUME IInv, NEW b \in Bios, MakeRequest(b)
  PROVE  EachBioOnce'
<1>1. PICK e \in Entries : /\ bioOf[e] = NoBio
                           /\ bioOf' = [bioOf EXCEPT ![e] = b]
                           /\ incoming_bio_list' = Append(incoming_bio_list, e)
  BY DEF MakeRequest
<1>2. /\ bio[b] = "new" /\ bio' = [bio EXCEPT ![b] = "queued"]
      /\ pending_bio_list' = pending_bio_list
  BY DEF MakeRequest
<1>3. /\ incoming_bio_list \in Seq(Entries) /\ pending_bio_list \in Seq(Entries)
      /\ bioOf \in [Entries -> Bios \cup {NoBio}]
      /\ bio \in [Bios -> {"new", "queued", "ok", "eio"}]
  BY DEF IInv, Types, TypeOK
<1>4. EachBioOnce
  BY DEF IInv
<1>5. e \notin Incoming /\ e \notin Pending
  BY <1>1, <1>4 DEF EachBioOnce, Allocated
<1>6. IsInjective(incoming_bio_list') /\ Incoming' = Incoming \cup {e}
  BY <1>1, <1>3, <1>4, <1>5, AppendFresh, RangeAppend DEF EachBioOnce, Incoming
<1>7. Pending' = Pending /\ IsInjective(pending_bio_list')
  BY <1>2, <1>4 DEF EachBioOnce, Pending
<1>8. \A f \in Entries : bioOf'[f] = IF f = e THEN b ELSE bioOf[f]
  BY <1>1, <1>3
<1>9. {f \in Entries : Allocated(f)}' = {f \in Entries : Allocated(f)} \cup {e}
  BY <1>8, TunnelAssumption DEF Allocated
<1>10. Unanswered' = Unanswered \cup {b} /\ b \notin Unanswered
  BY <1>2, <1>3 DEF Unanswered
<1>11. \A f \in Incoming \cup Pending : bioOf[f] \in Unanswered
  BY <1>4 DEF EachBioOnce
<1>12. Incoming \cup Pending \subseteq Entries
  BY <1>4 DEF EachBioOnce
<1>13. {bioOf[f] : f \in Incoming \cup Pending}' = Unanswered \cup {b}
  BY <1>4, <1>5, <1>6, <1>7, <1>8, <1>12 DEF EachBioOnce
<1>14. \A f, g \in Entries : (Allocated(f) /\ bioOf[f] = bioOf[g] => f = g)'
  <2> SUFFICES ASSUME NEW f \in Entries, NEW g \in Entries,
                      Allocated(f)', bioOf'[f] = bioOf'[g]
               PROVE  f = g
    OBVIOUS
  <2>1. \A h \in Entries : h # e => bioOf[h] # b
    <3> SUFFICES ASSUME NEW h \in Entries, bioOf[h] = b PROVE FALSE
      BY <1>8
    <3>1. Allocated(h)
      BY TunnelAssumption DEF Allocated
    <3>2. CASE h \in Incoming \cup Pending
      BY <3>2, <1>10, <1>11
    <3>3. CASE \E c \in Freeing : h = ent[c]
      BY <1>2, <1>4, <3>3 DEF EachBioOnce, CurrentBio
    <3> QED BY <1>4, <3>1, <3>2, <3>3 DEF EachBioOnce
  <2>2. CASE f = e \/ g = e
    BY <1>8, <2>1, <2>2
  <2>3. CASE f # e /\ g # e
    BY <1>4, <1>8, <2>3 DEF EachBioOnce, Allocated
  <2> QED BY <2>2, <2>3
<1>15. Incoming' \cap Pending' = {}
  BY <1>4, <1>5, <1>6, <1>7 DEF EachBioOnce
<1>16. Freeing' = Freeing /\ ent' = ent
  BY DEF MakeRequest, calls, Freeing
<1>17. {f \in Entries : Allocated(f)}' = Linked' \cup {ent[c] : c \in Freeing}
  BY <1>4, <1>6, <1>7, <1>9 DEF EachBioOnce
<1>18. \A c \in Freeing : Allocated(ent[c]) /\ ent[c] # e
  BY <1>1, <1>4 DEF EachBioOnce, Allocated
<1>19. (\A c \in Freeing : ent[c] \notin Linked /\ \A d \in Freeing \ {c} : ent[d] # ent[c])'
  BY <1>4, <1>6, <1>7, <1>16, <1>18 DEF EachBioOnce
<1>20. (\A c \in Freeing : bio[CurrentBio(c)] \in {"ok", "eio"})'
  <2> SUFFICES ASSUME NEW c \in Freeing
               PROVE  bio'[bioOf'[ent[c]]] \in {"ok", "eio"}
    BY <1>16 DEF CurrentBio
  <2>1. ent[c] \in Entries /\ bioOf[ent[c]] \in Bios
    BY <1>4, FreeingHolds DEF IInv, Types
  <2>2. bio[bioOf[ent[c]]] \in {"ok", "eio"}
    BY <1>4 DEF EachBioOnce, CurrentBio
  <2>3. bioOf'[ent[c]] = bioOf[ent[c]] /\ bioOf[ent[c]] # b
    BY <1>2, <1>8, <1>18, <2>1, <2>2
  <2> QED BY <1>2, <1>3, <2>1, <2>2, <2>3
<1> QED
  BY <1>6, <1>7, <1>10, <1>13, <1>14, <1>15, <1>16, <1>17, <1>19, <1>20 DEF EachBioOnce

\* The head of the incoming list goes to the tail of the pending list.
LEMMA DeliverHeaderKeepsOnce ==
  ASSUME IInv, NEW c \in Clients, DeliverHeader(c)
  PROVE  EachBioOnce'
<1> DEFINE e == Head(incoming_bio_list)
<1>1. /\ incoming_bio_list # << >>
      /\ incoming_bio_list' = Tail(incoming_bio_list)
      /\ pending_bio_list' = Append(pending_bio_list, e)
      /\ bioOf' = bioOf /\ bio' = bio
  BY DEF DeliverHeader, block
<1>2. incoming_bio_list \in Seq(Entries) /\ pending_bio_list \in Seq(Entries)
  BY DEF IInv, Types, TypeOK
<1>3. EachBioOnce
  BY DEF IInv
<1>4. /\ IsInjective(incoming_bio_list')
      /\ e \in Incoming /\ Incoming' = Incoming \ {e}
  BY <1>1, <1>2, <1>3, TailProperties DEF EachBioOnce, Incoming
<1>5. e \in Entries /\ e \notin Pending
  BY <1>3, <1>4 DEF EachBioOnce
<1> HIDE DEF e
<1>6. IsInjective(pending_bio_list') /\ Pending' = Pending \cup {e}
  BY <1>1, <1>2, <1>3, <1>5, AppendFresh, RangeAppend DEF EachBioOnce, Pending
<1>7. Incoming' \cup Pending' = Incoming \cup Pending /\ Incoming' \cap Pending' = {}
  BY <1>3, <1>4, <1>6 DEF EachBioOnce
<1>8. SameFreeing
  <2>1. pc[c] # "free" /\ pc'[c] # "free"
    BY DEF DeliverHeader, GoTo, IInv, Types, TypeOK
  <2>2. \A d \in Clients \ {c} : pc'[d] = pc[d] /\ ent'[d] = ent[d]
    BY DEF DeliverHeader, GoTo, IInv, Types, TypeOK
  <2> QED BY <2>1, <2>2, ThreadSameFreeing
<1> QED
  BY <1>1, <1>3, <1>4, <1>6, <1>7, <1>8
  DEF EachBioOnce, Allocated, Unanswered, SameFreeing, CurrentBio

\* The whole pending list goes to the tail of the incoming list.
LEMMA ReleaseKeepsOnce ==
  ASSUME IInv, NEW f \in Files, Release(f)
  PROVE  EachBioOnce'
<1>1. /\ incoming_bio_list' = incoming_bio_list \o pending_bio_list
      /\ pending_bio_list' = << >> /\ bioOf' = bioOf /\ bio' = bio
  BY DEF Release, block
<1>2. incoming_bio_list \in Seq(Entries) /\ pending_bio_list \in Seq(Entries)
  BY DEF IInv, Types, TypeOK
<1>3. EachBioOnce
  BY DEF IInv
<1>4. IsInjective(incoming_bio_list') /\ Incoming' = Incoming \cup Pending
  BY <1>1, <1>2, <1>3, ConcatDisjoint, RangeConcatenation
  DEF EachBioOnce, Incoming, Pending
<1>5. IsInjective(pending_bio_list') /\ Pending' = {}
  BY <1>1 DEF Pending, Range, IsInjective
<1>6. SameFreeing
  BY BlockSameFreeing DEF Release
<1> QED
  BY <1>1, <1>3, <1>4, <1>5, <1>6
  DEF EachBioOnce, Allocated, Unanswered, SameFreeing, CurrentBio

\* A completed bio's entry leaves whichever list it is on for the hands of the
\* thread that will free it.
LEMMA CompleteKeepsOnce ==
  ASSUME IInv, NEW c \in Clients, Complete(c)
  PROVE  EachBioOnce'
<1> DEFINE e == ent[c]
           b == bioOf[e]
<1>1. /\ e \in Linked /\ pc[c] \in {"end_ok", "end_eio"}
      /\ bio' = [bio EXCEPT ![b] = Answer(pc[c])]
      /\ pending_bio_list' = RemoveFirst(pending_bio_list, e)
      /\ incoming_bio_list' = RemoveFirst(incoming_bio_list, e)
      /\ pc' = [pc EXCEPT ![c] = "free"]
      /\ bioOf' = bioOf /\ ent' = ent
  BY DEF Complete, AnswerBio, CurrentBio, GoTo
<1>2. /\ incoming_bio_list \in Seq(Entries) /\ pending_bio_list \in Seq(Entries)
      /\ bioOf \in [Entries -> Bios \cup {NoBio}]
      /\ bio \in [Bios -> {"new", "queued", "ok", "eio"}]
      /\ pc \in [Clients -> Places]
  BY DEF IInv, Types, TypeOK
<1>3. EachBioOnce
  BY DEF IInv
<1>4. Answer(pc[c]) \in {"ok", "eio"}
  BY DEF Answer
<1>5. e \in Entries /\ b \in Bios /\ Allocated(e)
  BY <1>1, <1>2, <1>3 DEF EachBioOnce, Allocated
<1>6. IsInjective(incoming_bio_list') /\ Incoming' = Incoming \ {e}
  BY <1>1, <1>2, <1>3, RemoveFirstProperties DEF EachBioOnce, Incoming
<1>7. IsInjective(pending_bio_list') /\ Pending' = Pending \ {e}
  BY <1>1, <1>2, <1>3, RemoveFirstProperties DEF EachBioOnce, Pending
<1>8. Freeing' = Freeing \cup {c} /\ c \notin Freeing
  BY <1>1, <1>2 DEF Freeing
<1>9. {ent[d] : d \in Freeing}' = {ent[d] : d \in Freeing} \cup {e}
  BY <1>1, <1>8
<1> HIDE DEF e
<1>10. \A f \in Entries : f # e => bioOf[f] # b
  BY <1>3, <1>5 DEF EachBioOnce
<1>11. Unanswered' = Unanswered \ {b}
  BY <1>1, <1>2, <1>4, <1>5 DEF Unanswered
<1>12. Incoming \cup Pending \subseteq Entries
  BY <1>3 DEF EachBioOnce
<1>13. {bioOf[f] : f \in Linked}' = Unanswered \ {b}
  <2>1. {bioOf[f] : f \in Linked}' = {bioOf[f] : f \in Linked \ {e}}
    BY <1>1, <1>6, <1>7
  <2>2. {bioOf[f] : f \in Linked} = Unanswered
    BY <1>3 DEF EachBioOnce
  <2> QED BY <2>1, <2>2, <1>10, <1>12
<1>14. \A f, g \in Entries : (Allocated(f) /\ bioOf[f] = bioOf[g] => f = g)'
  BY <1>1, <1>3 DEF EachBioOnce, Allocated
<1>15. Incoming' \cap Pending' = {}
  BY <1>3, <1>6, <1>7 DEF EachBioOnce
<1>16. {f \in Entries : Allocated(f)}' = Linked' \cup {ent[d] : d \in Freeing}'
  <2>1. {f \in Entries : Allocated(f)}' = {f \in Entries : Allocated(f)}
    BY <1>1 DEF Allocated
  <2> QED BY <2>1, <1>1, <1>3, <1>6, <1>7, <1>9 DEF EachBioOnce
<1>17. (\A d \in Freeing : ent[d] \notin Linked /\ \A g \in Freeing \ {d} : ent[g] # ent[d])'
  <2>1. \A d \in Freeing : ent[d] \notin Linked /\ ent[d] # e
    BY <1>1, <1>3 DEF EachBioOnce
  <2>2. ent[c] = e /\ ent' = ent
    BY <1>1 DEF e
  <2> QED BY <1>3, <1>6, <1>7, <1>8, <2>1, <2>2 DEF EachBioOnce
<1>18. (\A d \in Freeing : bio[CurrentBio(d)] \in {"ok", "eio"})'
  <2> SUFFICES ASSUME NEW d \in Freeing \cup {c}
               PROVE  bio'[bioOf[ent[d]]] \in {"ok", "eio"}
    BY <1>1, <1>8 DEF CurrentBio
  <2>1. CASE d = c
    BY <1>1, <1>2, <1>4, <1>5, <2>1 DEF e
  <2>2. CASE d \in Freeing
    <3>1. bioOf[ent[d]] \in Bios /\ bio[bioOf[ent[d]]] \in {"ok", "eio"}
      BY <1>3, <2>2, FreeingHolds DEF IInv, Types, EachBioOnce, CurrentBio
    <3> QED BY <1>1, <1>2, <1>4, <1>5, <3>1
  <2> QED BY <2>1, <2>2
<1> QED
  BY <1>6, <1>7, <1>11, <1>13, <1>14, <1>15, <1>16, <1>17, <1>18 DEF EachBioOnce

\* kfree() of an entry that is on no list.
LEMMA FreeEntryKeepsOnce ==
  ASSUME IInv, NEW c \in Clients, FreeEntry(c)
  PROVE  EachBioOnce'
<1> DEFINE e == ent[c]
<1>1. /\ pc[c] = "free" /\ pc' = [pc EXCEPT ![c] = "user"]
      /\ ent' = [ent EXCEPT ![c] = NULL]
      /\ bioOf' = [bioOf EXCEPT ![e] = NoBio]
      /\ UNCHANGED <<incoming_bio_list, pending_bio_list, bio>>
  BY DEF FreeEntry, Return, GoTo, block
<1>2. /\ bioOf \in [Entries -> Bios \cup {NoBio}]
      /\ pc \in [Clients -> Places] /\ ent \in [Clients -> Entries \cup {NULL}]
  BY DEF IInv, Types, TypeOK
<1>3. EachBioOnce
  BY DEF IInv
<1>4. c \in Freeing /\ Freeing' = Freeing \ {c}
  BY <1>1, <1>2 DEF Freeing
<1>5. \A d \in Freeing \ {c} : ent'[d] = ent[d] /\ ent[d] # e
  BY <1>1, <1>2, <1>3, <1>4 DEF EachBioOnce, Freeing
<1>6. e \in Entries /\ e \notin Linked
  BY <1>3, <1>4 DEF EachBioOnce
<1>7. {ent[d] : d \in Freeing}' = {ent[d] : d \in Freeing} \ {e}
  BY <1>4, <1>5
<1> HIDE DEF e
<1>8. Linked' = Linked /\ Incoming' = Incoming /\ Pending' = Pending /\ Unanswered' = Unanswered
  BY <1>1 DEF Incoming, Pending, Unanswered
<1>9. \A f \in Entries : bioOf'[f] = IF f = e THEN NoBio ELSE bioOf[f]
  BY <1>1, <1>2, <1>6
<1>10. {f \in Entries : Allocated(f)}' = {f \in Entries : Allocated(f)} \ {e}
  BY <1>9 DEF Allocated
<1>11. {f \in Entries : Allocated(f)}' = Linked' \cup {ent[d] : d \in Freeing}'
  BY <1>3, <1>6, <1>7, <1>8, <1>10 DEF EachBioOnce
<1>12. (\A d \in Freeing : ent[d] \notin Linked /\ \A g \in Freeing \ {d} : ent[g] # ent[d])'
  BY <1>3, <1>4, <1>5, <1>8 DEF EachBioOnce
<1>13. \A f, g \in Entries : (Allocated(f) /\ bioOf[f] = bioOf[g] => f = g)'
  BY <1>3, <1>9 DEF EachBioOnce, Allocated
<1>14. {bioOf[f] : f \in Linked}' = Unanswered
  <2>1. Linked \subseteq Entries
    BY <1>3 DEF EachBioOnce
  <2>2. {bioOf[f] : f \in Linked}' = {bioOf[f] : f \in Linked}
    BY <1>6, <1>8, <1>9, <2>1
  <2> QED BY <1>3, <2>2 DEF EachBioOnce
<1>15. (\A d \in Freeing : bio[CurrentBio(d)] \in {"ok", "eio"})'
  <2> SUFFICES ASSUME NEW d \in Freeing \ {c}
               PROVE  bio[bioOf'[ent'[d]]] \in {"ok", "eio"}
    BY <1>1, <1>4 DEF CurrentBio
  <2>1. ent'[d] = ent[d] /\ ent[d] \in Entries /\ ent[d] # e
    BY <1>3, <1>5, FreeingHolds DEF IInv, Types
  <2> QED BY <1>3, <1>9, <2>1 DEF EachBioOnce, CurrentBio
<1> QED
  BY <1>1, <1>3, <1>8, <1>11, <1>12, <1>13, <1>14, <1>15 DEF EachBioOnce

-----------------------------------------------------------------------------
(* Every step keeps the types. *)

LEMMA SubmitKeepsTypes ==
  ASSUME IInv, NEW b \in Bios, Submit(b)
  PROVE  Types'
<1> USE TunnelAssumption DEF NoReq, lists, block, calls, history
<1>0. TypeOK /\ BufferInHand
  BY DEF IInv, Types
<1>1. CASE MakeRequest(b)
  <2>1. PICK e \in Entries : /\ bioOf' = [bioOf EXCEPT ![e] = b]
                             /\ incoming_bio_list' = Append(incoming_bio_list, e)
    BY <1>1 DEF MakeRequest
  <2>2. incoming_bio_list' \in Seq(Entries) /\ arrived' \in Seq(Bios)
    BY <1>0, <1>1, <2>1, AppendProperties DEF MakeRequest, TypeOK, BufferInHand, Types
  <2> QED BY <1>0, <1>1, <2>1, <2>2 DEF MakeRequest, TypeOK, BufferInHand, Types
<1>2. CASE RefuseRequest(b)
  BY <1>0, <1>2 DEF RefuseRequest, TypeOK, BufferInHand, Types
<1>3. CASE WakeReaders(b)
  BY <1>0, <1>3 DEF WakeReaders, TypeOK, BufferInHand, Types
<1>4. CASE CountRequest(b)
  BY <1>0, <1>4 DEF CountRequest, TypeOK, BufferInHand, Types, Rw
<1> QED BY <1>1, <1>2, <1>3, <1>4 DEF Submit

LEMMA FileKeepsTypes ==
  ASSUME IInv, NEW f \in Files, Open(f) \/ Release(f)
  PROVE  Types'
<1> USE TunnelAssumption DEF NoReq, lists, block, calls, history
<1>0. TypeOK /\ BufferInHand
  BY DEF IInv, Types
<1>1. CASE Open(f)
  BY <1>0, <1>1 DEF Open, TypeOK, BufferInHand, Types
<1>2. CASE Release(f)
  <2>1. incoming_bio_list' \in Seq(Entries) /\ pending_bio_list' \in Seq(Entries)
    BY <1>0, <1>2, ConcatProperties DEF Release, TypeOK, BufferInHand, Types
  <2> QED BY <1>0, <1>2, <2>1 DEF Release, TypeOK, BufferInHand, Types
<1> QED BY <1>1, <1>2

LEMMA AnswerTypes ==
  ASSUME TypeOK, NEW c \in Clients, AnswerBio(c), Allocated(ent[c])
  PROVE  bio' \in [Bios -> {"new", "queued", "ok", "eio"}] /\ inFlight' \in [Rw -> Int]
<1>1. CurrentBio(c) \in Bios /\ Answer(pc[c]) \in {"ok", "eio"}
  BY DEF Allocated, CurrentBio, Answer, TypeOK
<1>2. PICK rw \in Rw : inFlight' = [inFlight EXCEPT ![rw] = @ - 1]
  BY DEF AnswerBio
<1> QED BY <1>1, <1>2 DEF AnswerBio, TypeOK

LEMMA ThreadKeepsTypes ==
  ASSUME IInv, NEW c \in Clients, Thread(c)
  PROVE  Types'
<1> USE TunnelAssumption DEF NoReq, lists, block, calls, history
<1>0. TypeOK /\ BufferInHand
  BY DEF IInv, Types
<1>1. CASE ReadRequest(c)
  BY <1>0, <1>1 DEF ReadRequest, PrepareToWait, InUser, GoTo, TypeOK, BufferInHand, Types, Places, DataOps
<1>2. CASE Poll(c)
  BY <1>0, <1>2 DEF Poll, PrepareToWait, InUser, GoTo, TypeOK, BufferInHand, Types, Places, DataOps
<1>3. CASE FindEmpty(c)
  BY <1>0, <1>3 DEF FindEmpty, GoTo, TypeOK, BufferInHand, Types, Places, DataOps
<1>4. CASE ReportReadable(c)
  BY <1>0, <1>4 DEF ReportReadable, GoTo, TypeOK, BufferInHand, Types, Places, DataOps
<1>5. CASE Awaken(c)
  <2>1. pc' \in [Clients -> Places] /\ reader_queue' \in SUBSET Clients
    BY <1>0, <1>5 DEF Awaken, GoTo, TypeOK, Places
  <2>2. BufferInHand'
    BY <1>0, <1>5 DEF Awaken, GoTo, TypeOK, BufferInHand
  <2> QED BY <1>0, <1>5, <2>1, <2>2 DEF Awaken, TypeOK, Types
<1>6. CASE Interrupt(c)
  BY <1>0, <1>6 DEF Interrupt, GoTo, TypeOK, BufferInHand, Types, Places, DataOps
<1>7. CASE SetRequest(c)
  BY <1>0, <1>7 DEF SetRequest, InUser, NoReq, TypeOK, BufferInHand, Types, Places, DataOps
<1>8. CASE UseStaleEntry(c)
  BY <1>0, <1>8 DEF UseStaleEntry, TypeOK, BufferInHand, Types, Places, DataOps
<1>9. CASE ReadData(c)
  BY <1>0, <1>9 DEF ReadData, ToUser, Return, GoTo, Allocated, CurrentBio, TypeOK, BufferInHand, Types, Places, DataOps
<1>10. CASE WriteData(c)
  BY <1>0, <1>10 DEF WriteData, FromUser, Return, GoTo, Allocated, CurrentBio, TypeOK, BufferInHand, Types, Places, DataOps
<1>11. CASE TransferFails(c)
  BY <1>0, <1>11 DEF TransferFails, Return, GoTo, Allocated, CurrentBio, TypeOK, BufferInHand, Types, Places, DataOps
<1>12. CASE MapData(c)
  BY <1>0, <1>12 DEF MapData, Return, GoTo, Allocated, CurrentBio, TypeOK, BufferInHand, Types, Places, DataOps
<1>13. CASE UseMapping(c)
  <2>1. req[c].bio \in Bios /\ mapped[c] \in Bios
    BY <1>0, <1>13 DEF UseMapping, TypeOK
  <2>2. pages' \in [Bios -> Bios \cup {NoBio}] /\ disk' \in [Bios -> Bios \cup {NoBio}]
    <3>1. CASE Dir[req[c].bio] = "READ"
      BY <1>0, <1>13, <2>1, <3>1 DEF UseMapping, FromUser, TypeOK
    <3>2. CASE Dir[req[c].bio] # "READ"
      <4>1. ToUser(c, mapped[c])
        BY <1>13, <3>2 DEF UseMapping
      <4>2. pages[mapped[c]] \in Bios \cup {NoBio}
        BY <1>0, <2>1 DEF TypeOK
      <4> QED BY <1>0, <2>1, <4>1, <4>2 DEF ToUser, TypeOK
    <3> QED BY <3>1, <3>2
  <2> QED BY <1>0, <1>13, <2>2 DEF UseMapping, TypeOK, BufferInHand, Types
<1>14. CASE Unmap(c)
  BY <1>0, <1>14 DEF Unmap, TypeOK, BufferInHand, Types, Places, DataOps
<1>15. CASE UnlinkUnlocked(c)
  BY <1>0, <1>15 DEF UnlinkUnlocked, TypeOK, BufferInHand, Types, Places, DataOps
<1>16. ASSUME NEW op \in DataOps, FetchCurrent(c, op) PROVE Types'
  BY <1>0, <1>16 DEF FetchCurrent, GoTo, TypeOK, BufferInHand, Types, Places, DataOps
<1>17. CASE DeliverHeader(c)
  <2> DEFINE e == Head(incoming_bio_list)
  <2>1. /\ e \in Entries
        /\ incoming_bio_list' \in Seq(Entries) /\ pending_bio_list' \in Seq(Entries)
    BY <1>0, <1>17, HeadTailProperties, AppendProperties DEF DeliverHeader, TypeOK, BufferInHand, Types
  <2>2. e \in Incoming
    BY <1>0, <1>17 DEF DeliverHeader, TypeOK, BufferInHand, Types, Incoming, Range
  <2>3. bioOf[e] \in Bios
    BY <1>0, <2>1, <2>2 DEF IInv, EachBioOnce, Allocated, TypeOK, BufferInHand, Types
  <2> HIDE DEF e
  <2>4. req' = [req EXCEPT ![c] = [id |-> e, bio |-> bioOf[e]]] /\ seen' = seen \cup {bioOf[e]}
    BY <1>17 DEF DeliverHeader, e
  <2>5. req' \in [Clients -> [id : Entries, bio : Bios] \cup {NoReq}]
    BY <1>0, <2>1, <2>3, <2>4 DEF TypeOK
  <2> QED BY <1>0, <1>17, <2>1, <2>3, <2>4, <2>5 DEF DeliverHeader, GoTo, TypeOK, BufferInHand, Types, Places
<1>18. CASE Complete(c)
  <2>1. incoming_bio_list' \in Seq(Entries) /\ pending_bio_list' \in Seq(Entries)
    BY <1>0, <1>18, RemoveFirstType DEF Complete, TypeOK, BufferInHand, Types
  <2>2. ent[c] \in Entries /\ Allocated(ent[c])
    BY <1>18 DEF Complete, IInv, EachBioOnce
  <2>3. bio' \in [Bios -> {"new", "queued", "ok", "eio"}] /\ inFlight' \in [Rw -> Int]
    BY <1>0, <1>18, <2>2, AnswerTypes DEF Complete
  <2>4. pc' \in [Clients -> Places]
    BY <1>0, <1>18 DEF Complete, GoTo, TypeOK, Places
  <2>5. BufferInHand'
    BY <1>0, <1>18 DEF Complete, GoTo, TypeOK, BufferInHand
  <2> QED BY <1>0, <1>18, <2>1, <2>3, <2>4, <2>5 DEF Complete, TypeOK, Types
<1>19. CASE FreeEntry(c)
  <2>1. bioOf' \in [Entries -> Bios \cup {NoBio}]
    BY <1>0, <1>19 DEF FreeEntry, TypeOK
  <2>2. pc' \in [Clients -> Places] /\ ent' \in [Clients -> Entries \cup {NULL}]
    BY <1>0, <1>19 DEF FreeEntry, Return, GoTo, TypeOK, Places
  <2>3. BufferInHand'
    BY <1>0, <1>19 DEF FreeEntry, Return, GoTo, TypeOK, BufferInHand
  <2> QED BY <1>0, <1>19, <2>1, <2>2, <2>3 DEF FreeEntry, TypeOK, Types
<1>20. CASE CompleteAgain(c)
  <2>1. bio' \in [Bios -> {"new", "queued", "ok", "eio"}] /\ inFlight' \in [Rw -> Int]
    BY <1>0, <1>20, AnswerTypes DEF CompleteAgain
  <2> QED BY <1>0, <1>20, <2>1 DEF CompleteAgain, TypeOK, BufferInHand, Types
<1> QED
  BY <1>1, <1>2, <1>3, <1>4, <1>5, <1>6, <1>7, <1>8, <1>9, <1>10,
     <1>11, <1>12, <1>13, <1>14, <1>15, <1>16, <1>17, <1>18, <1>19, <1>20
  DEF Thread, Header, Transfer, Finish

\* The entry a second completion finds is about to be freed, its bio answered.
LEMMA AgainAnswered ==
  ASSUME IInv, NEW c \in Clients, CompleteAgain(c)
  PROVE  CurrentBio(c) \in Bios /\ CurrentBio(c) \notin Unanswered
<1>1. ent[c] \in Entries /\ bioOf[ent[c]] \in Bios
  BY DEF CompleteAgain, Allocated, IInv, Types, TypeOK
<1>2. ASSUME bioOf[ent[c]] \in Unanswered PROVE FALSE
  <2>1. PICK e \in Linked : bioOf[e] = bioOf[ent[c]]
    BY <1>2 DEF IInv, EachBioOnce
  <2>2. e \in Entries /\ Allocated(e)
    BY <2>1 DEF IInv, EachBioOnce
  <2>3. e = ent[c]
    BY <1>1, <2>1, <2>2 DEF IInv, EachBioOnce
  <2> QED BY <2>1, <2>3 DEF CompleteAgain
<1> QED BY <1>1, <1>2 DEF CurrentBio

\* So nothing changes for the bios that wait, and what is answered stays so.
LEMMA AgainUnanswered ==
  ASSUME IInv, NEW c \in Clients, CompleteAgain(c)
  PROVE  Unanswered' = Unanswered /\ StillAnswered
<1>1. /\ bio \in [Bios -> {"new", "queued", "ok", "eio"}]
      /\ bio' = [bio EXCEPT ![CurrentBio(c)] = Answer(pc[c])]
      /\ Answer(pc[c]) \in {"ok", "eio"}
  BY DEF CompleteAgain, AnswerBio, Answer, IInv, Types, TypeOK
<1>2. Unanswered' = Unanswered
  BY <1>1, AgainAnswered DEF Unanswered
<1>3. StillAnswered
  BY <1>1, AgainAnswered DEF StillAnswered
<1> QED BY <1>2, <1>3

\* The actions of a thread that neither move nor free an entry nor answer a bio.
QuietThread(c) ==
  \/ ReadRequest(c) \/ Poll(c) \/ FindEmpty(c) \/ ReportReadable(c) \/ Awaken(c)
  \/ Interrupt(c) \/ SetRequest(c) \/ (\E op \in DataOps : FetchCurrent(c, op))
  \/ Transfer(c) \/ UseMapping(c) \/ Unmap(c) \/ UseStaleEntry(c) \/ UnlinkUnlocked(c)

LEMMA ThreadCases ==
  ASSUME NEW c \in Clients, Thread(c)
  PROVE  \/ DeliverHeader(c) \/ Complete(c) \/ FreeEntry(c) \/ CompleteAgain(c)
         \/ QuietThread(c)
BY DEF Thread, Header, Finish, QuietThread

LEMMA QuietThreadKeeps ==
  ASSUME TypeOK, NEW c \in Clients, QuietThread(c)
  PROVE  /\ UNCHANGED <<incoming_bio_list, pending_bio_list, bioOf, bio, submit, inFlight,
                       arrived, seen>>
         /\ fault' # "unlinked" \/ fault' = fault
         /\ SameFreeing
<1> USE DEF lists, block, calls, history
<1>1. /\ UNCHANGED <<incoming_bio_list, pending_bio_list, bioOf, bio, submit, inFlight,
                    arrived, seen>>
      /\ fault' # "unlinked" \/ fault' = fault
  BY DEF QuietThread, Transfer, ReadRequest, Poll, PrepareToWait, FindEmpty,
         ReportReadable, Awaken, Interrupt, SetRequest, FetchCurrent, UseStaleEntry,
         ReadData, WriteData, TransferFails, MapData, UseMapping, Unmap, UnlinkUnlocked
<1>2. \A d \in Clients \ {c} : pc'[d] = pc[d] /\ ent'[d] = ent[d]
  BY DEF QuietThread, Transfer, ReadRequest, Poll, PrepareToWait, FindEmpty, TypeOK,
         ReportReadable, Awaken, Interrupt, SetRequest, FetchCurrent, UseStaleEntry,
         ReadData, WriteData, TransferFails, MapData, UseMapping, Unmap, UnlinkUnlocked,
         Return, GoTo
<1>3. pc[c] # "free" /\ pc'[c] # "free"
  BY DEF QuietThread, Transfer, ReadRequest, Poll, PrepareToWait, FindEmpty, TypeOK,
         ReportReadable, Awaken, Interrupt, SetRequest, FetchCurrent, UseStaleEntry,
         ReadData, WriteData, TransferFails, MapData, UseMapping, Unmap, UnlinkUnlocked,
         Return, GoTo, InUser, DataOps
<1> QED BY <1>1, <1>2, <1>3, ThreadSameFreeing

\* A step of the tunnel keeps the invariant: actions that move no entry by
\* QuietStep, the others by the lemma of the action.
LEMMA NextIInv == IInv /\ [Next]_vars => IInv'
<1> SUFFICES ASSUME IInv, [Next]_vars PROVE IInv'
  OBVIOUS
<1> USE DEF lists, block, calls, history
<1>0. EachBioOnce /\ TypeOK
  BY DEF IInv, Types
<1>1. ASSUME NEW b \in Bios, Submit(b) PROVE IInv'
  <2>1. CASE MakeRequest(b)
    BY <1>1, <2>1, SubmitKeepsTypes, MakeRequestKeepsOnce DEF IInv
  <2>2. CASE RefuseRequest(b)
    <3>1. Unanswered' = Unanswered /\ StillAnswered
      BY <2>2 DEF RefuseRequest, IInv, Types, TypeOK, Unanswered, StillAnswered
    <3>2. EachBioOnce'
      BY <1>0, <2>2, <3>1, QuietStep, BlockSameFreeing DEF RefuseRequest
    <3> QED BY <1>1, <3>2, SubmitKeepsTypes DEF IInv
  <2>3. CASE WakeReaders(b) \/ CountRequest(b)
    <3>1. UNCHANGED <<incoming_bio_list, pending_bio_list, bioOf, bio, pc, ent>>
      BY <2>3 DEF WakeReaders, CountRequest
    <3>2. SameFreeing /\ Unanswered' = Unanswered /\ StillAnswered
      BY <3>1, BlockSameFreeing DEF Unanswered, StillAnswered
    <3> QED BY <1>0, <1>1, <3>1, <3>2, SubmitKeepsTypes, QuietStep DEF IInv
  <2> QED BY <1>1, <2>1, <2>2, <2>3 DEF Submit
<1>2. ASSUME NEW f \in Files, Open(f) \/ Release(f) PROVE IInv'
  <2>1. CASE Open(f)
    <3>1. UNCHANGED <<incoming_bio_list, pending_bio_list, bioOf, bio, pc, ent>>
      BY <2>1 DEF Open
    <3>2. SameFreeing /\ Unanswered' = Unanswered /\ StillAnswered
      BY <3>1, BlockSameFreeing DEF Unanswered, StillAnswered
    <3> QED BY <1>0, <1>2, <3>1, <3>2, FileKeepsTypes, QuietStep DEF IInv
  <2>2. CASE Release(f)
    BY <1>2, <2>2, FileKeepsTypes, ReleaseKeepsOnce DEF IInv
  <2> QED BY <1>2, <2>1, <2>2
<1>3. ASSUME NEW c \in Clients, Thread(c) PROVE IInv'
  <2>1. CASE DeliverHeader(c) \/ Complete(c) \/ FreeEntry(c)
    BY <1>3, <2>1, ThreadKeepsTypes, DeliverHeaderKeepsOnce, CompleteKeepsOnce,
       FreeEntryKeepsOnce DEF IInv
  <2>2. CASE CompleteAgain(c)
    <3>1. UNCHANGED <<incoming_bio_list, pending_bio_list, bioOf, pc, ent>>
      BY <2>2 DEF CompleteAgain
    <3> QED BY <1>0, <1>3, <2>2, <3>1, ThreadKeepsTypes, QuietStep, BlockSameFreeing,
               AgainUnanswered DEF IInv
  <2>3. CASE QuietThread(c)
    <3>1. /\ UNCHANGED <<incoming_bio_list, pending_bio_list, bioOf, bio>>
          /\ SameFreeing
      BY <2>3, QuietThreadKeeps DEF IInv, Types
    <3>2. Unanswered' = Unanswered /\ StillAnswered
      BY <3>1 DEF Unanswered, StillAnswered
    <3> QED BY <1>0, <1>3, <3>1, <3>2, ThreadKeepsTypes, QuietStep DEF IInv
  <2> QED BY <1>3, <2>1, <2>2, <2>3, ThreadCases
<1>4. CASE UNCHANGED vars
  <2>1. Types'
    BY <1>4 DEF IInv, Types, TypeOK, BufferInHand, vars
  <2>2. SameFreeing /\ Unanswered' = Unanswered /\ StillAnswered
    BY <1>4, BlockSameFreeing DEF vars, Unanswered, StillAnswered
  <2> QED BY <1>0, <1>4, <2>1, <2>2, QuietStep DEF IInv, vars
<1> QED BY <1>1, <1>2, <1>3, <1>4 DEF Next

\* Requests are neither lost nor doubled, whatever the threads do, and every
\* variable keeps its type.
THEOREM RequestsConserved == Spec => []IInv
<1> QED BY InitIInv, NextIInv, PTL DEF Spec

\* The types, by themselves.
THEOREM TypeCorrect == Spec => []TypeOK
<1>1. IInv => TypeOK
  BY DEF IInv, Types
<1> QED BY <1>1, RequestsConserved, PTL

\* Each unanswered bio has one entry, linked in one place; nothing else is linked
\* or allocated.
THEOREM BiosConserved == Spec => []EachBioOnce
<1>1. IInv => EachBioOnce
  BY DEF IInv
<1> QED BY <1>1, RequestsConserved, PTL

-----------------------------------------------------------------------------
(* An answer is final. *)

\* A linked entry is that of an unanswered bio.
LEMMA CompletesUnanswered ==
  ASSUME EachBioOnce, NEW c \in Clients, Complete(c)
  PROVE  CurrentBio(c) \in Unanswered
BY DEF EachBioOnce, Complete, CurrentBio

\* A step leaves every answered bio alone, or ends in the poisoned list_del().
LEMMA StepKeepsAnswers ==
  ASSUME IInv, [Next]_vars
  PROVE  AnswersStay \/ fault' = "unlinked"
<1> USE DEF lists, block, calls, history
<1>0. /\ bio \in [Bios -> {"new", "queued", "ok", "eio"}]
      /\ EachBioOnce /\ TypeOK
  BY DEF IInv, Types, TypeOK
<1>1. ASSUME NEW d \in Bios, Submit(d) PROVE AnswersStay
  BY <1>0, <1>1
  DEF AnswersStay, Submit, MakeRequest, RefuseRequest, WakeReaders, CountRequest
<1>2. ASSUME NEW f \in Files, Open(f) \/ Release(f) PROVE AnswersStay
  BY <1>2 DEF AnswersStay, Open, Release
<1>3. ASSUME NEW c \in Clients, Thread(c) PROVE AnswersStay \/ fault' = "unlinked"
  <2>1. CASE Complete(c)
    <3>1. CurrentBio(c) \in Unanswered
      BY <1>0, <2>1, CompletesUnanswered
    <3>2. bio' = [bio EXCEPT ![CurrentBio(c)] = Answer(pc[c])]
      BY <2>1 DEF Complete, AnswerBio
    <3> QED BY <1>0, <3>1, <3>2 DEF AnswersStay, Unanswered
  <2>2. CASE CompleteAgain(c)
    BY <2>2 DEF CompleteAgain
  <2>3. CASE DeliverHeader(c) \/ FreeEntry(c)
    BY <2>3 DEF DeliverHeader, FreeEntry, AnswersStay
  <2>4. CASE QuietThread(c)
    BY <1>0, <2>4, QuietThreadKeeps DEF AnswersStay
  <2> QED BY <1>3, <2>1, <2>2, <2>3, <2>4, ThreadCases
<1>4. CASE UNCHANGED vars
  BY <1>4 DEF vars, AnswersStay
<1> QED BY <1>1, <1>2, <1>3, <1>4 DEF Next

\* The answer of a bio never changes, but for the second completion between
\* list_del() and kfree(), which runs into the poisoned list pointers.
THEOREM AnswersFinal == Spec => AnsweredOnce
<1>1. IInv /\ [Next]_vars => [AnswersStay \/ fault' = "unlinked"]_vars
  BY StepKeepsAnswers
<1> QED BY <1>1, RequestsConserved, PTL DEF Spec, AnsweredOnce

-----------------------------------------------------------------------------
(* The in-flight counters. *)

\* A submitter that has still to count has queued its bio.
CountsAfterQueueing == \A b \in Bios : bio[b] = "new" => submit[b] = "none"

FlightInv == InFlightBalance /\ CountsAfterQueueing

\* The sets behind the balance are finite.
LEMMA FiniteCounts ==
  ASSUME TypeOK
  PROVE  /\ IsFiniteSet(Unanswered) /\ Cardinality(Unanswered) \in Nat
         /\ IsFiniteSet(Uncounted) /\ Cardinality(Uncounted) \in Nat
<1>1. Unanswered \in SUBSET Bios /\ Uncounted \in SUBSET Bios
  BY DEF Unanswered, Uncounted
<1> QED BY <1>1, TunnelAssumption, FS_Subset, FS_CardinalityType

LEMMA InitFlight == Init => FlightInv
<1> SUFFICES ASSUME Init PROVE FlightInv
  OBVIOUS
<1>1. Unanswered = {} /\ Uncounted = {}
  BY DEF Init, Unanswered, Uncounted
<1>2. inFlight["READ"] = 0 /\ inFlight["WRITE"] = 0
  BY DEF Init, Rw
<1>3. CountedTwice = 0 /\ Cardinality({}) = 0
  BY FS_EmptySet DEF Init, CountedTwice
<1>4. InFlightBalance
  BY <1>1, <1>2, <1>3 DEF InFlightBalance
<1> QED BY <1>4 DEF FlightInv, CountsAfterQueueing, Init

LEMMA NextFlight == IInv /\ FlightInv /\ [Next]_vars => FlightInv'
<1> SUFFICES ASSUME IInv, FlightInv, [Next]_vars PROVE FlightInv'
  OBVIOUS
<1> USE DEF lists, block, calls, history
<1>0. /\ bio \in [Bios -> {"new", "queued", "ok", "eio"}]
      /\ submit \in [Bios -> {"none", "wake", "count"}]
      /\ inFlight \in [Rw -> Int] /\ "READ" \in Rw /\ "WRITE" \in Rw
      /\ Dir \in [Bios -> Rw]
  BY TunnelAssumption DEF IInv, Types, TypeOK, Rw
<1>a. /\ IsFiniteSet(Unanswered) /\ Cardinality(Unanswered) \in Nat
      /\ IsFiniteSet(Uncounted) /\ Cardinality(Uncounted) \in Nat
  BY FiniteCounts DEF IInv, Types
<1>b. /\ inFlight["READ"] + inFlight["WRITE"]
           = Cardinality(Unanswered) - Cardinality(Uncounted) - CountedTwice
      /\ CountsAfterQueueing
  BY DEF FlightInv, InFlightBalance
<1>c. ASSUME UNCHANGED <<bio, submit, inFlight>>, CountedTwice' = CountedTwice PROVE FlightInv'
  BY <1>b, <1>c DEF FlightInv, InFlightBalance, CountsAfterQueueing, Unanswered, Uncounted
<1>d. CountedTwice \in {0, 1}
  BY DEF CountedTwice
<1>1. ASSUME NEW b \in Bios, Submit(b) PROVE FlightInv'
  <2>0. CountedTwice' = CountedTwice
    BY <1>1 DEF Submit, MakeRequest, RefuseRequest, WakeReaders, CountRequest, CountedTwice
  <2>1. CASE MakeRequest(b)
    <3>1. /\ bio[b] = "new" /\ bio' = [bio EXCEPT ![b] = "queued"]
          /\ submit' = [submit EXCEPT ![b] = "wake"] /\ inFlight' = inFlight
      BY <2>1 DEF MakeRequest
    <3>2. submit[b] = "none"
      BY <1>b, <3>1 DEF CountsAfterQueueing
    <3>3. /\ Unanswered' = Unanswered \cup {b} /\ b \notin Unanswered
          /\ Uncounted' = Uncounted \cup {b} /\ b \notin Uncounted
      BY <1>0, <3>1, <3>2 DEF Unanswered, Uncounted
    <3>4. /\ Cardinality(Unanswered') = Cardinality(Unanswered) + 1
          /\ Cardinality(Uncounted') = Cardinality(Uncounted) + 1
      BY <1>a, <3>3, FS_AddElement
    <3>5. CountsAfterQueueing'
      BY <1>0, <1>b, <3>1 DEF CountsAfterQueueing
    <3> QED BY <1>0, <1>a, <1>b, <1>d, <2>0, <3>1, <3>4, <3>5 DEF FlightInv, InFlightBalance
  <2>2. CASE RefuseRequest(b)
    <3>1. /\ bio[b] = "new" /\ bio' = [bio EXCEPT ![b] = "eio"]
          /\ submit' = submit /\ inFlight' = inFlight
      BY <2>2 DEF RefuseRequest
    <3>2. Unanswered' = Unanswered /\ Uncounted' = Uncounted
      BY <1>0, <3>1 DEF Unanswered, Uncounted
    <3>3. CountsAfterQueueing'
      BY <1>0, <1>b, <3>1 DEF CountsAfterQueueing
    <3> QED BY <1>b, <2>0, <3>1, <3>2, <3>3 DEF FlightInv, InFlightBalance
  <2>3. CASE WakeReaders(b)
    <3>1. /\ submit[b] = "wake" /\ submit' = [submit EXCEPT ![b] = "count"]
          /\ bio' = bio /\ inFlight' = inFlight
      BY <2>3 DEF WakeReaders
    <3>2. Unanswered' = Unanswered /\ Uncounted' = Uncounted
      BY <1>0, <3>1 DEF Unanswered, Uncounted
    <3>3. CountsAfterQueueing'
      BY <1>0, <1>b, <3>1 DEF CountsAfterQueueing
    <3> QED BY <1>b, <2>0, <3>1, <3>2, <3>3 DEF FlightInv, InFlightBalance
  <2>4. CASE CountRequest(b)
    <3>1. /\ submit[b] = "count" /\ submit' = [submit EXCEPT ![b] = "none"]
          /\ bio' = bio /\ inFlight' = [inFlight EXCEPT ![Dir[b]] = @ + 1]
      BY <2>4 DEF CountRequest
    <3>2. Unanswered' = Unanswered /\ Uncounted' = Uncounted \ {b} /\ b \in Uncounted
      BY <1>0, <3>1 DEF Unanswered, Uncounted
    <3>3. Cardinality(Uncounted') = Cardinality(Uncounted) - 1
      BY <1>a, <3>2, FS_RemoveElement
    <3>4. inFlight'["READ"] + inFlight'["WRITE"] = inFlight["READ"] + inFlight["WRITE"] + 1
      BY <1>0, <3>1 DEF Rw
    <3>5. CountsAfterQueueing'
      BY <1>0, <1>b, <3>1 DEF CountsAfterQueueing
    <3> QED BY <1>0, <1>a, <1>b, <1>d, <2>0, <3>2, <3>3, <3>4, <3>5 DEF FlightInv, InFlightBalance
  <2> QED BY <1>1, <2>1, <2>2, <2>3, <2>4 DEF Submit
<1>2. ASSUME NEW f \in Files, Open(f) \/ Release(f) PROVE FlightInv'
  BY <1>c, <1>2 DEF Open, Release, CountedTwice
<1>3. ASSUME fault = "none", NEW c \in Clients, Thread(c) PROVE FlightInv'
  <2>1. CASE Complete(c)
    <3> DEFINE b == CurrentBio(c)
    <3>1. b \in Unanswered
      BY <2>1, CompletesUnanswered DEF IInv
    <3>2. PICK rw \in Rw : inFlight' = [inFlight EXCEPT ![rw] = @ - 1]
      BY <2>1 DEF Complete, AnswerBio
    <3>3. /\ bio' = [bio EXCEPT ![b] = Answer(pc[c])] /\ submit' = submit
          /\ CountedTwice' = CountedTwice
      BY <2>1 DEF Complete, AnswerBio, CountedTwice
    <3>4. Answer(pc[c]) \in {"ok", "eio"}
      BY DEF Answer
    <3> HIDE DEF b
    <3>5. Unanswered' = Unanswered \ {b} /\ Uncounted' = Uncounted
      BY <1>0, <3>3, <3>4 DEF Unanswered, Uncounted
    <3>6. Cardinality(Unanswered') = Cardinality(Unanswered) - 1
      BY <1>a, <3>1, <3>5, FS_RemoveElement
    <3>7. inFlight'["READ"] + inFlight'["WRITE"] = inFlight["READ"] + inFlight["WRITE"] - 1
      BY <1>0, <3>2 DEF Rw
    <3>8. CountsAfterQueueing'
      BY <1>0, <1>b, <3>3, <3>4 DEF CountsAfterQueueing
    <3>9. inFlight'["READ"] + inFlight'["WRITE"]
            = Cardinality(Unanswered') - Cardinality(Uncounted') - CountedTwice'
      BY <1>0, <1>a, <1>b, <1>d, <3>3, <3>5, <3>6, <3>7
    <3> QED BY <3>8, <3>9 DEF FlightInv, InFlightBalance
  <2>2. CASE CompleteAgain(c)
    <3>1. PICK rw \in Rw : inFlight' = [inFlight EXCEPT ![rw] = @ - 1]
      BY <2>2 DEF CompleteAgain, AnswerBio
    <3>2. Unanswered' = Unanswered /\ Uncounted' = Uncounted
      BY <2>2, AgainUnanswered DEF CompleteAgain, Uncounted
    <3>3. CountedTwice = 0 /\ CountedTwice' = 1
      BY <1>3, <2>2 DEF CompleteAgain, CountedTwice
    <3>4. inFlight'["READ"] + inFlight'["WRITE"] = inFlight["READ"] + inFlight["WRITE"] - 1
      BY <1>0, <3>1 DEF Rw
    <3>5. CountsAfterQueueing'
      <4>1. \A b \in Bios : bio'[b] = "new" => bio[b] = "new"
        BY <1>0, <2>2 DEF CompleteAgain, AnswerBio, Answer
      <4> QED BY <1>b, <2>2, <4>1 DEF CountsAfterQueueing, CompleteAgain
    <3>6. inFlight'["READ"] + inFlight'["WRITE"]
            = Cardinality(Unanswered') - Cardinality(Uncounted') - CountedTwice'
      BY <1>0, <1>a, <1>b, <3>2, <3>3, <3>4
    <3> QED BY <3>5, <3>6 DEF FlightInv, InFlightBalance
  <2>3. CASE DeliverHeader(c) \/ FreeEntry(c)
    BY <1>c, <2>3 DEF DeliverHeader, FreeEntry, CountedTwice
  <2>4. CASE QuietThread(c)
    <3>1. UNCHANGED <<bio, submit, inFlight>> /\ (fault' # "unlinked" \/ fault' = fault)
      BY <2>4, QuietThreadKeeps DEF IInv, Types
    <3> QED BY <1>3, <1>c, <3>1 DEF CountedTwice
  <2> QED BY <1>3, <2>1, <2>2, <2>3, <2>4, ThreadCases
<1>4. CASE UNCHANGED vars
  BY <1>4, <1>c DEF vars, CountedTwice
<1> QED
  <2>1. CASE Next
    BY <1>1, <1>2, <1>3, <2>1 DEF Next
  <2> QED BY <1>4, <2>1

\* The counters always add up to the unanswered bios, less those whose submitter
\* has still to count, less a bio that is answered a second time.
THEOREM FlightBalanced == Spec => []InFlightBalance
<1>1. FlightInv => InFlightBalance
  BY DEF FlightInv
<1> QED BY <1>1, InitFlight, NextFlight, RequestsConserved, PTL DEF Spec

-----------------------------------------------------------------------------
(* What the moves between the lists do, for the proofs that build on these.  *)

\* The entries of the lists are addresses in use, each for an unanswered bio.
LEMMA LinkedEntries ==
  ASSUME IInv
  PROVE  /\ Incoming \cup Pending \subseteq Entries
         /\ \A e \in Incoming \cup Pending :
              Allocated(e) /\ bioOf[e] \in Bios /\ bio[bioOf[e]] = "queued"
         /\ Incoming \cap Pending = {}
BY DEF IInv, EachBioOnce, Unanswered

\* A submission takes an address that is on no list.
LEMMA MakeRequestLists ==
  ASSUME IInv, NEW b \in Bios, MakeRequest(b)
  PROVE  /\ Pending' = Pending
         /\ \E e \in Entries :
              /\ e \notin Incoming \cup Pending
              /\ Incoming' = Incoming \cup {e}
              /\ incoming_bio_list' = Append(incoming_bio_list, e)
              /\ \A f \in Entries : bioOf'[f] = IF f = e THEN b ELSE bioOf[f]
<1>1. PICK e \in Entries : /\ bioOf[e] = NoBio
                           /\ bioOf' = [bioOf EXCEPT ![e] = b]
                           /\ incoming_bio_list' = Append(incoming_bio_list, e)
  BY DEF MakeRequest
<1>2. /\ incoming_bio_list \in Seq(Entries)
      /\ bioOf \in [Entries -> Bios \cup {NoBio}]
  BY DEF IInv, Types, TypeOK
<1>3. Incoming' = Incoming \cup {e}
  BY <1>1, <1>2, RangeAppend DEF Incoming
<1>4. e \notin Incoming \cup Pending
  BY <1>1, LinkedEntries DEF Allocated
<1>5. Pending' = Pending
  BY DEF MakeRequest, Pending
<1> QED BY <1>1, <1>2, <1>3, <1>4, <1>5

\* A header read moves the head of the incoming list.
LEMMA DeliverHeaderLists ==
  ASSUME IInv, NEW c \in Clients, DeliverHeader(c)
  PROVE  LET e == Head(incoming_bio_list) IN
         /\ e \in Incoming /\ e \in Entries /\ e \notin Pending
         /\ Incoming' = Incoming \ {e}
         /\ Pending' = Pending \cup {e}
<1> DEFINE e == Head(incoming_bio_list)
<1>1. /\ incoming_bio_list # << >>
      /\ incoming_bio_list' = Tail(incoming_bio_list)
      /\ pending_bio_list' = Append(pending_bio_list, e)
  BY DEF DeliverHeader
<1>2. incoming_bio_list \in Seq(Entries) /\ pending_bio_list \in Seq(Entries)
  BY DEF IInv, Types, TypeOK
<1>3. e \in Incoming /\ Incoming' = Incoming \ {e}
  BY <1>1, <1>2, TailProperties DEF IInv, EachBioOnce, Incoming
<1>4. e \in Entries /\ e \notin Pending
  BY <1>3, LinkedEntries
<1> HIDE DEF e
<1>5. Pending' = Pending \cup {e}
  BY <1>1, <1>2, <1>4, RangeAppend DEF Pending
<1> QED BY <1>3, <1>4, <1>5 DEF e

\* A release empties the pending list.
LEMMA ReleaseLists ==
  ASSUME IInv, NEW f \in Files, Release(f)
  PROVE  Incoming' = Incoming \cup Pending /\ Pending' = {}
<1>1. /\ incoming_bio_list' = incoming_bio_list \o pending_bio_list
      /\ pending_bio_list' = << >>
  BY DEF Release
<1>2. incoming_bio_list \in Seq(Entries) /\ pending_bio_list \in Seq(Entries)
  BY DEF IInv, Types, TypeOK
<1>3. Incoming' = Incoming \cup Pending
  BY <1>1, <1>2, RangeConcatenation DEF Incoming, Pending
<1>4. Pending' = {}
  BY <1>1 DEF Pending, Range
<1> QED BY <1>3, <1>4

\* A completion unlinks one entry, which stays allocated.
LEMMA CompleteLists ==
  ASSUME IInv, NEW c \in Clients, Complete(c)
  PROVE  /\ Incoming' = Incoming \ {ent[c]} /\ Pending' = Pending \ {ent[c]}
         /\ ent[c] \in Incoming \cup Pending
         /\ bioOf' = bioOf
<1>1. /\ ent[c] \in Linked
      /\ pending_bio_list' = RemoveFirst(pending_bio_list, ent[c])
      /\ incoming_bio_list' = RemoveFirst(incoming_bio_list, ent[c])
      /\ bioOf' = bioOf
  BY DEF Complete
<1>2. incoming_bio_list \in Seq(Entries) /\ pending_bio_list \in Seq(Entries)
  BY DEF IInv, Types, TypeOK
<1>3. Incoming' = Incoming \ {ent[c]} /\ Pending' = Pending \ {ent[c]}
  BY <1>1, <1>2, RemoveFirstProperties DEF IInv, EachBioOnce, Incoming, Pending
<1> QED BY <1>1, <1>3

\* What is freed is on no list.
LEMMA FreeEntryLists ==
  ASSUME IInv, NEW c \in Clients, FreeEntry(c)
  PROVE  /\ ent[c] \in Entries \ (Incoming \cup Pending)
         /\ UNCHANGED <<incoming_bio_list, pending_bio_list>>
         /\ \A e \in Entries : bioOf'[e] = IF e = ent[c] THEN NoBio ELSE bioOf[e]
<1>1. c \in Freeing /\ bioOf \in [Entries -> Bios \cup {NoBio}]
  BY DEF FreeEntry, Freeing, IInv, Types, TypeOK
<1>2. ent[c] \in Entries \ (Incoming \cup Pending)
  BY <1>1, FreeingHolds DEF IInv, Types, EachBioOnce
<1> QED BY <1>1, <1>2 DEF FreeEntry

-----------------------------------------------------------------------------
(* Wake-ups. *)

\* What is pending has been read once, so release() puts nothing new on the
\* incoming list.
PendingSeen == \A e \in Pending : bioOf[e] \in seen

WakeInv == NoLostWakeup /\ PendingSeen

LEMMA InitWake == Init => WakeInv
BY DEF Init, WakeInv, NoLostWakeup, PendingSeen, Pending, Range

\* Steps that change no list and put no thread to sleep.
LEMMA NoNewSleeper ==
  ASSUME WakeInv, UNCHANGED <<incoming_bio_list, pending_bio_list, bioOf, seen, submit>>,
         \A c \in reader_queue' : pc'[c] \in {"rd_sleep", "po_sleep"} =>
           c \in reader_queue /\ pc[c] \in {"rd_sleep", "po_sleep"}
  PROVE  WakeInv'
BY DEF WakeInv, NoLostWakeup, PendingSeen, Incoming, Pending

LEMMA NextWake == IInv /\ WakeInv /\ [Next]_vars => WakeInv'
<1> SUFFICES ASSUME IInv, WakeInv, [Next]_vars PROVE WakeInv'
  OBVIOUS
<1> USE DEF lists, block, calls, history
<1>0. /\ incoming_bio_list \in Seq(Entries) /\ pending_bio_list \in Seq(Entries)
      /\ bioOf \in [Entries -> Bios \cup {NoBio}]
      /\ submit \in [Bios -> {"none", "wake", "count"}]
      /\ pc \in [Clients -> Places] /\ reader_queue \subseteq Clients
  BY DEF IInv, Types, TypeOK
<1>a. EachBioOnce
  BY DEF IInv
<1>b. NoLostWakeup /\ PendingSeen
  BY DEF WakeInv
<1>c. Incoming \cup Pending \subseteq {e \in Entries : Allocated(e)}
  BY <1>a DEF EachBioOnce
<1>1. ASSUME NEW b \in Bios, Submit(b) PROVE WakeInv'
  <2>1. CASE MakeRequest(b)
    <3>1. PICK e \in Entries : /\ bioOf[e] = NoBio
                               /\ bioOf' = [bioOf EXCEPT ![e] = b]
                               /\ incoming_bio_list' = Append(incoming_bio_list, e)
      BY <2>1 DEF MakeRequest
    <3>2. /\ submit' = [submit EXCEPT ![b] = "wake"]
          /\ UNCHANGED <<pending_bio_list, reader_queue, pc, seen>>
      BY <2>1 DEF MakeRequest
    <3>3. e \notin Incoming \cup Pending
      BY <1>c, <3>1 DEF Allocated
    <3>4. Incoming' = Incoming \cup {e} /\ Pending' = Pending
      BY <1>0, <3>1, <3>2, RangeAppend DEF Incoming, Pending
    <3>5. /\ \A f \in Incoming \cup Pending : bioOf'[f] = bioOf[f]
          /\ bioOf'[e] = b
      BY <1>0, <1>c, <3>1, <3>3
    <3>6. \A d \in Bios : submit[d] = "wake" => submit'[d] = "wake"
      BY <1>0, <3>2
    <3>7. submit'[b] = "wake"
      BY <1>0, <3>2
    <3>8. \A f \in Incoming : bioOf[f] \in Bios
      BY <1>0, <1>c DEF Allocated
    <3>9. PendingSeen'
      BY <1>b, <3>2, <3>4, <3>5 DEF PendingSeen
    <3>10. NoLostWakeup'
      BY <1>b, <3>2, <3>4, <3>5, <3>6, <3>7, <3>8 DEF NoLostWakeup
    <3> QED BY <3>9, <3>10 DEF WakeInv
  <2>2. CASE RefuseRequest(b)
    BY <2>2, NoNewSleeper DEF RefuseRequest
  <2>3. CASE WakeReaders(b)
    <3>1. PendingSeen'
      BY <1>b, <2>3 DEF WakeReaders, PendingSeen, Pending
    <3> QED BY <3>1, <2>3 DEF WakeReaders, WakeInv, NoLostWakeup
  <2>4. CASE CountRequest(b)
    <3>1. /\ submit[b] = "count" /\ submit' = [submit EXCEPT ![b] = "none"]
          /\ UNCHANGED <<lists, reader_queue, pc, seen>>
      BY <2>4 DEF CountRequest
    <3>2. \A d \in Bios : submit[d] = "wake" => submit'[d] = "wake"
      BY <1>0, <3>1
    <3>3. \A f \in Incoming : bioOf[f] \in Bios
      BY <1>0, <1>c DEF Allocated
    <3>4. PendingSeen'
      BY <1>b, <3>1 DEF PendingSeen, Pending
    <3>5. NoLostWakeup'
      BY <1>b, <3>1, <3>2, <3>3 DEF NoLostWakeup, Incoming
    <3> QED BY <3>4, <3>5 DEF WakeInv
  <2> QED BY <1>1, <2>1, <2>2, <2>3, <2>4 DEF Submit
<1>2. ASSUME NEW f \in Files, Open(f) \/ Release(f) PROVE WakeInv'
  <2>1. CASE Open(f)
    BY <2>1, NoNewSleeper DEF Open
  <2>2. CASE Release(f)
    <3>1. /\ incoming_bio_list' = incoming_bio_list \o pending_bio_list
          /\ pending_bio_list' = << >>
          /\ UNCHANGED <<bioOf, submit, reader_queue, pc, seen>>
      BY <2>2 DEF Release
    <3>2. Incoming' = Incoming \cup Pending
      BY <1>0, <3>1, RangeConcatenation DEF Incoming, Pending
    <3>3. Pending' = {}
      BY <3>1 DEF Pending, Range
    <3> QED BY <1>b, <3>1, <3>2, <3>3 DEF WakeInv, NoLostWakeup, PendingSeen
  <2> QED BY <1>2, <2>1, <2>2
<1>3. ASSUME NEW c \in Clients, Thread(c) PROVE WakeInv'
  <2>1. CASE DeliverHeader(c)
    <3> DEFINE e == Head(incoming_bio_list)
    <3>1. /\ incoming_bio_list # << >>
          /\ incoming_bio_list' = Tail(incoming_bio_list)
          /\ pending_bio_list' = Append(pending_bio_list, e)
          /\ seen' = seen \cup {bioOf[e]}
          /\ reader_queue' = reader_queue \ {c} /\ pc' = [pc EXCEPT ![c] = "user"]
          /\ UNCHANGED <<bioOf, submit>>
      BY <2>1 DEF DeliverHeader, GoTo
    <3>2. e \in Entries /\ Incoming' \subseteq Incoming
      BY <1>0, <1>a, <3>1, TailProperties, HeadTailProperties DEF EachBioOnce, Incoming
    <3> HIDE DEF e
    <3>3. Pending' = Pending \cup {e}
      BY <1>0, <3>1, <3>2, RangeAppend DEF Pending
    <3>4. PendingSeen'
      BY <1>b, <3>1, <3>3 DEF PendingSeen
    <3>5. NoLostWakeup'
      BY <1>0, <1>b, <3>1, <3>2 DEF NoLostWakeup
    <3> QED BY <3>4, <3>5 DEF WakeInv
  <2>2. CASE Complete(c)
    <3> DEFINE e == ent[c]
    <3>1. /\ pending_bio_list' = RemoveFirst(pending_bio_list, e)
          /\ incoming_bio_list' = RemoveFirst(incoming_bio_list, e)
          /\ reader_queue' = reader_queue /\ pc' = [pc EXCEPT ![c] = "free"]
          /\ UNCHANGED <<bioOf, submit, seen>>
      BY <2>2 DEF Complete, GoTo
    <3> HIDE DEF e
    <3>2. Incoming' = Incoming \ {e} /\ Pending' = Pending \ {e}
      BY <1>0, <1>a, <3>1, RemoveFirstProperties DEF EachBioOnce, Incoming, Pending
    <3>4. PendingSeen'
      BY <1>b, <3>1, <3>2 DEF PendingSeen
    <3>5. NoLostWakeup'
      BY <1>0, <1>b, <3>1, <3>2 DEF NoLostWakeup
    <3> QED BY <3>4, <3>5 DEF WakeInv
  <2>3. CASE FindEmpty(c)
    <3>1. /\ incoming_bio_list = << >>
          /\ UNCHANGED <<incoming_bio_list, pending_bio_list, bioOf, seen>>
      BY <2>3 DEF FindEmpty
    <3>2. Incoming' = {} /\ PendingSeen'
      BY <1>b, <3>1 DEF Incoming, Pending, Range, PendingSeen
    <3> QED BY <3>2 DEF WakeInv, NoLostWakeup
  <2>4. CASE ReadRequest(c) \/ Poll(c) \/ Awaken(c) \/ Interrupt(c) \/ ReportReadable(c)
    <3>1. \A d \in Clients \ {c} : /\ pc'[d] = pc[d]
                                   /\ d \in reader_queue' => d \in reader_queue
      BY <1>0, <2>4 DEF ReadRequest, Poll, PrepareToWait, Awaken, Interrupt,
                        ReportReadable, GoTo
    <3>2. pc'[c] \notin {"rd_sleep", "po_sleep"}
      BY <1>0, <2>4 DEF ReadRequest, Poll, PrepareToWait, Awaken, Interrupt,
                        ReportReadable, GoTo
    <3>3. UNCHANGED <<incoming_bio_list, pending_bio_list, bioOf, seen, submit>>
      BY <2>4 DEF ReadRequest, Poll, PrepareToWait, Awaken, Interrupt, ReportReadable
    <3>4. reader_queue' \subseteq Clients
      BY <1>0, <2>4 DEF ReadRequest, Poll, PrepareToWait, Awaken, Interrupt,
                        ReportReadable
    <3> QED BY <3>1, <3>2, <3>3, <3>4, NoNewSleeper
  <2>5. CASE \/ SetRequest(c) \/ (\E op \in DataOps : FetchCurrent(c, op))
             \/ Transfer(c) \/ UseMapping(c) \/ Unmap(c)
             \/ UseStaleEntry(c) \/ UnlinkUnlocked(c) \/ CompleteAgain(c)
    <3>1. /\ UNCHANGED <<incoming_bio_list, pending_bio_list, bioOf, seen, submit>>
          /\ reader_queue' = reader_queue
      BY <2>5
      DEF SetRequest, FetchCurrent, Transfer, ReadData, WriteData, TransferFails, MapData,
          UseMapping, Unmap, UseStaleEntry, UnlinkUnlocked, CompleteAgain
    <3>2. \A d \in Clients :
            pc'[d] \in {"rd_sleep", "po_sleep"} => pc[d] \in {"rd_sleep", "po_sleep"}
      BY <1>0, <2>5
      DEF SetRequest, FetchCurrent, Transfer, ReadData, WriteData, TransferFails, MapData,
          UseMapping, Unmap, UseStaleEntry, UnlinkUnlocked, CompleteAgain, Return, GoTo,
          DataOps
    <3> QED BY <1>0, <3>1, <3>2, NoNewSleeper
  <2>6. CASE FreeEntry(c)
    <3>1. /\ UNCHANGED <<incoming_bio_list, pending_bio_list, seen, submit, reader_queue>>
          /\ pc' = [pc EXCEPT ![c] = "user"]
          /\ \A e \in Incoming \cup Pending : bioOf'[e] = bioOf[e]
      BY <1>0, <1>c, <2>6, FreeEntryLists DEF FreeEntry, Return, GoTo
    <3>2. PendingSeen'
      BY <1>b, <3>1 DEF PendingSeen, Pending
    <3>3. NoLostWakeup'
      BY <1>0, <1>b, <3>1 DEF NoLostWakeup, Incoming
    <3> QED BY <3>2, <3>3 DEF WakeInv
  <2> QED
    BY <1>3, <2>1, <2>2, <2>3, <2>4, <2>5, <2>6 DEF Thread, Header, Finish
<1>4. CASE UNCHANGED vars
  BY <1>4, NoNewSleeper DEF vars
<1> QED BY <1>1, <1>2, <1>3, <1>4 DEF Next

\* A thread that sleeps while an unread bio is queued is about to be woken.
THEOREM WakeupsDelivered == Spec => []NoLostWakeup
<1>1. WakeInv => NoLostWakeup
  BY DEF WakeInv
<1> QED BY <1>1, InitWake, NextWake, RequestsConserved, PTL DEF Spec
-----------------------------------------------------------------------------
(* The order in which requests reach user space. *)

ArrivedBefore(a, b) == \E i, j \in DOMAIN arrived : i < j /\ arrived[i] = a /\ arrived[j] = b

\* Every bio arrives once, what waits has arrived, and what is read was there.
History ==
  /\ IsInjective(arrived)
  /\ Unanswered \subseteq Range(arrived)
  /\ \A b \in Range(arrived) \cup seen : bio[b] # "new"

\* Entries whose bios nobody has read are on the incoming list in order of arrival.
\* What a release appends has been read (PendingSeen).
UnreadInOrder ==
  \A p, q \in DOMAIN incoming_bio_list :
    LET a == bioOf[incoming_bio_list[p]]
        b == bioOf[incoming_bio_list[q]] IN
    p < q /\ a \notin seen /\ b \notin seen => ArrivedBefore(a, b)

OrderInv == History /\ UnreadInOrder /\ FirstReadInOrder

LEMMA InitOrder == Init => OrderInv
BY DEF Init, OrderInv, History, UnreadInOrder, FirstReadInOrder, IsInjective, Range, Unanswered

LEMMA SameOrder ==
  ASSUME IInv, OrderInv, UNCHANGED <<incoming_bio_list, bioOf, arrived, seen>>,
         \A b \in Bios : bio'[b] = bio[b] \/ (bio[b] = "new" /\ bio'[b] = "eio")
  PROVE  OrderInv'
<1>1. arrived \in Seq(Bios) /\ seen \in SUBSET Bios
  BY DEF IInv, Types, TypeOK
<1> QED BY <1>1 DEF OrderInv, History, UnreadInOrder, ArrivedBefore, FirstReadInOrder, Unanswered, Range

LEMMA ArriveInOrder ==
  ASSUME IInv, OrderInv, NEW b \in Bios, MakeRequest(b)
  PROVE  OrderInv'
<1> USE DEF lists, block, calls, history
<1>0. /\ arrived \in Seq(Bios) /\ seen \in SUBSET Bios /\ incoming_bio_list \in Seq(Entries)
      /\ bio \in [Bios -> {"new", "queued", "ok", "eio"}]
  BY DEF IInv, Types, TypeOK
<1>1. /\ bio[b] = "new" /\ bio' = [bio EXCEPT ![b] = "queued"] /\ seen' = seen
      /\ arrived' = Append(arrived, b)
  BY DEF MakeRequest
<1>2. PICK e \in Entries : /\ e \notin Incoming \cup Pending
                           /\ incoming_bio_list' = Append(incoming_bio_list, e)
                           /\ \A f \in Entries : bioOf'[f] = IF f = e THEN b ELSE bioOf[f]
  BY MakeRequestLists
<1>3. b \notin Range(arrived) /\ b \notin seen
  BY <1>1 DEF OrderInv, History
<1>4. History'
  <2>1. IsInjective(arrived') /\ Range(arrived') = Range(arrived) \cup {b}
    BY <1>0, <1>1, <1>3, AppendFresh, RangeAppend DEF OrderInv, History
  <2>2. Unanswered' = Unanswered \cup {b}
    BY <1>0, <1>1 DEF Unanswered
  <2>3. Range(arrived) \subseteq Bios
    BY <1>0 DEF Range
  <2> QED BY <1>0, <1>1, <2>1, <2>2, <2>3 DEF OrderInv, History
<1>5. FirstReadInOrder'
  <2>1. Len(arrived') = Len(arrived) + 1 /\ arrived'[Len(arrived) + 1] = b
        /\ \A i \in 1 .. Len(arrived) : arrived'[i] = arrived[i] /\ arrived[i] # b
    BY <1>0, <1>1, <1>3 DEF Range
  <2>2. DOMAIN arrived = 1 .. Len(arrived) /\ DOMAIN arrived' = 1 .. Len(arrived) + 1
        /\ Len(arrived) \in Nat
    BY <1>0, <1>1
  <2>3. \A i \in 1 .. Len(arrived) : bio'[arrived[i]] = bio[arrived[i]]
    BY <1>0, <1>1, <2>1
  <2> QED BY <1>1, <1>3, <2>1, <2>2, <2>3 DEF OrderInv, FirstReadInOrder
<1>6. UnreadInOrder'
  <2> SUFFICES ASSUME NEW p \in DOMAIN incoming_bio_list', NEW q \in DOMAIN incoming_bio_list',
                      p < q, bioOf'[incoming_bio_list'[p]] \notin seen,
                      bioOf'[incoming_bio_list'[q]] \notin seen
               PROVE  ArrivedBefore(bioOf[incoming_bio_list[p]],
                                    bioOf[incoming_bio_list[q]])'
    BY <1>1 DEF UnreadInOrder
  <2>1. /\ DOMAIN incoming_bio_list = 1 .. Len(incoming_bio_list) /\ Len(incoming_bio_list) \in Nat
        /\ DOMAIN incoming_bio_list' = 1 .. Len(incoming_bio_list) + 1
        /\ incoming_bio_list'[Len(incoming_bio_list) + 1] = e
        /\ \A i \in 1 .. Len(incoming_bio_list) :
             /\ incoming_bio_list'[i] = incoming_bio_list[i]
             /\ incoming_bio_list[i] \in Incoming
    BY <1>0, <1>2 DEF Incoming, Range
  <2>2. \A f \in Incoming : bioOf'[f] = bioOf[f] /\ bioOf[f] \in Unanswered
    BY <1>2, LinkedEntries DEF Unanswered
  <2>3. /\ DOMAIN arrived' = 1 .. Len(arrived) + 1 /\ arrived'[Len(arrived) + 1] = b
        /\ DOMAIN arrived = 1 .. Len(arrived) /\ Len(arrived) \in Nat
        /\ \A i \in 1 .. Len(arrived) : arrived'[i] = arrived[i]
    BY <1>0, <1>1
  <2>4. p \in 1 .. Len(incoming_bio_list)
    BY <2>1
  <2>5. bioOf'[incoming_bio_list'[p]] = bioOf[incoming_bio_list[p]]
    BY <2>1, <2>2, <2>4
  <2>6. CASE q \in 1 .. Len(incoming_bio_list)
    <3>1. bioOf'[incoming_bio_list'[q]] = bioOf[incoming_bio_list[q]]
      BY <2>1, <2>2, <2>6
    <3>2. ArrivedBefore(bioOf[incoming_bio_list[p]], bioOf[incoming_bio_list[q]])
      BY <2>1, <2>4, <2>5, <2>6, <3>1 DEF OrderInv, UnreadInOrder
    <3>3. PICK i \in 1 .. Len(arrived), j \in 1 .. Len(arrived) :
            /\ i < j /\ arrived[i] = bioOf[incoming_bio_list[p]]
            /\ arrived[j] = bioOf[incoming_bio_list[q]]
      BY <2>3, <3>2 DEF ArrivedBefore
    <3> QED BY <2>3, <2>5, <3>1, <3>3 DEF ArrivedBefore
  <2>7. CASE q = Len(incoming_bio_list) + 1
    <3>1. bioOf'[incoming_bio_list'[q]] = b
      BY <1>2, <2>1, <2>7
    <3>2. bioOf[incoming_bio_list[p]] \in Range(arrived)
      BY <2>1, <2>2, <2>4 DEF OrderInv, History
    <3>3. PICK i \in 1 .. Len(arrived) : arrived[i] = bioOf[incoming_bio_list[p]]
      BY <2>3, <3>2 DEF Range
    <3> QED BY <2>3, <2>5, <3>1, <3>3 DEF ArrivedBefore
  <2> QED BY <2>1, <2>6, <2>7
<1> QED BY <1>4, <1>5, <1>6 DEF OrderInv

LEMMA ReadInOrder ==
  ASSUME IInv, WakeInv, OrderInv, NEW c \in Clients, DeliverHeader(c)
  PROVE  OrderInv'
<1> USE DEF lists, block, calls, history
<1> DEFINE l == incoming_bio_list
           h == bioOf[Head(l)]
<1>0. /\ arrived \in Seq(Bios) /\ l \in Seq(Entries)
  BY DEF IInv, Types, TypeOK
<1>1. /\ l # <<>> /\ l' = Tail(l) /\ seen' = seen \cup {h}
      /\ UNCHANGED <<bioOf, bio, arrived>>
  BY DEF DeliverHeader
<1>2. /\ Len(l) \in Nat \ {0} /\ DOMAIN l = 1 .. Len(l) /\ Head(l) = l[1]
      /\ DOMAIN l' = 1 .. Len(l) - 1 /\ \A p \in DOMAIN l' : l'[p] = l[p + 1]
  BY <1>0, <1>1
<1>3. h \in Bios /\ bio[h] = "queued"
  BY DeliverHeaderLists, LinkedEntries
<1>4. History'
  BY <1>1, <1>3 DEF OrderInv, History, Unanswered, Range
<1>5. UnreadInOrder'
  <2> SUFFICES ASSUME NEW p \in DOMAIN l', NEW q \in DOMAIN l', p < q,
                      bioOf[l'[p]] \notin seen, bioOf[l'[q]] \notin seen
               PROVE  ArrivedBefore(bioOf[l'[p]], bioOf[l'[q]])
    BY <1>1 DEF UnreadInOrder, ArrivedBefore
  <2>1. p + 1 \in DOMAIN l /\ q + 1 \in DOMAIN l /\ p + 1 < q + 1
    BY <1>2
  <2> QED BY <1>2, <2>1 DEF OrderInv, UnreadInOrder
<1>6. FirstReadInOrder'
  <2> SUFFICES ASSUME NEW i \in DOMAIN arrived, NEW j \in DOMAIN arrived, i < j,
                      arrived[j] = h, h \notin seen, arrived[i] \notin seen,
                      arrived[i] # h, bio[arrived[i]] = "queued"
               PROVE  FALSE
    BY <1>1 DEF OrderInv, FirstReadInOrder
  <2>1. arrived[i] \in Unanswered
    BY <1>0 DEF Unanswered
  <2>2. PICK f \in Incoming \cup Pending : bioOf[f] = arrived[i]
    BY <2>1 DEF IInv, EachBioOnce
  <2>3. f \in Incoming /\ f # Head(l)
    BY <2>2 DEF WakeInv, PendingSeen
  <2>4. PICK q \in DOMAIN l : l[q] = f
    BY <2>3 DEF Incoming, Range
  <2>5. 1 \in DOMAIN l /\ 1 < q
    BY <1>2, <2>3, <2>4
  <2>6. ArrivedBefore(h, arrived[i])
    BY <1>2, <2>2, <2>4, <2>5 DEF OrderInv, UnreadInOrder
  <2>7. PICK x \in DOMAIN arrived, y \in DOMAIN arrived :
          x < y /\ arrived[x] = h /\ arrived[y] = arrived[i]
    BY <2>6 DEF ArrivedBefore
  <2>8. x = j /\ y = i
    BY <2>7 DEF OrderInv, History, IsInjective
  <2> QED BY <1>0, <2>7, <2>8
<1> QED BY <1>4, <1>5, <1>6 DEF OrderInv

LEMMA ReleaseInOrder ==
  ASSUME IInv, WakeInv, OrderInv, NEW f \in Files, Release(f)
  PROVE  OrderInv'
<1> USE DEF lists, block, calls, history
<1> DEFINE l == incoming_bio_list
           r == pending_bio_list
<1>0. arrived \in Seq(Bios) /\ l \in Seq(Entries) /\ r \in Seq(Entries)
  BY DEF IInv, Types, TypeOK
<1>1. l' = l \o r /\ UNCHANGED <<bioOf, bio, arrived, seen>>
  BY DEF Release
<1>2. /\ Len(l) \in Nat /\ Len(r) \in Nat /\ DOMAIN l = 1 .. Len(l)
      /\ DOMAIN r = 1 .. Len(r) /\ DOMAIN l' = 1 .. Len(l) + Len(r)
      /\ \A p \in 1 .. Len(l) : l'[p] = l[p]
      /\ \A p \in Len(l) + 1 .. Len(l) + Len(r) : l'[p] = r[p - Len(l)]
  BY <1>0, <1>1
<1>3. \A p \in Len(l) + 1 .. Len(l) + Len(r) : bioOf[l'[p]] \in seen
  <2> SUFFICES ASSUME NEW p \in Len(l) + 1 .. Len(l) + Len(r)
               PROVE  bioOf[l'[p]] \in seen
    OBVIOUS
  <2>1. p - Len(l) \in DOMAIN r /\ l'[p] = r[p - Len(l)]
    BY <1>2
  <2>2. l'[p] \in Pending
    BY <2>1 DEF Pending, Range
  <2> QED BY <2>2 DEF WakeInv, PendingSeen
<1>4. UnreadInOrder'
  <2> SUFFICES ASSUME NEW p \in DOMAIN l', NEW q \in DOMAIN l', p < q,
                      bioOf'[l'[p]] \notin seen, bioOf'[l'[q]] \notin seen
               PROVE  ArrivedBefore(bioOf'[l'[p]], bioOf'[l'[q]])
    <3>1. \A a, b : ArrivedBefore(a, b)' <=> ArrivedBefore(a, b)
      BY <1>1 DEF ArrivedBefore
    <3> QED BY <1>1, <3>1 DEF UnreadInOrder
  <2>1. p \in DOMAIN l /\ q \in DOMAIN l
    BY <1>1, <1>2, <1>3
  <2> QED BY <1>1, <1>2, <2>1 DEF OrderInv, UnreadInOrder
<1>5. History' /\ FirstReadInOrder'
  BY <1>1 DEF OrderInv, History, FirstReadInOrder, Unanswered, Range
<1> QED BY <1>4, <1>5 DEF OrderInv

LEMMA CompleteInOrder ==
  ASSUME IInv, OrderInv, NEW c \in Clients, Complete(c)
  PROVE  OrderInv'
<1> USE DEF lists, block, calls, history
<1> DEFINE l == incoming_bio_list
<1>0. /\ arrived \in Seq(Bios) /\ seen \in SUBSET Bios /\ l \in Seq(Entries)
      /\ bio \in [Bios -> {"new", "queued", "ok", "eio"}]
      /\ Range(arrived) \subseteq Bios
  BY DEF IInv, Types, TypeOK, Range
<1>1. /\ l' = RemoveFirst(l, ent[c]) /\ UNCHANGED <<arrived, seen>>
      /\ bio' = [bio EXCEPT ![CurrentBio(c)] = Answer(pc[c])]
  BY DEF Complete, AnswerBio
<1>2. \A b \in Bios : bio'[b] = bio[b] \/ bio'[b] \in {"ok", "eio"}
  BY <1>0, <1>1 DEF Answer
<1>3. History'
  BY <1>0, <1>1, <1>2 DEF OrderInv, History, Unanswered
<1>4. FirstReadInOrder'
  <2>1. \A i \in DOMAIN arrived : arrived[i] \in Bios
    BY <1>0
  <2> QED BY <1>1, <1>2, <2>1 DEF OrderInv, FirstReadInOrder
<1>5. UnreadInOrder'
  <2> SUFFICES ASSUME NEW p \in DOMAIN l', NEW q \in DOMAIN l', p < q,
                      bioOf'[l'[p]] \notin seen, bioOf'[l'[q]] \notin seen
               PROVE  ArrivedBefore(bioOf'[l'[p]], bioOf'[l'[q]])
    BY <1>1 DEF UnreadInOrder, ArrivedBefore
  <2>1. l' \in Seq(Entries) /\ DOMAIN l' = 1 .. Len(l')
    BY <1>0, <1>1, RemoveFirstType
  <2>2. PICK x \in 1 .. Len(l), y \in 1 .. Len(l) : x < y /\ l[x] = l'[p] /\ l[y] = l'[q]
    BY <1>0, <1>1, <2>1, RemoveFirstOrder
  <2>3. l'[p] \in Incoming' /\ l'[q] \in Incoming' /\ l'[p] \in Entries /\ l'[q] \in Entries
    BY <2>1 DEF Incoming, Range
  <2>4. bioOf'[l'[p]] = bioOf[l'[p]] /\ bioOf'[l'[q]] = bioOf[l'[q]]
    BY <2>3, CompleteLists
  <2>5. x \in DOMAIN l /\ y \in DOMAIN l
    BY <1>0
  <2> QED BY <2>2, <2>4, <2>5 DEF OrderInv, UnreadInOrder
<1> QED BY <1>3, <1>4, <1>5 DEF OrderInv

LEMMA FreeInOrder ==
  ASSUME IInv, OrderInv, NEW c \in Clients, FreeEntry(c)
  PROVE  OrderInv'
<1> DEFINE l == incoming_bio_list
<1>1. UNCHANGED <<l, bio, arrived, seen>>
  BY DEF FreeEntry, block, history
<1>2. \A p \in DOMAIN l : bioOf'[l[p]] = bioOf[l[p]]
  <2>1. \A p \in DOMAIN l : l[p] \in Incoming /\ l[p] \in Entries
    BY LinkedEntries DEF Incoming, Range
  <2> QED BY <2>1, FreeEntryLists
<1>3. UnreadInOrder'
  BY <1>1, <1>2 DEF OrderInv, UnreadInOrder, ArrivedBefore
<1>4. History' /\ FirstReadInOrder'
  BY <1>1 DEF OrderInv, History, FirstReadInOrder, Unanswered
<1> QED BY <1>3, <1>4 DEF OrderInv

LEMMA AgainInOrder ==
  ASSUME IInv, OrderInv, NEW c \in Clients, CompleteAgain(c)
  PROVE  OrderInv'
<1>1. UNCHANGED <<incoming_bio_list, bioOf, arrived, seen>>
  BY DEF CompleteAgain, lists, history
<1>2. /\ bio \in [Bios -> {"new", "queued", "ok", "eio"}] /\ seen \subseteq Bios
      /\ Range(arrived) \subseteq Bios /\ \A i \in DOMAIN arrived : arrived[i] \in Bios
  BY DEF IInv, Types, TypeOK, Range
<1>3. /\ \A b \in Bios : bio'[b] = bio[b] \/ bio'[b] \in {"ok", "eio"}
      /\ Unanswered' = Unanswered
  BY <1>2, AgainUnanswered DEF CompleteAgain, AnswerBio, Answer
<1>4. UnreadInOrder'
  BY <1>1 DEF OrderInv, UnreadInOrder, ArrivedBefore
<1>5. History'
  BY <1>1, <1>2, <1>3 DEF OrderInv, History
<1>6. FirstReadInOrder'
  BY <1>1, <1>2, <1>3 DEF OrderInv, FirstReadInOrder
<1> QED BY <1>4, <1>5, <1>6 DEF OrderInv

LEMMA NextOrder == IInv /\ WakeInv /\ OrderInv /\ [Next]_vars => OrderInv'
<1> SUFFICES ASSUME IInv, WakeInv, OrderInv, [Next]_vars PROVE OrderInv'
  OBVIOUS
<1> USE DEF lists, block, calls, history
<1>0. /\ arrived \in Seq(Bios) /\ seen \in SUBSET Bios
      /\ bio \in [Bios -> {"new", "queued", "ok", "eio"}]
  BY DEF IInv, Types, TypeOK
<1>1. ASSUME NEW b \in Bios, Submit(b) PROVE OrderInv'
  <2>1. CASE RefuseRequest(b)
    BY <1>0, <2>1, SameOrder DEF RefuseRequest
  <2>2. CASE WakeReaders(b) \/ CountRequest(b)
    BY <1>0, <2>2, SameOrder DEF WakeReaders, CountRequest
  <2> QED BY <1>1, <2>1, <2>2, ArriveInOrder DEF Submit
<1>2. ASSUME NEW f \in Files, Open(f) PROVE OrderInv'
  BY <1>0, <1>2, SameOrder DEF Open
<1>3. ASSUME NEW c \in Clients, Thread(c) PROVE OrderInv'
  <2>1. CASE DeliverHeader(c)
    BY <2>1, ReadInOrder
  <2>2. CASE Complete(c)
    BY <2>2, CompleteInOrder
  <2>3. CASE FreeEntry(c) \/ CompleteAgain(c)
    BY <2>3, FreeInOrder, AgainInOrder
  <2>4. CASE QuietThread(c)
    <3>1. UNCHANGED <<incoming_bio_list, bioOf, arrived, seen, bio>>
      BY <2>4, QuietThreadKeeps DEF IInv, Types
    <3> QED BY <1>0, <3>1, SameOrder
  <2> QED BY <1>3, <2>1, <2>2, <2>3, <2>4, ThreadCases
<1>4. CASE UNCHANGED vars
  BY <1>0, <1>4, SameOrder DEF vars
<1> QED BY <1>1, <1>2, <1>3, <1>4, ReleaseInOrder DEF Next

\* When a bio has been read, every bio queued before it has been read or answered:
\* neither a release nor a completion nor any interleaving of readers changes that.
THEOREM ReadsInOrder == Spec => []FirstReadInOrder
<1>1. OrderInv => FirstReadInOrder
  BY DEF OrderInv
<1> QED
  BY <1>1, InitWake, NextWake, InitOrder, NextOrder, RequestsConserved, PTL DEF Spec
-----------------------------------------------------------------------------
(* The tunnel implements the queue with a set-aside list. *)

\* The instance's list operators are those of this module.
LEMMA QueueOperators ==
  ASSUME NEW s
  PROVE  /\ Queue!Range(s) = Range(s)
         /\ \A e : Queue!RemoveFirst(s, e) = RemoveFirst(s, e)
<1>1. Queue!Range(s) = Range(s)
  BY DEF Queue!Range, Range
<1>2. \A S : Queue!Min(S) = Min(S)
  BY DEF Queue!Min, Min
<1>3. \A e : Queue!RemoveFirst(s, e) = RemoveFirst(s, e)
  BY <1>2 DEF Queue!RemoveFirst, RemoveFirst, Queue!SelectInSeq, SelectInSeq,
              Queue!RemoveAt, RemoveAt
<1> QED BY <1>1, <1>3

LEMMA NextQueue == IInv /\ [Next]_vars => [Queue!Next]_(Queue!lists)
<1> SUFFICES ASSUME IInv, [Next]_vars PROVE Queue!Next \/ UNCHANGED Queue!lists
  OBVIOUS
<1> USE DEF lists, block, calls, history
<1>0. ASSUME UNCHANGED <<incoming_bio_list, pending_bio_list>> PROVE UNCHANGED Queue!lists
  BY <1>0 DEF Queue!lists
<1>1. ASSUME NEW b \in Bios, Submit(b) PROVE Queue!Next \/ UNCHANGED Queue!lists
  <2>1. CASE MakeRequest(b)
    <3>1. PICK e \in Entries : /\ e \notin Incoming \cup Pending
                               /\ incoming_bio_list' = Append(incoming_bio_list, e)
      BY <2>1, MakeRequestLists
    <3>2. pending_bio_list' = pending_bio_list
      BY <2>1 DEF MakeRequest
    <3>3. Queue!Put(e)
      BY <3>1, <3>2, QueueOperators DEF Queue!Put, Incoming, Pending
    <3> QED BY <3>3 DEF Queue!Next
  <2>2. CASE RefuseRequest(b) \/ WakeReaders(b) \/ CountRequest(b)
    BY <1>0, <2>2 DEF RefuseRequest, WakeReaders, CountRequest
  <2> QED BY <1>1, <2>1, <2>2 DEF Submit
<1>2. ASSUME NEW f \in Files, Open(f) \/ Release(f) PROVE Queue!Next \/ UNCHANGED Queue!lists
  <2>1. CASE Release(f)
    BY <2>1 DEF Release, Queue!GiveBack, Queue!Next
  <2> QED BY <1>0, <1>2, <2>1 DEF Open
<1>3. ASSUME NEW c \in Clients, Thread(c) PROVE Queue!Next \/ UNCHANGED Queue!lists
  <2>1. CASE DeliverHeader(c)
    BY <2>1 DEF DeliverHeader, Queue!Take, Queue!Next
  <2>2. CASE Complete(c)
    <3>1. ent[c] \in Entries /\ ent[c] \in Incoming \cup Pending /\ Incoming \cap Pending = {}
      BY <2>2, CompleteLists, LinkedEntries
    <3>2. /\ incoming_bio_list' = RemoveFirst(incoming_bio_list, ent[c])
          /\ pending_bio_list' = RemoveFirst(pending_bio_list, ent[c])
      BY <2>2 DEF Complete
    <3>3. /\ ent[c] \notin Incoming => incoming_bio_list' = incoming_bio_list
          /\ ent[c] \notin Pending => pending_bio_list' = pending_bio_list
      BY <3>2 DEF RemoveFirst, Incoming, Pending, Range
    <3>4. Queue!Drop(ent[c])
      BY <3>1, <3>2, <3>3, QueueOperators DEF Queue!Drop, Incoming, Pending
    <3> QED BY <3>1, <3>4 DEF Queue!Next
  <2>3. CASE FreeEntry(c) \/ CompleteAgain(c)
    BY <1>0, <2>3 DEF FreeEntry, CompleteAgain
  <2>4. CASE QuietThread(c)
    BY <1>0, <2>4, QuietThreadKeeps DEF IInv, Types
  <2> QED BY <1>3, <2>1, <2>2, <2>3, <2>4, ThreadCases
<1> QED BY <1>0, <1>1, <1>2, <1>3 DEF Next, vars

\* Whatever the threads do, every step of the tunnel is one move of the queue, or none.
THEOREM ListsImplemented == Spec => ListsSpec
<1>1. Init => Queue!Init
  BY DEF Init, Queue!Init
<1> QED
  BY <1>1, NextQueue, RequestsConserved, PTL DEF Spec, ListsSpec, Queue!Spec
=============================================================================
