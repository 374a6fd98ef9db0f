------------------------- MODULE BdtunBackendProofs -------------------------
(***************************************************************************)
(* Proofs about BdtunBackend, for one process with any number of threads   *)
(* that fails a request with a byte that is not zero, any number of bios   *)
(* and addresses, and crashes at any time.                                 *)
(*                                                                         *)
(* Every step of the processes is a step of the tunnel, so what            *)
(* BdtunTunnelProofs shows of all threads holds of disciplined ones.       *)
(***************************************************************************)
EXTENDS BdtunBackend, BdtunTunnelProofs

\* All threads share the one file of the tunnel.  Another file's release() puts
\* requests back that this process has in hand.
OneProcess == \A f, g \in Files : f = g

\* bdtun_fail_request() itself writes a zero.
FailsHonestly == FailByte # 0

-----------------------------------------------------------------------------
(* The inductive invariant. *)

Stages == {"idle", "have", "set", "move", "moved", "end", "done"}

\* From TakeLock to End a thread holds its process's lock.
Locked == {"set", "move", "moved", "end", "done"}

BTypes ==
  /\ stage \in [Clients -> Stages]
  /\ lock \in [Files -> Clients \cup {NULL}]
  /\ judged \in [Bios -> {"none", "ok", "eio"}]

LockOfHolder == \A c \in Clients : stage[c] \in Locked <=> lock[FileOf[c]] = c

\* The system call a thread is in is one of its stage's, and the entry it has
\* fetched is that of its own request.
CallOfStage ==
  \A c \in Clients :
    /\ stage[c] = "idle" => pc[c] \in {"user", "rd_check", "rd_sleep"}
    /\ stage[c] \in {"have", "set", "moved"} => pc[c] = "user"
    /\ stage[c] = "move" => pc[c] \in {"user", "rd_data", "wr_data", "mmap"}
    /\ stage[c] = "end" => pc[c] \in {"end_ok", "end_eio"}
    /\ stage[c] = "done" => pc[c] = "free"
    /\ pc[c] \in DataOps => ent[c] = req[c].id

\* A thread maps nothing but the pages of its own request.
MapsOwn ==
  \A c \in Clients : mapped[c] # NoBio =>
    stage[c] \in {"move", "moved"} /\ mapped[c] = req[c].bio

HandInv ==
  /\ BTypes /\ LockOfHolder /\ CallOfStage /\ MapsOwn
  /\ NoFault /\ Ownership /\ CurrentIsOwn

\* The end a transfer copies from keeps its content.
SourcesKept ==
  \A b \in Bios : IF Dir[b] = "WRITE" THEN pages[b] = b ELSE disk[b] = b

\* When a thread says that it has moved the data, it has.
MovedIsMoved ==
  \A c \in Clients :
    stage[c] = "moved" \/ (stage[c] = "end" /\ pc[c] = "end_ok")
      => Service!Moved(req[c].bio)

DataInv == SourcesKept /\ MovedIsMoved

\* The operation a thread completes with stands for its verdict.
VerdictInHand ==
  /\ \A c \in Clients : stage[c] = "end" => judged[req[c].bio] = Answer(pc[c])
  /\ \A b \in Bios : bio[b] = "new" => judged[b] = "none"

VerdictInv == VerdictInHand /\ AnswerIsVerdict

BInv == HandInv /\ DataInv /\ VerdictInv
-----------------------------------------------------------------------------
(* The processes only do what threads may do. *)

\* A step of the processes, their library or the block layer is one of the tunnel.
LEMMA StepsBelow == [BNext]_bvars => [Next]_vars
<1> SUFFICES ASSUME [BNext]_bvars PROVE [Next]_vars
  OBVIOUS
<1>1. ASSUME fault = "none", NEW c \in Clients, Serve(c)
      PROVE  Thread(c) \/ UNCHANGED vars
  <2>1. CASE GetRequest(c)
    BY <2>1 DEF GetRequest, Thread, Header
  <2>2. CASE TakeLock(c)
    BY <2>2 DEF TakeLock
  <2>3. CASE ChooseRequest(c)
    BY <2>3 DEF ChooseRequest, Thread
  <2>4. CASE MoveData(c)
    BY <2>4 DEF MoveData, Thread, Transfer, DataOps
  <2>5. CASE MoveByMapping(c)
    BY <2>5 DEF MoveByMapping, Thread
  <2>6. ASSUME NEW v \in {"ok", "eio"}, Judge(c, v) PROVE Thread(c)
    BY <2>6 DEF Judge, CompletionOp, Thread, DataOps
  <2>7. CASE Finishes(c) \/ End(c) \/ GoWrong(c)
    BY <2>7 DEF Finishes, End, GoWrong, Thread, Finish
  <2> QED BY <1>1, <2>1, <2>2, <2>3, <2>4, <2>5, <2>6, <2>7 DEF Serve
<1>2. CASE BNext
  <2>1. ASSUME NEW b \in Bios, Kernel(b) PROVE Submit(b)
    BY <2>1 DEF Kernel
  <2>2. ASSUME NEW f \in Files, Start(f) \/ Die(f) PROVE Open(f) \/ Release(f)
    BY <2>2 DEF Start, Die
  <2> QED BY <1>1, <1>2, <2>1, <2>2 DEF BNext, Next
<1> QED BY <1>2 DEF bvars

\* Drivers that follow the rules of the library are drivers of the tunnel.
LEMMA DriversAreThreads == BSpec => Spec
<1>1. BInit => Init
  BY DEF BInit
<1> QED BY <1>1, StepsBelow, PTL DEF BSpec, Spec

\* So the tunnel's invariant holds of them.
LEMMA TunnelBelow == BSpec => []IInv
BY DriversAreThreads, RequestsConserved, PTL
-----------------------------------------------------------------------------
(* What a thread has in hand is safe. *)

USE DEF Stages, Locked

LEMMA InitHand == BInit => HandInv
BY TunnelAssumption, BackendAssumption
DEF BInit, Init, HandInv, BTypes, LockOfHolder, CallOfStage, MapsOwn, NoFault, Ownership,
    InHand, CurrentIsOwn, DataOps

\* The variables as functions, and one lock for all threads.
LEMMA HandTypes ==
  ASSUME OneProcess, IInv, HandInv
  PROVE  /\ req \in [Clients -> [id : Entries, bio : Bios] \cup {NoReq}]
         /\ pc \in [Clients -> Places]
         /\ ent \in [Clients -> Entries \cup {NULL}]
         /\ mapped \in [Clients -> Bios \cup {NoBio}]
         /\ bioOf \in [Entries -> Bios \cup {NoBio}]
         /\ stage \in [Clients -> Stages]
         /\ lock \in [Files -> Clients \cup {NULL}]
         /\ \A c, d \in Clients : FileOf[c] \in Files /\ FileOf[c] = FileOf[d]
BY TunnelAssumption DEF OneProcess, IInv, Types, TypeOK, HandInv, BTypes

\* The request in a thread's hand is one that was read, and unanswered.
LEMMA RequestInHand ==
  ASSUME IInv, HandInv, NEW c \in Clients, InHand(c)
  PROVE  /\ req[c] \in [id : Entries, bio : Bios] /\ req[c] # NoReq
         /\ req[c].id \in Pending /\ req[c].id \notin Incoming
         /\ Allocated(req[c].id) /\ bioOf[req[c].id] = req[c].bio
         /\ bio[req[c].bio] = "queued"
<1>1. req[c].id \in Pending /\ bioOf[req[c].id] = req[c].bio
  BY DEF HandInv, Ownership
<1>2. req[c] # NoReq
  BY <1>1, LinkedEntries, TunnelAssumption DEF NoReq
<1> QED BY <1>1, <1>2, LinkedEntries DEF IInv, Types, TypeOK

\* A thread that works on the data-current request has its process's lock, so
\* there is one such thread at most.
LEMMA OneHolder ==
  ASSUME OneProcess, IInv, HandInv, NEW c \in Clients, NEW d \in Clients,
         stage[c] \in Locked, stage[d] \in Locked
  PROVE  c = d
BY HandTypes DEF HandInv, LockOfHolder

\* The entry of a call is linked until the call itself completes it.
LEMMA NothingWrong ==
  ASSUME IInv, HandInv, NEW c \in Clients
  PROVE  ~ GoWrong(c)
<1> SUFFICES ASSUME GoWrong(c) PROVE FALSE
  OBVIOUS
<1>1. pc[c] \in DataOps
  BY DEF GoWrong, UseStaleEntry, UnlinkUnlocked, CompleteAgain, AnswerBio, DataOps
<1>2. InHand(c) /\ ent[c] = req[c].id
  BY <1>1 DEF HandInv, CallOfStage, InHand, BTypes, DataOps
<1>3. ent[c] \in Linked /\ ent[c] \notin Incoming
  BY <1>2, RequestInHand DEF Linked
<1> QED BY <1>3 DEF GoWrong, UseStaleEntry, UnlinkUnlocked, CompleteAgain

\* An operation of thread c that moves nothing, and leaves ids and entries alone.
LEMMA QuietServe ==
  ASSUME OneProcess, IInv, HandInv, fault = "none", NEW c \in Clients, Serve(c),
         ~ DeliverHeader(c), ~ Complete(c), ~ FreeEntry(c)
  PROVE  HandInv'
<1> USE DEF lists, block, calls, history
<1>0. /\ BTypes /\ LockOfHolder /\ CallOfStage /\ MapsOwn
      /\ NoFault /\ Ownership /\ CurrentIsOwn
  BY DEF HandInv
<1>1. CASE GetRequest(c)
  BY <1>0, <1>1, HandTypes
  DEF GetRequest, At, ReadRequest, PrepareToWait, FindEmpty, Awaken, Interrupt, GoTo,
      HandInv, BTypes, LockOfHolder, CallOfStage, MapsOwn, NoFault, Ownership, InHand,
      CurrentIsOwn, DataOps, Pending
<1>2. CASE TakeLock(c)
  BY <1>0, <1>2, HandTypes, BackendAssumption
  DEF TakeLock, At, GoOn, vars,
      HandInv, BTypes, LockOfHolder, CallOfStage, MapsOwn, NoFault, Ownership, InHand,
      CurrentIsOwn, DataOps, Pending
<1>3. CASE ChooseRequest(c)
  BY <1>0, <1>3, HandTypes, OneHolder
  DEF ChooseRequest, SetRequest, InUser, At, GoOn,
      HandInv, BTypes, LockOfHolder, CallOfStage, MapsOwn, NoFault, Ownership, InHand,
      CurrentIsOwn, DataOps, Pending
<1>4. CASE MoveData(c)
  BY <1>0, <1>4, HandTypes
  DEF MoveData, FetchCurrent, InUser, ReadData, WriteData, MapData, TransferFails, Return,
      GoTo, CurrentBio, At, GoOn,
      HandInv, BTypes, LockOfHolder, CallOfStage, MapsOwn, NoFault, Ownership, InHand,
      CurrentIsOwn, DataOps, Pending
<1>5. CASE MoveByMapping(c)
  BY <1>0, <1>5, HandTypes
  DEF MoveByMapping, UseMapping, Unmap, InUser, At, GoOn,
      HandInv, BTypes, LockOfHolder, CallOfStage, MapsOwn, NoFault, Ownership, InHand,
      CurrentIsOwn, DataOps, Pending
<1>6. ASSUME NEW v \in {"ok", "eio"}, Judge(c, v) PROVE HandInv'
  <2>1. PICK op \in {"end_ok", "end_eio"} : FetchCurrent(c, op)
    BY <1>6 DEF Judge, CompletionOp
  <2>2. /\ stage[c] \in {"move", "moved"} /\ mapped[c] = NoBio
        /\ stage' = [stage EXCEPT ![c] = "end"]
        /\ judged' = [judged EXCEPT ![req[c].bio] = v]
        /\ lock' = lock
    BY <1>6 DEF Judge, GoOn
  <2>3. /\ pc' = [pc EXCEPT ![c] = op] /\ ent' = [ent EXCEPT ![c] = req[c].id]
        /\ UNCHANGED <<lists, req, mapped, fault>>
    BY <1>0, <2>1, <2>2 DEF FetchCurrent, GoTo, CurrentIsOwn
  <2>4. BTypes' /\ LockOfHolder'
    BY <1>0, <2>2, HandTypes DEF BTypes, LockOfHolder
  <2>5. CallOfStage' /\ MapsOwn'
    BY <1>0, <2>2, <2>3, HandTypes DEF CallOfStage, MapsOwn, DataOps
  <2>6. NoFault' /\ Ownership' /\ CurrentIsOwn'
    BY <1>0, <2>2, <2>3, HandTypes DEF NoFault, Ownership, CurrentIsOwn, InHand, Pending
  <2> QED BY <2>4, <2>5, <2>6 DEF HandInv
<1>7. CASE GoWrong(c)
  BY <1>7, NothingWrong
<1>8. CASE Finishes(c) \/ End(c)
  BY <1>8 DEF Finishes, End
<1> QED BY <1>1, <1>2, <1>3, <1>4, <1>5, <1>6, <1>7, <1>8 DEF Serve

\* A thread gets the request it reads for itself: what is pending is another
\* thread's or nobody's, what it takes was not pending.
LEMMA DeliverKeepsHand ==
  ASSUME OneProcess, IInv, HandInv, fault = "none", NEW c \in Clients, Serve(c),
         DeliverHeader(c)
  PROVE  HandInv'
<1> USE DEF lists, block, calls, history
<1> DEFINE e == Head(incoming_bio_list)
<1>0. /\ BTypes /\ LockOfHolder /\ CallOfStage /\ MapsOwn
      /\ NoFault /\ Ownership /\ CurrentIsOwn
  BY DEF HandInv
<1>1. /\ pc[c] = "rd_check" /\ pc' = [pc EXCEPT ![c] = "user"]
      /\ req' = [req EXCEPT ![c] = [id |-> e, bio |-> bioOf[e]]]
      /\ UNCHANGED <<data_current_bio, bioOf, ent, mapped, fault, bio>>
  BY DEF DeliverHeader, GoTo
<1>2. e \notin Pending /\ Pending' = Pending \cup {e}
  BY DeliverHeaderLists
<1> HIDE DEF e
<1>3. stage[c] = "idle"
  BY <1>0, <1>1, HandTypes DEF CallOfStage
<1>4. /\ stage' = [stage EXCEPT ![c] = "have"] /\ UNCHANGED <<lock, judged>>
  <2>1. GetRequest(c) \/ GoWrong(c)
    BY <1>3 DEF Serve, TakeLock, ChooseRequest, MoveData, MoveByMapping, Judge, Finishes, End, At
  <2>2. ~ GoWrong(c)
    BY NothingWrong
  <2>3. pending_bio_list' # pending_bio_list
    BY <1>2 DEF Pending
  <2>4. ~ (ReadRequest(c) \/ FindEmpty(c) \/ Awaken(c) \/ Interrupt(c))
    BY <2>3 DEF ReadRequest, PrepareToWait, FindEmpty, Awaken, Interrupt
  <2> QED BY <2>1, <2>2, <2>4 DEF GetRequest, GoOn
<1>5. BTypes' /\ LockOfHolder'
  BY <1>0, <1>3, <1>4, HandTypes DEF BTypes, LockOfHolder
<1>6. CallOfStage' /\ MapsOwn'
  BY <1>0, <1>1, <1>3, <1>4, HandTypes DEF CallOfStage, MapsOwn, DataOps
<1>7. Ownership'
  BY <1>0, <1>1, <1>2, <1>4, HandTypes DEF Ownership, InHand
<1>8. NoFault' /\ CurrentIsOwn'
  BY <1>0, <1>1, <1>3, <1>4, HandTypes DEF NoFault, CurrentIsOwn
<1> QED BY <1>5, <1>6, <1>7, <1>8 DEF HandInv

\* A thread completes its own request, and nobody has another thread's in hand.
LEMMA CompleteKeepsHand ==
  ASSUME OneProcess, IInv, HandInv, fault = "none", NEW c \in Clients, Serve(c),
         Complete(c)
  PROVE  HandInv'
<1> USE DEF lists, block, calls, history
<1>0. /\ BTypes /\ LockOfHolder /\ CallOfStage /\ MapsOwn
      /\ NoFault /\ Ownership /\ CurrentIsOwn
  BY DEF HandInv
<1>1. /\ pc[c] \in {"end_ok", "end_eio"} /\ pc' = [pc EXCEPT ![c] = "free"]
      /\ UNCHANGED <<data_current_bio, bioOf, ent, req, mapped, fault>>
  BY DEF Complete, AnswerBio, GoTo
<1>2. stage[c] = "end" /\ ent[c] = req[c].id /\ InHand(c)
  BY <1>0, <1>1, HandTypes DEF CallOfStage, DataOps, InHand
<1>3. Pending' = Pending \ {req[c].id}
  BY <1>2, CompleteLists
<1>4. stage' = [stage EXCEPT ![c] = "done"] /\ UNCHANGED <<lock, judged>>
  <2>1. Finishes(c) \/ GoWrong(c)
    BY <1>2 DEF Serve, GetRequest, TakeLock, ChooseRequest, MoveData, MoveByMapping, Judge,
                End, At
  <2> QED BY <2>1, NothingWrong DEF Finishes, GoOn
<1>5. BTypes'
  BY <1>0, <1>4, HandTypes DEF BTypes
<1>6. LockOfHolder'
  BY <1>0, <1>2, <1>4, HandTypes DEF LockOfHolder
<1>7. CallOfStage' /\ MapsOwn'
  BY <1>0, <1>1, <1>2, <1>4, HandTypes DEF CallOfStage, MapsOwn, DataOps
<1>8. Ownership'
  <2> SUFFICES ASSUME NEW d \in Clients, InHand(d)'
               PROVE  /\ req[d].id \in Pending'
                      /\ bioOf[req[d].id] = req[d].bio
                      /\ \A g \in Clients \ {d} : InHand(g)' => req[g].id # req[d].id
    BY <1>1 DEF Ownership
  <2>1. \A g \in Clients : InHand(g)' => g # c /\ InHand(g)
    BY <1>4, HandTypes DEF InHand
  <2>2. req[d].id # req[c].id
    BY <1>0, <1>2, <2>1 DEF Ownership
  <2> QED BY <1>0, <1>3, <2>1, <2>2 DEF Ownership
<1>9. NoFault' /\ CurrentIsOwn'
  BY <1>0, <1>1, <1>2, <1>4, HandTypes DEF NoFault, CurrentIsOwn
<1> QED BY <1>5, <1>6, <1>7, <1>8, <1>9 DEF HandInv

\* The entry a thread frees is in nobody's hand; it lets go of the lock.
LEMMA FreeKeepsHand ==
  ASSUME OneProcess, IInv, HandInv, fault = "none", NEW c \in Clients, Serve(c),
         FreeEntry(c)
  PROVE  HandInv'
<1> USE DEF lists, block, calls, history
<1>0. /\ BTypes /\ LockOfHolder /\ CallOfStage /\ MapsOwn
      /\ NoFault /\ Ownership /\ CurrentIsOwn
  BY DEF HandInv
<1>1. /\ pc[c] = "free" /\ pc' = [pc EXCEPT ![c] = "user"]
      /\ ent' = [ent EXCEPT ![c] = NULL]
      /\ UNCHANGED <<data_current_bio, req, mapped, fault>>
  BY DEF FreeEntry, Return, GoTo
<1>2. stage[c] = "done"
  BY <1>0, <1>1, HandTypes DEF CallOfStage
<1>3. Pending' = Pending /\ \A e \in Pending : bioOf'[e] = bioOf[e]
  BY FreeEntryLists, LinkedEntries DEF Pending
<1>4. /\ stage' = [stage EXCEPT ![c] = "idle"] /\ judged' = judged
      /\ lock' = [lock EXCEPT ![FileOf[c]] = NULL]
  <2>1. End(c) \/ GoWrong(c)
    BY <1>2 DEF Serve, GetRequest, TakeLock, ChooseRequest, MoveData, MoveByMapping, Judge,
                Finishes, At
  <2> QED BY <2>1, NothingWrong DEF End, GoOn
<1>5. BTypes'
  BY <1>0, <1>4, HandTypes DEF BTypes
<1>6. LockOfHolder'
  BY <1>0, <1>2, <1>4, HandTypes, OneHolder, BackendAssumption DEF LockOfHolder
<1>7. CallOfStage' /\ MapsOwn'
  BY <1>0, <1>1, <1>2, <1>4, HandTypes DEF CallOfStage, MapsOwn, DataOps
<1>8. Ownership'
  <2>1. \A d \in Clients : InHand(d)' => InHand(d)
    BY <1>4, HandTypes DEF InHand
  <2> QED BY <1>0, <1>1, <1>3, <2>1 DEF Ownership
<1>9. NoFault' /\ CurrentIsOwn'
  BY <1>0, <1>1, <1>4, HandTypes DEF NoFault, CurrentIsOwn
<1> QED BY <1>5, <1>6, <1>7, <1>8, <1>9 DEF HandInv

LEMMA NextHand ==
  ASSUME OneProcess, IInv, HandInv, [BNext]_bvars
  PROVE  HandInv'
<1> USE DEF lists, block, calls, history
<1>0. /\ BTypes /\ LockOfHolder /\ CallOfStage /\ MapsOwn
      /\ NoFault /\ Ownership /\ CurrentIsOwn
  BY DEF HandInv
<1>1. ASSUME NEW c \in Clients, fault = "none", Serve(c) PROVE HandInv'
  BY <1>1, QuietServe, DeliverKeepsHand, CompleteKeepsHand, FreeKeepsHand
<1>2. ASSUME NEW b \in Bios, Kernel(b) PROVE HandInv'
  <2>1. UNCHANGED <<stage, lock, judged, data_current_bio, pc, ent, req, mapped, fault>>
    BY <1>2 DEF Kernel, Submit, MakeRequest, RefuseRequest, WakeReaders, CountRequest
  <2>2. Pending' = Pending /\ \A e \in Pending : bioOf'[e] = bioOf[e]
    <3>1. CASE MakeRequest(b)
      BY <3>1, MakeRequestLists, LinkedEntries
    <3>2. CASE ~ MakeRequest(b)
      BY <1>2, <3>2 DEF Kernel, Submit, RefuseRequest, WakeReaders, CountRequest, Pending
    <3> QED BY <3>1, <3>2
  <2>3. Ownership'
    BY <1>0, <2>1, <2>2 DEF Ownership, InHand
  <2> QED
    BY <1>0, <2>1, <2>3
    DEF HandInv, BTypes, LockOfHolder, CallOfStage, MapsOwn, NoFault, CurrentIsOwn
<1>3. ASSUME NEW f \in Files, Start(f) PROVE HandInv'
  BY <1>0, <1>3
  DEF Start, Open, HandInv, BTypes, LockOfHolder, CallOfStage, MapsOwn, NoFault, Ownership,
      InHand, CurrentIsOwn, Pending
<1>4. ASSUME NEW f \in Files, Die(f) PROVE HandInv'
  <2>1. /\ \A c \in Clients : c \in ThreadsOf(f)
        /\ \A c \in Clients : FileOf[c] = f
    BY TunnelAssumption DEF OneProcess, ThreadsOf
  <2>2. /\ \A c \in Clients : stage'[c] = "idle" /\ mapped'[c] = NoBio /\ pc'[c] = "user"
        /\ lock' = [lock EXCEPT ![f] = NULL]
        /\ stage' \in [Clients -> {"idle"}]
        /\ UNCHANGED <<judged, fault>>
    BY <1>4, <2>1 DEF Die, Release
  <2> QED
    BY <1>0, <2>1, <2>2, BackendAssumption
    DEF HandInv, BTypes, LockOfHolder, CallOfStage, MapsOwn, NoFault, Ownership, InHand,
        CurrentIsOwn, DataOps
<1>5. CASE UNCHANGED bvars
  BY <1>0, <1>5
  DEF bvars, vars, HandInv, BTypes, LockOfHolder, CallOfStage, MapsOwn, NoFault, Ownership,
      InHand, CurrentIsOwn, Pending
<1> QED BY <1>1, <1>2, <1>3, <1>4, <1>5 DEF BNext

\* The threads of one process are safe, however it dies and starts again.
THEOREM HandsSafe == OneProcess => (BSpec => []HandInv)
<1> SUFFICES ASSUME OneProcess PROVE BSpec => []HandInv
  OBVIOUS
<1>1. IInv /\ HandInv /\ [BNext]_bvars => HandInv'
  BY NextHand
<1> QED BY <1>1, InitHand, TunnelBelow, PTL DEF BSpec
\* No thread uses a freed entry, or unlinks one without the lock of its list.
THEOREM FaultFree == OneProcess => (BSpec => []NoFault)
<1>1. HandInv => NoFault
  BY DEF HandInv
<1> QED BY <1>1, HandsSafe, PTL

\* A thread owns the request it has read until it completes it.
THEOREM RequestsOwned == OneProcess => (BSpec => []Ownership)
<1>1. HandInv => Ownership
  BY DEF HandInv
<1> QED BY <1>1, HandsSafe, PTL

\* No thread of the process finds an entry between list_del() and kfree(), so every
\* answer stands.
THEOREM AnswersNeverChange == OneProcess => (BSpec => AnswersStand)
<1> SUFFICES ASSUME OneProcess PROVE BSpec => AnswersStand
  OBVIOUS
<1>1. IInv /\ HandInv /\ HandInv' /\ [BNext]_bvars => [AnswersStay]_bvars
  <2> SUFFICES ASSUME IInv, HandInv', [BNext]_bvars PROVE AnswersStay
    OBVIOUS
  <2>1. AnswersStay \/ fault' = "unlinked"
    BY StepsBelow, StepKeepsAnswers
  <2> QED BY <2>1 DEF HandInv, NoFault
<1> QED BY <1>1, HandsSafe, TunnelBelow, PTL DEF BSpec, AnswersStand

\* The data-current request is that of the thread that moves data or completes.
THEOREM CurrentOwned == OneProcess => (BSpec => []CurrentIsOwn)
<1>1. HandInv => CurrentIsOwn
  BY DEF HandInv
<1> QED BY <1>1, HandsSafe, PTL

-----------------------------------------------------------------------------
(* Data moves between the two ends of the right bio. *)

\* The whole content of a bio goes from where it comes from to the other end.
MovesWhole(b) ==
  IF Dir[b] = "READ" THEN pages' = [pages EXCEPT ![b] = b] /\ disk' = disk
                     ELSE disk' = [disk EXCEPT ![b] = b] /\ pages' = pages

\* A copy breaks off half way.
Spoils(b) ==
  IF Dir[b] = "READ" THEN pages' = [pages EXCEPT ![b] = NoBio] /\ disk' = disk
                     ELSE disk' = [disk EXCEPT ![b] = NoBio] /\ pages' = pages

\* A thread moves the data of its own request alone, and goes on only when the
\* content has moved.
LEMMA MovesOwnData ==
  ASSUME OneProcess, IInv, HandInv, SourcesKept, NEW c \in Clients, Serve(c)
  PROVE  \/ /\ UNCHANGED <<pages, disk>>
            /\ stage'[c] = "moved" => stage[c] = "moved"
         \/ /\ stage[c] = "move" /\ stage'[c] = "moved"
            /\ MovesWhole(req[c].bio) /\ UNCHANGED <<bio, req>>
         \/ /\ stage[c] = "move" /\ stage'[c] = "move"
            /\ Spoils(req[c].bio) /\ UNCHANGED <<bio, req>>
<1> USE DEF lists, block, calls, history
<1> DEFINE b == req[c].bio
<1>0. CallOfStage /\ MapsOwn
  BY DEF HandInv
<1>a. /\ pages \in [Bios -> Bios \cup {NoBio}] /\ disk \in [Bios -> Bios \cup {NoBio}]
      /\ Dir \in [Bios -> Rw] /\ stage \in [Clients -> Stages]
  BY HandTypes, TunnelAssumption DEF IInv, Types, TypeOK
<1>b. ASSUME InHand(c) PROVE b \in Bios /\ bioOf[req[c].id] = b
  BY <1>b, RequestInHand
<1>1. CASE MoveData(c)
  <2>1. stage[c] = "move" /\ b \in Bios /\ bioOf[req[c].id] = b
    BY <1>1, <1>b DEF MoveData, At, InHand
  <2>2. ASSUME pc[c] \in {"rd_data", "wr_data", "mmap"} PROVE CurrentBio(c) = b
    BY <1>0, <2>1, <2>2 DEF CallOfStage, CurrentBio, DataOps
  <2>3. CASE /\ (\E op \in {"rd_data", "wr_data", "mmap"} : FetchCurrent(c, op)) \/ MapData(c)
             /\ UNCHANGED stage
    BY <2>3 DEF FetchCurrent, MapData
  <2>4. CASE ReadData(c) /\ GoOn(c, "moved")
    <3>1. Dir[b] = "WRITE" /\ disk' = [disk EXCEPT ![b] = pages[b]] /\ pages' = pages
      BY <2>2, <2>4 DEF ReadData, ToUser
    <3>2. MovesWhole(b)
      BY <2>1, <3>1 DEF MovesWhole, SourcesKept
    <3> QED BY <1>a, <2>1, <2>4, <3>2 DEF ReadData, GoOn
  <2>5. CASE WriteData(c) /\ GoOn(c, "moved")
    <3>1. Dir[b] = "READ" /\ pages' = [pages EXCEPT ![b] = disk[b]] /\ disk' = disk
      BY <2>2, <2>5 DEF WriteData, FromUser
    <3>2. MovesWhole(b)
      BY <2>1, <3>1 DEF MovesWhole, SourcesKept
    <3> QED BY <1>a, <2>1, <2>5, <3>2 DEF WriteData, GoOn
  <2>6. CASE TransferFails(c) /\ UNCHANGED stage
    <3>1. UNCHANGED <<bio, req>> /\ (UNCHANGED <<pages, disk>> \/ Spoils(b))
      BY <2>2, <2>6 DEF TransferFails, Spoils
    <3> QED BY <2>1, <2>6, <3>1
  <2> QED BY <1>1, <2>3, <2>4, <2>5, <2>6 DEF MoveData
<1>2. CASE MoveByMapping(c)
  <2>1. CASE stage[c] = "move" /\ UseMapping(c) /\ GoOn(c, "moved")
    <3>1. b \in Bios /\ mapped[c] = b
      BY <1>0, <1>b, <2>1 DEF UseMapping, MapsOwn, InHand
    <3>2. MovesWhole(b)
      BY <1>a, <2>1, <3>1 DEF UseMapping, FromUser, ToUser, MovesWhole, SourcesKept, Rw
    <3> QED BY <1>a, <2>1, <3>2 DEF UseMapping, GoOn
  <2>2. CASE Unmap(c) /\ UNCHANGED stage
    BY <2>2 DEF Unmap
  <2> QED BY <1>2, <2>1, <2>2 DEF MoveByMapping, At
<1>3. CASE GetRequest(c)
  BY <1>a, <1>3 DEF GetRequest, At, GoOn, DeliverHeader, ReadRequest, PrepareToWait, FindEmpty,
                    Awaken, Interrupt
<1>4. CASE TakeLock(c) \/ ChooseRequest(c)
  BY <1>a, <1>4 DEF TakeLock, ChooseRequest, SetRequest, At, GoOn, vars
<1>5. CASE (\E v \in {"ok", "eio"} : Judge(c, v)) \/ Finishes(c) \/ End(c)
  BY <1>a, <1>5 DEF Judge, FetchCurrent, Finishes, Complete, End, FreeEntry, GoOn
<1> QED BY <1>1, <1>2, <1>3, <1>4, <1>5, NothingWrong DEF Serve

\* What a step of one thread leaves of the others, and of its own request.
LEMMA ServeFrame ==
  ASSUME OneProcess, IInv, HandInv, fault = "none", NEW c \in Clients, Serve(c)
  PROVE  /\ \A d \in Clients \ {c} :
              stage'[d] = stage[d] /\ pc'[d] = pc[d] /\ req'[d] = req[d]
         /\ InHand(c) => req' = req
         /\ \/ UNCHANGED <<bio, judged>>
            \/ Finishes(c)
            \/ \E v \in {"ok", "eio"} : Judge(c, v) /\ bio' = bio
<1> USE HandTypes DEF lists, block, calls, history, GoOn, At, GoTo, Return
<1>1. CASE GetRequest(c)
  BY <1>1 DEF GetRequest, DeliverHeader, ReadRequest, PrepareToWait, FindEmpty, Awaken,
              Interrupt, InHand
<1>2. CASE TakeLock(c) \/ ChooseRequest(c)
  BY <1>2 DEF TakeLock, ChooseRequest, SetRequest, vars
<1>3. CASE MoveData(c)
  BY <1>3 DEF MoveData, FetchCurrent, ReadData, WriteData, MapData, TransferFails
<1>4. CASE MoveByMapping(c)
  BY <1>4 DEF MoveByMapping, UseMapping, Unmap
<1>5. ASSUME NEW v \in {"ok", "eio"}, Judge(c, v)
      PROVE  /\ \A d \in Clients \ {c} :
                  stage'[d] = stage[d] /\ pc'[d] = pc[d] /\ req'[d] = req[d]
             /\ req' = req /\ bio' = bio
  BY <1>5 DEF Judge, FetchCurrent
<1>6. CASE Finishes(c) \/ End(c)
  BY <1>6 DEF Finishes, Complete, End, FreeEntry
<1> QED BY <1>1, <1>2, <1>3, <1>4, <1>5, <1>6, NothingWrong DEF Serve

\* Two threads have different bios in hand.
LEMMA BiosInHandDiffer ==
  ASSUME IInv, HandInv, NEW c \in Clients, NEW d \in Clients, InHand(c), InHand(d), c # d
  PROVE  req[c].bio # req[d].bio
<1>1. req[c].id # req[d].id
  BY DEF HandInv, Ownership
<1>2. \A t \in {c, d} : /\ req[t].id \in Entries /\ Allocated(req[t].id)
                        /\ bioOf[req[t].id] = req[t].bio
  BY RequestInHand
<1> QED BY <1>1, <1>2 DEF IInv, EachBioOnce

LEMMA InitData == BInit => DataInv
BY TunnelAssumption DEF BInit, Init, DataInv, SourcesKept, MovedIsMoved, Rw

LEMMA NextData ==
  ASSUME OneProcess, FailsHonestly, IInv, HandInv, HandInv', DataInv, [BNext]_bvars
  PROVE  DataInv'
<1> USE DEF lists, block, calls, history
<1>0. SourcesKept /\ MovedIsMoved
  BY DEF DataInv
<1>a. /\ pages \in [Bios -> Bios \cup {NoBio}] /\ disk \in [Bios -> Bios \cup {NoBio}]
      /\ Dir \in [Bios -> Rw]
  BY TunnelAssumption DEF IInv, Types, TypeOK
<1>1. ASSUME NEW c \in Clients, fault = "none", Serve(c) PROVE DataInv'
  <2> DEFINE b == req[c].bio
  <2>1. SourcesKept'
    <3>1. ASSUME stage[c] = "move" PROVE b \in Bios
      BY <3>1, RequestInHand DEF InHand
    <3>2. CASE UNCHANGED <<pages, disk>>
      BY <1>0, <3>2 DEF SourcesKept
    <3>3. CASE stage[c] = "move" /\ MovesWhole(b)
      BY <1>0, <1>a, <3>1, <3>3 DEF SourcesKept, MovesWhole, Rw
    <3>4. CASE stage[c] = "move" /\ Spoils(b)
      BY <1>0, <1>a, <3>1, <3>4 DEF SourcesKept, Spoils, Rw
    <3> QED BY <1>0, <1>1, <3>2, <3>3, <3>4, MovesOwnData
  <2>2. ASSUME NEW d \in Clients, d # c,
               stage'[d] = "moved" \/ (stage'[d] = "end" /\ pc'[d] = "end_ok")
        PROVE  pages'[req'[d].bio] = req'[d].bio /\ disk'[req'[d].bio] = req'[d].bio
    <3>1. /\ req'[d] = req[d] /\ InHand(d) /\ req[d].bio \in Bios
          /\ pages[req[d].bio] = req[d].bio /\ disk[req[d].bio] = req[d].bio
      BY <1>0, <1>1, <2>2, ServeFrame, RequestInHand DEF MovedIsMoved, InHand, Service!Moved
    <3>2. stage[c] = "move" => b # req[d].bio /\ b \in Bios
      BY <2>2, <3>1, BiosInHandDiffer, RequestInHand DEF InHand
    <3> QED BY <1>0, <1>1, <1>a, <3>1, <3>2, MovesOwnData DEF MovesWhole, Spoils
  <2>3. ASSUME stage'[c] = "moved" \/ (stage'[c] = "end" /\ pc'[c] = "end_ok")
        PROVE  pages'[req'[c].bio] = req'[c].bio /\ disk'[req'[c].bio] = req'[c].bio
    <3>1. CASE stage'[c] = "moved"
      <4>1. CASE stage[c] = "move"
        <5>1. req' = req /\ b \in Bios /\ MovesWhole(b)
          BY <1>0, <1>1, <3>1, <4>1, MovesOwnData, ServeFrame, RequestInHand DEF InHand
        <5> QED BY <1>0, <1>a, <5>1 DEF MovesWhole, SourcesKept, Rw
      <4>2. CASE stage[c] # "move"
        <5>1. UNCHANGED <<pages, disk>> /\ stage[c] = "moved"
          BY <1>0, <1>1, <3>1, <4>2, MovesOwnData
        <5> QED BY <1>0, <1>1, <5>1, ServeFrame DEF MovedIsMoved, InHand, Service!Moved
      <4> QED BY <4>1, <4>2
    <3>2. CASE stage'[c] = "end" /\ pc'[c] = "end_ok"
      <4>1. PICK v \in {"ok", "eio"} : Judge(c, v)
        <5>1. stage[c] # "end"
          <6> SUFFICES ASSUME stage[c] = "end" PROVE FALSE
            OBVIOUS
          <6>1. Finishes(c)
            BY <1>1, NothingWrong DEF Serve, GetRequest, TakeLock, ChooseRequest, MoveData,
                                      MoveByMapping, Judge, End, At
          <6> QED BY <3>2, <6>1, HandTypes DEF Finishes, GoOn
        <5>2. ~ (GetRequest(c) \/ TakeLock(c) \/ ChooseRequest(c) \/ MoveData(c)
                 \/ MoveByMapping(c) \/ Finishes(c) \/ End(c))
          BY <3>2, <5>1, HandTypes
          DEF GetRequest, TakeLock, ChooseRequest, MoveData, MoveByMapping, Finishes, End,
              GoOn, At
        <5> QED BY <1>1, <5>2, NothingWrong DEF Serve
      <4>2. pc'[c] = CompletionOp(IF v = "ok" THEN 0 ELSE FailByte)
        BY <4>1, HandTypes DEF Judge, FetchCurrent, GoTo
      <4>3. v = "ok"
        BY <3>2, <4>2 DEF CompletionOp, FailsHonestly
      <4>4. stage[c] = "moved" /\ UNCHANGED <<pages, disk, req>>
        BY <4>1, <4>3 DEF Judge, At, FetchCurrent
      <4> QED BY <1>0, <4>4 DEF MovedIsMoved, Service!Moved
    <3> QED BY <2>3, <3>1, <3>2
  <2> QED BY <2>1, <2>2, <2>3 DEF DataInv, MovedIsMoved, Service!Moved
<1>2. ASSUME NEW b \in Bios, Kernel(b) PROVE DataInv'
  BY <1>0, <1>2
  DEF Kernel, Submit, MakeRequest, RefuseRequest, WakeReaders, CountRequest, DataInv,
      SourcesKept, MovedIsMoved, Service!Moved
<1>3. ASSUME NEW f \in Files, Start(f) PROVE DataInv'
  BY <1>0, <1>3 DEF Start, Open, DataInv, SourcesKept, MovedIsMoved, Service!Moved
<1>4. ASSUME NEW f \in Files, Die(f) PROVE DataInv'
  <2>1. UNCHANGED <<pages, disk>> /\ \A c \in Clients : stage'[c] = "idle"
    BY <1>4, TunnelAssumption DEF Die, Release, OneProcess, ThreadsOf
  <2> QED BY <1>0, <2>1 DEF DataInv, SourcesKept, MovedIsMoved
<1>5. CASE UNCHANGED bvars
  BY <1>0, <1>5 DEF bvars, vars, DataInv, SourcesKept, MovedIsMoved, Service!Moved
<1> QED BY <1>1, <1>2, <1>3, <1>4, <1>5 DEF BNext
-----------------------------------------------------------------------------
(* The block layer is told what the thread decided. *)

LEMMA InitVerdict == BInit => VerdictInv
BY DEF BInit, Init, VerdictInv, VerdictInHand, AnswerIsVerdict

LEMMA NextVerdict ==
  ASSUME OneProcess, FailsHonestly, IInv, HandInv, HandInv', VerdictInv, [BNext]_bvars
  PROVE  VerdictInv'
<1> USE DEF lists, block, calls, history
<1>0. VerdictInHand /\ AnswerIsVerdict
  BY DEF VerdictInv
<1>a. /\ bio \in [Bios -> {"new", "queued", "ok", "eio"}]
      /\ judged \in [Bios -> {"none", "ok", "eio"}]
  BY DEF IInv, Types, TypeOK, HandInv, BTypes
<1>1. ASSUME NEW c \in Clients, fault = "none", Serve(c) PROVE VerdictInv'
  <2>1. ASSUME NEW v \in {"ok", "eio"}, Judge(c, v), bio' = bio PROVE VerdictInv'
    <3>1. /\ stage[c] \in {"move", "moved"} /\ stage' = [stage EXCEPT ![c] = "end"]
          /\ judged' = [judged EXCEPT ![req[c].bio] = v] /\ req' = req
          /\ pc' = [pc EXCEPT ![c] = CompletionOp(IF v = "ok" THEN 0 ELSE FailByte)]
      BY <2>1 DEF Judge, GoOn, FetchCurrent, GoTo
    <3>2. req[c].bio \in Bios /\ bio[req[c].bio] = "queued"
      BY <3>1, RequestInHand DEF InHand
    <3>3. Answer(pc'[c]) = v
      BY <3>1, HandTypes DEF Answer, CompletionOp, FailsHonestly
    <3>4. \A d \in Clients : stage'[d] = "end" => d = c
      BY <3>1, OneHolder, HandTypes
    <3>5. VerdictInHand'
      BY <1>0, <1>a, <2>1, <3>1, <3>2, <3>3, <3>4 DEF VerdictInHand
    <3>6. AnswerIsVerdict'
      BY <1>0, <1>a, <2>1, <3>1, <3>2 DEF AnswerIsVerdict
    <3> QED BY <3>5, <3>6 DEF VerdictInv
  <2>2. CASE Finishes(c)
    <3>1. /\ stage[c] = "end" /\ stage' = [stage EXCEPT ![c] = "done"]
          /\ judged' = judged /\ req' = req
          /\ bio' = [bio EXCEPT ![CurrentBio(c)] = Answer(pc[c])]
          /\ pc[c] \in {"end_ok", "end_eio"} /\ pc' = [pc EXCEPT ![c] = "free"]
      BY <2>2 DEF Finishes, At, GoOn, Complete, AnswerBio, GoTo
    <3>2. CurrentBio(c) = req[c].bio /\ req[c].bio \in Bios
      BY <3>1, RequestInHand DEF InHand, HandInv, CallOfStage, DataOps, CurrentBio
    <3>3. judged[req[c].bio] = Answer(pc[c])
      BY <1>0, <3>1 DEF VerdictInHand
    <3>4. VerdictInHand'
      BY <1>0, <1>a, <3>1, <3>2, HandTypes DEF VerdictInHand, Answer
    <3>5. AnswerIsVerdict'
      BY <1>0, <1>a, <3>1, <3>2, <3>3 DEF AnswerIsVerdict
    <3> QED BY <3>4, <3>5 DEF VerdictInv
  <2>3. CASE UNCHANGED <<bio, judged>> /\ ~ \E v \in {"ok", "eio"} : Judge(c, v)
    <3>1. stage'[c] = "end" => stage[c] = "end" /\ pc'[c] = pc[c]
      BY <1>1, <2>3, HandTypes, NothingWrong
      DEF Serve, GetRequest, TakeLock, ChooseRequest, MoveData, MoveByMapping, Finishes, End,
          At, GoOn
    <3>2. VerdictInHand'
      BY <1>0, <1>1, <2>3, <3>1, ServeFrame DEF VerdictInHand, InHand
    <3> QED BY <1>0, <2>3, <3>2 DEF VerdictInv, AnswerIsVerdict
  <2> QED BY <1>1, <2>1, <2>2, <2>3, ServeFrame
<1>2. ASSUME NEW b \in Bios, Kernel(b) PROVE VerdictInv'
  <2>1. UNCHANGED <<stage, judged, req, pc>>
    BY <1>2 DEF Kernel, Submit, MakeRequest, RefuseRequest, WakeReaders, CountRequest
  <2>2. \/ bio' = bio
        \/ bio[b] = "new" /\ bio' = [bio EXCEPT ![b] = "queued"]
        \/ bio[b] = "new" /\ bio' = [bio EXCEPT ![b] = "eio"]
    BY <1>2 DEF Kernel, Submit, MakeRequest, RefuseRequest, WakeReaders, CountRequest
  <2> QED BY <1>0, <1>a, <2>1, <2>2 DEF VerdictInv, VerdictInHand, AnswerIsVerdict
<1>3. ASSUME NEW f \in Files, Start(f) \/ Die(f) PROVE VerdictInv'
  <2>1. UNCHANGED <<bio, judged, req, pc>> /\ \A c \in Clients : stage'[c] \in {stage[c], "idle"}
    BY <1>3, HandTypes DEF Start, Open, Die, Release
  <2> QED BY <1>0, <2>1 DEF VerdictInv, VerdictInHand, AnswerIsVerdict
<1>4. CASE UNCHANGED bvars
  BY <1>0, <1>4 DEF bvars, vars, VerdictInv, VerdictInHand, AnswerIsVerdict
<1> QED BY <1>1, <1>2, <1>3, <1>4 DEF BNext

\* All the parts of the invariant together.
THEOREM DriverInvariant == OneProcess /\ FailsHonestly => (BSpec => []BInv)
<1> SUFFICES ASSUME OneProcess, FailsHonestly PROVE BSpec => []BInv
  OBVIOUS
<1>1. BSpec => []HandInv
  BY HandsSafe
<1>2. IInv /\ HandInv /\ HandInv' /\ DataInv /\ VerdictInv /\ [BNext]_bvars
        => DataInv' /\ VerdictInv'
  BY NextData, NextVerdict
<1>3. BInit => DataInv /\ VerdictInv
  BY InitData, InitVerdict
<1>4. BInv <=> HandInv /\ DataInv /\ VerdictInv
  BY DEF BInv
<1> QED BY <1>1, <1>2, <1>3, <1>4, TunnelBelow, PTL DEF BSpec

\* The answer of a bio is the verdict of the thread that finished it.
THEOREM VerdictsReported == OneProcess /\ FailsHonestly => (BSpec => []AnswerIsVerdict)
<1>1. BInv => AnswerIsVerdict
  BY DEF BInv, VerdictInv
<1> QED BY <1>1, DriverInvariant, PTL
-----------------------------------------------------------------------------
(* The driver and its tunnel implement the abstract service. *)

\* A step of a process, a submitter or the kernel is one step of the service, or
\* one nobody sees there.
LEMMA StepsServe ==
  ASSUME OneProcess, IInv, BInv, [BNext]_bvars
  PROVE  [Service!Next]_(Service!svars)
<1> USE DEF lists, block, calls, history, Service!svars
<1>0. HandInv /\ SourcesKept /\ MovedIsMoved
  BY DEF BInv, DataInv
<1>1. ASSUME NEW c \in Clients, fault = "none", Serve(c)
      PROVE  [Service!Next]_(Service!svars)
  <2> DEFINE b == req[c].bio
  <2>1. ASSUME stage[c] = "move", MovesWhole(b) \/ Spoils(b), bio' = bio
        PROVE  Service!Next
    <3>1. b \in Bios /\ bio[b] = "queued" /\ Dir[b] \in Rw
      BY <1>0, <2>1, RequestInHand, TunnelAssumption DEF InHand
    <3>2. Service!Move(b)
      <4> HIDE DEF b
      <4>1. CASE MovesWhole(b) /\ Dir[b] = "READ"
        BY <2>1, <3>1, <4>1 DEF MovesWhole, Service!Move
      <4>2. CASE MovesWhole(b) /\ Dir[b] = "WRITE"
        BY <2>1, <3>1, <4>2 DEF MovesWhole, Service!Move
      <4>3. CASE Spoils(b)
        BY <2>1, <3>1, <4>3 DEF Spoils, Service!Move, Rw
      <4> QED BY <2>1, <3>1, <4>1, <4>2, <4>3 DEF Rw
    <3> QED BY <3>1, <3>2 DEF Service!Next
  <2>2. CASE Finishes(c)
    <3>1. /\ stage[c] = "end" /\ pc[c] \in {"end_ok", "end_eio"} /\ UNCHANGED <<pages, disk>>
          /\ bio' = [bio EXCEPT ![CurrentBio(c)] = Answer(pc[c])]
      BY <2>2 DEF Finishes, At, Complete, AnswerBio
    <3>2. CurrentBio(c) = b /\ b \in Bios /\ bio[b] = "queued"
      BY <1>0, <3>1, RequestInHand DEF InHand, HandInv, CallOfStage, DataOps, CurrentBio
    <3>3. Answer(pc[c]) \in {"ok", "eio"} /\ (Answer(pc[c]) = "ok" => Service!Moved(b))
      BY <1>0, <3>1 DEF Answer, MovedIsMoved
    <3>4. Service!Answer(b)
      BY <3>1, <3>2, <3>3 DEF Service!Answer
    <3> QED BY <3>2, <3>4 DEF Service!Next
  <2>3. CASE UNCHANGED <<bio, pages, disk>>
    BY <2>3
  <2> QED BY <1>0, <1>1, <2>1, <2>2, <2>3, MovesOwnData, ServeFrame
<1>2. ASSUME NEW b \in Bios, Kernel(b) PROVE [Service!Next]_(Service!svars)
  <2>1. CASE MakeRequest(b)
    BY <2>1 DEF MakeRequest, Service!Submit, Service!Next
  <2>2. CASE RefuseRequest(b)
    BY <2>2 DEF RefuseRequest, Service!Refuse, Service!Next
  <2>3. CASE WakeReaders(b) \/ CountRequest(b)
    BY <2>3 DEF WakeReaders, CountRequest
  <2> QED BY <1>2, <2>1, <2>2, <2>3 DEF Kernel, Submit
<1>3. ASSUME NEW f \in Files, Start(f) \/ Die(f) PROVE [Service!Next]_(Service!svars)
  BY <1>3 DEF Start, Open, Die, Release
<1>4. CASE UNCHANGED bvars
  BY <1>4 DEF bvars, vars
<1> QED BY <1>1, <1>2, <1>3, <1>4 DEF BNext

\* However processes die and requests are read again, the block layer sees a service
\* that answers each bio once, with success only when that bio's data has moved.
THEOREM ServiceImplemented == OneProcess /\ FailsHonestly => (BSpec => ServiceSpec)
<1> SUFFICES ASSUME OneProcess, FailsHonestly PROVE BSpec => ServiceSpec
  OBVIOUS
<1>1. BSpec => []BInv
  BY DriverInvariant
<1>2. BInit => Service!Init
  BY DEF BInit, Init, Service!Init
<1>3. IInv /\ BInv /\ [BNext]_bvars => [Service!Next]_(Service!svars)
  BY StepsServe
<1> QED BY <1>1, <1>2, <1>3, TunnelBelow, PTL DEF BSpec, ServiceSpec, Service!Spec
=============================================================================
