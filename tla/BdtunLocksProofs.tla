-------------------------- MODULE BdtunLocksProofs --------------------------
(***************************************************************************)
(* Proofs about BdtunLocks, for any number of processes and entries: what  *)
(* a process has read of a list is still true when it stores the list, and *)
(* so the updates between the locks make single moves of the queue.        *)
(***************************************************************************)
EXTENDS BdtunLocks, ListFacts

Places ==
  {"idle", "su_lock", "su_add", "rd_lock", "rd_look", "rd_del", "rd_add", "rd_done",
   "re_lock", "re_both", "re_splice", "re_init", "re_done",
   "co_lock", "co_del", "co_free", "po_lock", "po_done", "cu_lock", "cu_done"}

\* Where a process has the one lock, the other, and an entry in its hands.
InIncoming ==
  {"su_add", "rd_look", "rd_del", "rd_add", "rd_done", "re_both", "re_splice", "re_init",
   "re_done", "po_done"}
InPending == {"rd_del", "rd_add", "re_splice", "re_init", "co_del", "cu_done"}
WithEntry ==
  {"su_lock", "su_add", "rd_del", "rd_add", "rd_done", "co_lock", "co_del", "co_free"}

Typed ==
  /\ incoming \in Seq(Entries) /\ pending \in Seq(Entries)
  /\ alloc \in SUBSET Entries
  /\ item \in [Procs -> Entries \cup {NULL}] /\ copy \in [Procs -> Seq(Entries)]
  /\ held \in [Locks -> Procs \cup {NULL}]
  /\ pc \in [Procs -> Places]

Owners ==
  \A p \in Procs : /\ held["incoming"] = p <=> pc[p] \in InIncoming
                   /\ held["pending"] = p <=> pc[p] \in InPending

\* What a process has read under a lock is what the list still is.
Copies ==
  \A p \in Procs :
    /\ pc[p] = "su_add" => copy[p] = incoming
    /\ pc[p] = "rd_del" => incoming # <<>> /\ item[p] = Head(incoming)
    /\ pc[p] \in {"rd_del", "rd_add", "co_del"} => copy[p] = pending
    /\ pc[p] \in WithEntry => item[p] \in Entries

LocksInv == Typed /\ Owners /\ Copies
-----------------------------------------------------------------------------
\* Two processes are never inside the same lock.
LEMMA OneInside ==
  ASSUME LocksInv, NEW p \in Procs, NEW q \in Procs, p # q
  PROVE  /\ ~(pc[p] \in InIncoming /\ pc[q] \in InIncoming)
         /\ ~(pc[p] \in InPending /\ pc[q] \in InPending)
BY DEF LocksInv, Owners

LEMMA InitLocks == Init => LocksInv
BY LocksAssumption
DEF Init, LocksInv, Typed, Owners, Copies, Locks, Places, InIncoming, InPending, WithEntry

\* An operation begins: no list and no lock changes.
LEMMA StartKeepsLocks ==
  ASSUME LocksInv, NEW p \in Procs, Start(p)
  PROVE  LocksInv'
<1> USE DEF LocksInv, Step, Takes, Reads
<1>1. Typed'
  <2>1. \A e \in Range(pending) : e \in Entries
    BY DEF Typed, Range
  <2> QED BY <2>1 DEF Typed, Places, Start, SubmitStart, ReadStart, ReleaseStart, CompleteStart, PollStart,
        CurrentStart
<1>2. Owners'
  <2>1. held' = held /\ \A q \in Procs : q # p => pc'[q] = pc[q]
    BY DEF Typed, Start, SubmitStart, ReadStart, ReleaseStart, CompleteStart, PollStart,
           CurrentStart
  <2>2. pc[p] = "idle" /\ pc'[p] \in {"su_lock", "rd_lock", "re_lock", "co_lock", "po_lock",
                                    "cu_lock"}
    BY DEF Typed, Start, SubmitStart, ReadStart, ReleaseStart, CompleteStart, PollStart,
           CurrentStart
  <2> QED BY <2>1, <2>2 DEF Owners, InIncoming, InPending
<1>3. Copies'
  <2>1. \A e \in Range(pending) : e \in Entries
    BY DEF Typed, Range
  <2> QED BY <2>1 DEF Typed, Copies, WithEntry, Start, SubmitStart, ReadStart,
         ReleaseStart, CompleteStart, PollStart, CurrentStart
<1> QED BY <1>1, <1>2, <1>3

\* A lock is taken that is free: whoever had been inside has left.
LEMMA LockKeepsLocks ==
  ASSUME LocksInv, NEW p \in Procs, Lock(p)
  PROVE  LocksInv'
<1> USE DEF LocksInv, Step, Takes, Reads, MutexLock, Lock, SubmitLock, ReadLock,
            ReadLockPending, ReleaseLock, ReleaseLockPending, CompleteLock, PollLock,
            CurrentLock
<1>1. Typed'
  <2>1. incoming # <<>> => Head(incoming) \in Entries
    BY DEF Typed
  <2>2. UNCHANGED <<incoming, pending, alloc>>
    OBVIOUS
  <2>3. item' \in [Procs -> Entries \cup {NULL}] /\ copy' \in [Procs -> Seq(Entries)]
    BY <2>1 DEF Typed
  <2>4. held' \in [Locks -> Procs \cup {NULL}] /\ pc' \in [Procs -> Places]
    BY DEF Typed, Places, Locks
  <2> QED BY <2>2, <2>3, <2>4 DEF Typed
<1>2. Owners'
  BY LocksAssumption DEF Typed, Owners, InIncoming, InPending, Locks
<1>3. Copies'
  BY DEF Typed, Copies, WithEntry
<1> QED BY <1>1, <1>2, <1>3

\* An operation runs on: a list is stored only by the one inside its lock.
LEMMA RunKeepsLocks ==
  ASSUME LocksInv, NEW p \in Procs, Run(p)
  PROVE  LocksInv'
<1> USE DEF LocksInv, Step, Takes, Reads, Return, MutexUnlock
<1> USE DEF Run, SubmitAdd, ReadNothing, ReadDel, ReadAdd, ReadUnlock, ReleaseSplice,
            ReleaseInit, ReleaseUnlock, CompleteDel, CompleteFree, CompleteElsewhere,
            PollUnlock, CurrentUnlock
<1>1. Typed'
  <2>1. RemoveFirst(copy[p], item[p]) \in Seq(Entries)
    <3>1. copy[p] \in Seq(Entries)
      BY DEF Typed
    <3> QED BY <3>1, RemoveFirstType
  <2>2. incoming # <<>> => Tail(incoming) \in Seq(Entries)
    BY DEF Typed
  <2>3. incoming \o pending \in Seq(Entries)
    BY DEF Typed
  <2>4. pc[p] \in {"su_add", "rd_add"} => Append(copy[p], item[p]) \in Seq(Entries)
    BY DEF Typed, Copies, WithEntry
  <2>5. incoming' \in Seq(Entries)
    <3>1. \/ incoming' = incoming
          \/ pc[p] = "su_add" /\ incoming' = Append(copy[p], item[p])
          \/ pc[p] = "rd_del" /\ incoming' = Tail(incoming)
          \/ incoming' = incoming \o pending
      OBVIOUS
    <3> QED BY <2>2, <2>3, <2>4, <3>1 DEF Typed, Copies
  <2>6. pending' \in Seq(Entries)
    <3>1. \/ pending' = pending
          \/ pc[p] = "rd_add" /\ pending' = Append(copy[p], item[p])
          \/ pending' = <<>>
          \/ pending' = RemoveFirst(copy[p], item[p])
      OBVIOUS
    <3>2. pending \in Seq(Entries) /\ <<>> \in Seq(Entries)
      BY DEF Typed
    <3> HIDE DEF Run, LocksInv
    <3> QED BY <2>1, <2>4, <3>1, <3>2
  <2>7. item' \in [Procs -> Entries \cup {NULL}] /\ copy' \in [Procs -> Seq(Entries)]
    <3>1. /\ item' = item \/ item' = [item EXCEPT ![p] = NULL]
          /\ copy' = copy \/ copy' = [copy EXCEPT ![p] = <<>>]
      OBVIOUS
    <3>2. item \in [Procs -> Entries \cup {NULL}] /\ copy \in [Procs -> Seq(Entries)]
      BY DEF Typed
    <3>3. <<>> \in Seq(Entries)
      OBVIOUS
    <3> HIDE DEF Run, LocksInv
    <3> QED BY <3>1, <3>2, <3>3
  <2>8. held' \in [Locks -> Procs \cup {NULL}] /\ pc' \in [Procs -> Places]
    BY DEF Typed, Places, Locks
  <2>9. alloc' \in SUBSET Entries
    BY DEF Typed
  <2> QED BY <2>5, <2>6, <2>7, <2>8, <2>9 DEF Typed
<1>2. Owners'
  BY LocksAssumption DEF Typed, Owners, InIncoming, InPending, Locks
<1>3. Copies'
  <2>1. \A q \in Procs : q # p => pc'[q] = pc[q] /\ item'[q] = item[q] /\ copy'[q] = copy[q]
    BY DEF Typed
  <2>2. ASSUME NEW q \in Procs, q # p
        PROVE  /\ pc[q] \in {"su_add", "rd_del"} => incoming' = incoming
               /\ pc[q] \in {"rd_del", "rd_add", "co_del"} => pending' = pending
    BY <2>2, OneInside DEF InIncoming, InPending
  <2>3. /\ pc'[p] = "rd_add" => pc[p] = "rd_del" /\ pending' = pending /\ copy' = copy
        /\ pc'[p] \in {"su_add", "rd_del"} => FALSE
        /\ pc'[p] = "co_del" => UNCHANGED <<pc, pending, copy>>
        /\ pc'[p] \in WithEntry => pc[p] \in WithEntry /\ item' = item
    BY DEF Typed, WithEntry
  <2> QED BY <2>1, <2>2, <2>3 DEF Copies
<1> QED BY <1>1, <1>2, <1>3

LEMMA NextLocks == LocksInv /\ [Next]_vars => LocksInv'
<1>1. ASSUME LocksInv, UNCHANGED vars PROVE LocksInv'
  BY <1>1 DEF vars, LocksInv, Typed, Owners, Copies
<1> QED BY <1>1, StartKeepsLocks, LockKeepsLocks, RunKeepsLocks DEF Next

\* Every process holds exactly the locks its place says, and what it has read of a
\* list under them is still so when it writes the list back.
THEOREM LocksGuard == Spec => []LocksInv
BY InitLocks, NextLocks, PTL DEF Spec

\* The lists stay lists of entries, and a lock belongs to a process between the lines
\* that take and drop it, for any number of processes.
THEOREM LocksTyped == Spec => []LTypeOK
<1>1. LocksInv => LTypeOK
  <2> SUFFICES ASSUME LocksInv PROVE LTypeOK
    OBVIOUS
  <2>1. \A p \in Procs : item[p] \in Entries \cup {NULL} /\ copy[p] \in Seq(Entries)
    BY DEF LocksInv, Typed
  <2> QED BY <2>1 DEF LocksInv, Typed, Owners, InIncoming, InPending, LTypeOK
<1> QED BY <1>1, LocksGuard, PTL

\* The order of the two locks leaves no cycle, for any number of processes: who holds
\* the inner lock waits for none, and who holds the outer one for the inner one alone.
THEOREM OneCanRun == Spec => []NoDeadlock
<1>1. LocksInv => NoDeadlock
  <2> SUFFICES ASSUME LocksInv, NEW p \in Busy PROVE \E q \in Busy : ~Stuck(q)
    BY DEF NoDeadlock
  <2>1. ASSUME NEW q \in Procs, pc[q] \in InPending PROVE q \in Busy /\ ~Stuck(q)
    <3>1. q \in Busy /\ Awaits(q) = "none"
      BY <2>1 DEF InPending, Busy, Awaits
    <3> QED BY <3>1 DEF Stuck, Locks
  <2>2. ASSUME NEW q \in Busy, held["pending"] # NULL PROVE \E r \in Busy : ~Stuck(r)
    <3>1. held["pending"] \in Procs
      BY <2>2 DEF LocksInv, Typed, Locks
    <3>2. pc[held["pending"]] \in InPending
      BY <3>1 DEF LocksInv, Owners
    <3> QED BY <2>1, <3>1, <3>2
  <2>3. ASSUME NEW q \in Procs, pc[q] \in InIncoming PROVE \E r \in Busy : ~Stuck(r)
    <3>1. q \in Busy /\ Awaits(q) \in {"none", "pending"}
      BY <2>3 DEF InIncoming, Busy, Awaits
    <3>2. Stuck(q) => held["pending"] # NULL
      BY <3>1 DEF Stuck, Locks
    <3> QED BY <2>2, <3>1, <3>2
  <2>4. CASE held["incoming"] # NULL
    <3>1. held["incoming"] \in Procs
      BY <2>4 DEF LocksInv, Typed, Locks
    <3>2. pc[held["incoming"]] \in InIncoming
      BY <3>1 DEF LocksInv, Owners
    <3> QED BY <2>3, <3>1, <3>2
  <2>5. CASE held["incoming"] = NULL
    <3>1. Stuck(p) => held["pending"] # NULL
      BY <2>5 DEF Stuck, Locks
    <3> QED BY <2>2, <3>1
  <2> QED BY <2>4, <2>5
<1> QED BY <1>1, LocksGuard, PTL
-----------------------------------------------------------------------------
(* What the lists are for anyone who looks under the locks. *)

\* AppendedPending, from the place of the process that is inside.
Meaning ==
  /\ \A p \in Procs : pc[p] = "rd_add" => AppendedPending = Append(pending, item[p])
  /\ \A p \in Procs : pc[p] = "re_init" => AppendedPending = <<>>
  /\ (\A p \in Procs : pc[p] \notin {"rd_add", "re_init"}) => AppendedPending = pending
  /\ AppendedPending \in Seq(Entries)

LEMMA PendingMeaning == LocksInv => Meaning
<1> SUFFICES ASSUME LocksInv PROVE Meaning
  OBVIOUS
<1>1. pending \in Seq(Entries) /\ <<>> \in Seq(Entries)
  BY DEF LocksInv, Typed
<1>2. ASSUME NEW p \in Procs, pc[p] = "rd_add"
      PROVE  AppendedPending = Append(pending, item[p]) /\ item[p] \in Entries
  <2>1. \A q \in Procs : pc[q] = "rd_add" => q = p
    BY <1>2, OneInside DEF InPending
  <2>2. (CHOOSE q \in Procs : pc[q] = "rd_add") = p
    BY <1>2, <2>1
  <2>3. AppendedPending = Append(pending, item[p])
    <3>1. Inside("rd_add")
      BY <1>2 DEF Inside
    <3>2. ~Inside("re_init")
      <4> SUFFICES ASSUME NEW q \in Procs, pc[q] = "re_init" PROVE FALSE
        BY DEF Inside
      <4> QED BY <1>2, OneInside DEF InPending
    <3> QED BY <2>2, <3>1, <3>2 DEF AppendedPending
  <2>4. item[p] \in Entries
    BY <1>2 DEF LocksInv, Copies, WithEntry
  <2> QED BY <2>3, <2>4
<1>3. ASSUME NEW p \in Procs, pc[p] = "re_init"
      PROVE  AppendedPending = <<>>
  <2>1. \A q \in Procs : pc[q] # "rd_add"
    <3> SUFFICES ASSUME NEW q \in Procs, pc[q] = "rd_add" PROVE FALSE
      OBVIOUS
    <3> QED BY <1>3, OneInside DEF InPending
  <2> QED BY <1>3, <2>1 DEF AppendedPending, Inside
<1>4. ASSUME \A p \in Procs : pc[p] \notin {"rd_add", "re_init"}
      PROVE  AppendedPending = pending
  BY <1>4 DEF AppendedPending, Inside
<1>5. AppendedPending \in Seq(Entries)
  <2>1. CASE \E p \in Procs : pc[p] = "rd_add"
    <3>1. PICK p \in Procs : pc[p] = "rd_add"
      BY <2>1
    <3>2. AppendedPending = Append(pending, item[p]) /\ item[p] \in Entries
      BY <1>2, <3>1
    <3> HIDE DEF AppendedPending
    <3> QED BY <1>1, <3>2
  <2>2. CASE \E p \in Procs : pc[p] = "re_init"
    BY <1>1, <1>3, <2>2
  <2> QED BY <1>1, <1>4, <2>1, <2>2
<1> QED BY <1>2, <1>3, <1>4, <1>5 DEF Meaning

LEMMA PendingMeaningNext == LocksInv' => Meaning'
BY PendingMeaning, PTL

\* Inside the pending list's lock, and not half way through a move, the pending list
\* is what it is in memory.
LEMMA PlainInside ==
  ASSUME LocksInv, NEW p \in Procs, pc[p] \in InPending \ {"rd_add", "re_init"}
  PROVE  AppendedPending = pending
<1>1. ASSUME NEW q \in Procs PROVE pc[q] \notin {"rd_add", "re_init"}
  BY OneInside DEF InPending
<1> QED BY <1>1, PendingMeaning DEF Meaning

\* What one process does outside of these moves leaves the pending list to the others.
LEMMA SamePending ==
  ASSUME LocksInv, LocksInv', NEW p \in Procs,
         pending' = pending,
         \A q \in Procs \ {p} : pc'[q] = pc[q] /\ item'[q] = item[q],
         pc[p] \notin {"rd_add", "re_init"}, pc'[p] \notin {"rd_add", "re_init"}
  PROVE  AppendedPending' = AppendedPending
<1>0. Meaning /\ Meaning'
  BY PendingMeaning, PendingMeaningNext
<1>1. CASE \E q \in Procs : pc[q] = "rd_add"
  BY <1>0, <1>1 DEF Meaning
<1>2. CASE \E q \in Procs : pc[q] = "re_init"
  BY <1>0, <1>2 DEF Meaning
<1>3. CASE \A q \in Procs : pc[q] \notin {"rd_add", "re_init"}
  <2>1. \A q \in Procs : pc'[q] \notin {"rd_add", "re_init"}
    BY <1>3
  <2> QED BY <1>0, <1>3, <2>1 DEF Meaning
<1> QED BY <1>1, <1>2, <1>3
-----------------------------------------------------------------------------
(* Which entries are where. *)

\* Who holds an allocated entry that is on no list.
Loose == {p \in Procs : pc[p] \in {"su_lock", "su_add", "co_free"}}

Listed == Range(incoming) \cup Range(AppendedPending)

\* An allocated entry is on one list, once, or in the hands of one process.
Linked ==
  /\ IsInjective(incoming) /\ IsInjective(AppendedPending)
  /\ Range(incoming) \cap Range(AppendedPending) = {}
  /\ Listed \subseteq alloc
  /\ \A p \in Loose : item[p] \in alloc \ Listed
  /\ \A p, q \in Loose : item[p] = item[q] => p = q

LinkedInv == LocksInv /\ Linked

\* A step of the abstract queue, or none.
Moves == Queue!Next \/ UNCHANGED Queue!lists

\* The instance's list operators are those of this module.
LEMMA QueueOperators ==
  ASSUME NEW s
  PROVE  /\ Queue!Range(s) = Range(s)
         /\ \A e : Queue!RemoveFirst(s, e) = RemoveFirst(s, e)
<1>1. Queue!Range(s) = Range(s)
  BY DEF Queue!Range, Range
<1>2. \A S : Queue!Min(S) = Min(S)
  BY DEF Queue!Min, Min
<1>3. \A e : Queue!RemoveFirst(s, e) = RemoveFirst(s, e)
  BY <1>2 DEF Queue!RemoveFirst, RemoveFirst, Queue!SelectInSeq, SelectInSeq,
              Queue!RemoveAt, RemoveAt
<1> QED BY <1>1, <1>3

\* The variables the operations have in common.
LEMMA Lists ==
  ASSUME LocksInv
  PROVE  /\ incoming \in Seq(Entries) /\ AppendedPending \in Seq(Entries)
         /\ \A p \in Procs : pc[p] \in WithEntry => item[p] \in Entries
         /\ \A p \in Loose : item[p] \in Entries
BY PendingMeaning DEF LocksInv, Typed, Copies, Meaning, Loose, WithEntry

\* A step that moves no entry and takes and frees none.
LEMMA QuietLinked ==
  ASSUME LinkedInv, UNCHANGED <<incoming, alloc, AppendedPending>>, Loose' = Loose,
         \A p \in Loose : item'[p] = item[p]
  PROVE  Linked' /\ Moves
<1>1. UNCHANGED Queue!lists
  BY DEF Queue!lists
<1>2. Listed' = Listed
  BY DEF Listed
<1>3. \A p \in Loose : item'[p] \in alloc' \ Listed'
  BY <1>2 DEF LinkedInv, Linked
<1>4. \A p, q \in Loose : item'[p] = item'[q] => p = q
  BY DEF LinkedInv, Linked
<1>5. /\ IsInjective(incoming') /\ IsInjective(AppendedPending')
      /\ Range(incoming') \cap Range(AppendedPending') = {}
      /\ Listed' \subseteq alloc'
  BY <1>2 DEF LinkedInv, Linked
<1> QED BY <1>1, <1>3, <1>4, <1>5 DEF Moves, Linked

LEMMA SubmitStartLinked ==
  ASSUME LinkedInv, LocksInv', NEW p \in Procs, SubmitStart(p)
  PROVE  Linked' /\ Moves
<1>0. PICK e \in Entries \ alloc : Takes(p, e) /\ alloc' = alloc \cup {e}
  BY DEF SubmitStart
<1>1. /\ pc[p] = "idle" /\ pc' = [pc EXCEPT ![p] = "su_lock"]
      /\ item' = [item EXCEPT ![p] = e] /\ UNCHANGED <<incoming, pending>>
      /\ pc \in [Procs -> Places] /\ item \in [Procs -> Entries \cup {NULL}]
  BY <1>0 DEF SubmitStart, Step, Takes, LinkedInv, LocksInv, Typed
<1>2. /\ \A q \in Procs \ {p} : pc'[q] = pc[q] /\ item'[q] = item[q]
      /\ pc'[p] = "su_lock" /\ item'[p] = e
  BY <1>1
<1>3. AppendedPending' = AppendedPending
  BY <1>1, <1>2, SamePending DEF LinkedInv
<1>4. Loose' = Loose \cup {p} /\ p \notin Loose
  BY <1>1, <1>2 DEF Loose
<1>5. Listed' = Listed /\ UNCHANGED Queue!lists
  BY <1>1, <1>3 DEF Listed, Queue!lists
<1>6. \A q \in Loose : item'[q] = item[q] /\ item[q] \in alloc \ Listed
  BY <1>2, <1>4 DEF LinkedInv, Linked, Loose
<1>7. \A q \in Loose' : item'[q] \in alloc' \ Listed'
  BY <1>0, <1>2, <1>4, <1>5, <1>6 DEF LinkedInv, Linked
<1>8. \A q, r \in Loose' : item'[q] = item'[r] => q = r
  BY <1>0, <1>2, <1>4, <1>6 DEF LinkedInv, Linked
<1> QED BY <1>0, <1>1, <1>3, <1>5, <1>7, <1>8 DEF Moves, LinkedInv, Linked

LEMMA CompleteFreeLinked ==
  ASSUME LinkedInv, LocksInv', NEW p \in Procs, CompleteFree(p)
  PROVE  Linked' /\ Moves
<1>1. /\ pc[p] = "co_free" /\ pc' = [pc EXCEPT ![p] = "idle"]
      /\ item' = [item EXCEPT ![p] = NULL] /\ UNCHANGED <<incoming, pending>>
      /\ alloc' = alloc \ {item[p]}
      /\ pc \in [Procs -> Places] /\ item \in [Procs -> Entries \cup {NULL}]
  BY DEF CompleteFree, Return, Step, Takes, LinkedInv, LocksInv, Typed
<1>2. /\ \A q \in Procs \ {p} : pc'[q] = pc[q] /\ item'[q] = item[q]
      /\ pc'[p] = "idle"
  BY <1>1
<1>3. AppendedPending' = AppendedPending
  BY <1>1, <1>2, SamePending DEF LinkedInv
<1>4. Loose' = Loose \ {p} /\ p \in Loose
  BY <1>1, <1>2 DEF Loose
<1>5. Listed' = Listed /\ UNCHANGED Queue!lists
  BY <1>1, <1>3 DEF Listed, Queue!lists
<1>6. \A q \in Loose' : item'[q] = item[q] /\ item[q] \in alloc \ Listed /\ item[q] # item[p]
  BY <1>2, <1>4 DEF LinkedInv, Linked, Loose
<1>7. Listed' \subseteq alloc'
  BY <1>1, <1>4, <1>5 DEF LinkedInv, Linked
<1>8. \A q, r \in Loose' : item'[q] = item'[r] => q = r
  BY <1>4, <1>6 DEF LinkedInv, Linked
<1>9. \A q \in Loose' : item'[q] \in alloc' \ Listed'
  BY <1>1, <1>5, <1>6
<1> QED BY <1>1, <1>3, <1>5, <1>7, <1>8, <1>9 DEF Moves, LinkedInv, Linked

\* The submission's entry goes behind the tail the process has seen, which still is the
\* tail.
LEMMA SubmitAddLinked ==
  ASSUME LinkedInv, LocksInv', NEW p \in Procs, SubmitAdd(p)
  PROVE  Linked' /\ Moves
<1> DEFINE e == item[p]
<1>1. /\ pc[p] = "su_add" /\ pc' = [pc EXCEPT ![p] = "idle"]
      /\ item' = [item EXCEPT ![p] = NULL] /\ UNCHANGED <<pending, alloc>>
      /\ incoming' = Append(incoming, e)
      /\ pc \in [Procs -> Places] /\ item \in [Procs -> Entries \cup {NULL}]
  BY DEF SubmitAdd, Return, Step, Takes, LinkedInv, LocksInv, Typed, Copies
<1>2. /\ \A q \in Procs \ {p} : pc'[q] = pc[q] /\ item'[q] = item[q]
      /\ pc'[p] = "idle"
  BY <1>1
<1>3. AppendedPending' = AppendedPending
  BY <1>1, <1>2, SamePending DEF LinkedInv
<1>4. Loose' = Loose \ {p} /\ p \in Loose
  BY <1>1, <1>2 DEF Loose
<1>5. e \in Entries /\ e \in alloc \ Listed /\ incoming \in Seq(Entries)
  BY <1>4, Lists DEF LinkedInv, Linked
<1>6. Range(incoming') = Range(incoming) \cup {e} /\ IsInjective(incoming')
  BY <1>1, <1>5, RangeAppend, AppendFresh DEF LinkedInv, Linked, Listed
<1>7. Listed' = Listed \cup {e} /\ Range(incoming') \cap Range(AppendedPending') = {}
  BY <1>3, <1>5, <1>6 DEF LinkedInv, Linked, Listed
<1>8. \A q \in Loose' : item'[q] = item[q] /\ item[q] \in alloc \ Listed /\ item[q] # e
  BY <1>2, <1>4 DEF LinkedInv, Linked, Loose
<1>9. \A q, r \in Loose' : item'[q] = item'[r] => q = r
  BY <1>4, <1>8 DEF LinkedInv, Linked
<1>10. \A q \in Loose' : item'[q] \in alloc' \ Listed'
  BY <1>1, <1>7, <1>8
<1>11. Linked'
  BY <1>1, <1>3, <1>5, <1>6, <1>7, <1>9, <1>10 DEF LinkedInv, Linked
<1>12. Queue!Put(e)
  BY <1>1, <1>3, <1>5, QueueOperators DEF Queue!Put, Listed
<1> QED BY <1>5, <1>11, <1>12 DEF Moves, Queue!Next

\* The head leaves the incoming list and counts as read from then on.
LEMMA ReadDelLinked ==
  ASSUME LinkedInv, LocksInv', NEW p \in Procs, ReadDel(p)
  PROVE  Linked' /\ Moves
<1> DEFINE e == Head(incoming)
<1>1. /\ pc[p] = "rd_del" /\ pc' = [pc EXCEPT ![p] = "rd_add"]
      /\ UNCHANGED <<item, pending, alloc>> /\ incoming' = Tail(incoming)
      /\ incoming # <<>> /\ item[p] = e /\ pc \in [Procs -> Places]
  BY DEF ReadDel, Step, LinkedInv, LocksInv, Typed, Copies
<1>2. /\ \A q \in Procs \ {p} : pc'[q] = pc[q]
      /\ pc'[p] = "rd_add"
  BY <1>1
<1>3. AppendedPending = pending
  BY <1>1, PlainInside DEF LinkedInv, InPending
<1>4. AppendedPending' = Append(AppendedPending, e)
  BY <1>1, <1>2, <1>3, PendingMeaningNext DEF Meaning
<1>5. Loose' = Loose
  BY <1>1, <1>2 DEF Loose
<1>6. incoming \in Seq(Entries) /\ AppendedPending \in Seq(Entries)
  BY Lists DEF LinkedInv
<1>7. /\ e \in Range(incoming) /\ IsInjective(incoming')
      /\ Range(incoming') = Range(incoming) \ {e} /\ e \in Entries
  BY <1>1, <1>6, TailProperties DEF LinkedInv, Linked
<1>8. e \notin Range(AppendedPending)
  BY <1>7 DEF LinkedInv, Linked
<1>9. /\ IsInjective(AppendedPending')
      /\ Range(AppendedPending') = Range(AppendedPending) \cup {e}
  BY <1>4, <1>6, <1>7, <1>8, RangeAppend, AppendFresh DEF LinkedInv, Linked
<1>10. Listed' = Listed /\ Range(incoming') \cap Range(AppendedPending') = {}
  BY <1>7, <1>9 DEF LinkedInv, Linked, Listed
<1>11. Linked'
  BY <1>1, <1>5, <1>7, <1>9, <1>10 DEF LinkedInv, Linked
<1>12. Queue!Take
  BY <1>1, <1>4 DEF Queue!Take
<1> QED BY <1>11, <1>12 DEF Moves, Queue!Next

\* The pending list is behind the incoming one and counts as empty from then on.
LEMMA ReleaseSpliceLinked ==
  ASSUME LinkedInv, LocksInv', NEW p \in Procs, ReleaseSplice(p)
  PROVE  Linked' /\ Moves
<1>1. /\ pc[p] = "re_splice" /\ pc' = [pc EXCEPT ![p] = "re_init"]
      /\ UNCHANGED <<item, pending, alloc>> /\ incoming' = incoming \o pending
      /\ pc \in [Procs -> Places]
  BY DEF ReleaseSplice, Step, LinkedInv, LocksInv, Typed
<1>2. /\ \A q \in Procs \ {p} : pc'[q] = pc[q]
      /\ pc'[p] = "re_init"
  BY <1>1
<1>3. AppendedPending = pending
  BY <1>1, PlainInside DEF LinkedInv, InPending
<1>4. AppendedPending' = <<>>
  BY <1>1, <1>2, PendingMeaningNext DEF Meaning
<1>5. Loose' = Loose
  BY <1>1, <1>2 DEF Loose
<1>6. incoming \in Seq(Entries) /\ AppendedPending \in Seq(Entries)
  BY Lists DEF LinkedInv
<1>7. IsInjective(incoming')
  BY <1>1, <1>3, <1>6, ConcatDisjoint DEF LinkedInv, Linked
<1>8. Range(incoming') = Listed
  BY <1>1, <1>3, <1>6, RangeConcatenation DEF Listed
<1>9. Range(AppendedPending') = {} /\ IsInjective(AppendedPending')
  BY <1>4 DEF Range, IsInjective
<1>10. Listed' = Listed
  BY <1>8, <1>9 DEF Listed
<1>11. Linked'
  BY <1>1, <1>5, <1>7, <1>9, <1>10 DEF LinkedInv, Linked
<1>12. Queue!GiveBack
  BY <1>1, <1>3, <1>4 DEF Queue!GiveBack
<1> QED BY <1>11, <1>12 DEF Moves, Queue!Next

\* A completion takes its entry off the pending list and holds it until kfree().
LEMMA CompleteDelLinked ==
  ASSUME LinkedInv, LocksInv', NEW p \in Procs, CompleteDel(p)
  PROVE  Linked' /\ Moves
<1> DEFINE e == item[p]
<1>1. /\ pc[p] = "co_del" /\ pc' = [pc EXCEPT ![p] = "co_free"]
      /\ UNCHANGED <<item, incoming, alloc>>
      /\ pending' = RemoveFirst(pending, e) /\ e \in Range(pending)
      /\ pc \in [Procs -> Places]
  BY DEF CompleteDel, Step, LinkedInv, LocksInv, Typed, Copies
<1>2. /\ \A q \in Procs \ {p} : pc'[q] = pc[q]
      /\ pc'[p] = "co_free"
  BY <1>1
<1>3. AppendedPending = pending
  BY <1>1, PlainInside DEF LinkedInv, InPending
<1>4. AppendedPending' = pending'
  <2>1. \A q \in Procs : q # p => pc[q] \notin {"rd_add", "re_init"}
    BY <1>1, OneInside DEF LinkedInv, InPending
  <2>2. \A q \in Procs : pc'[q] \notin {"rd_add", "re_init"}
    BY <1>2, <2>1
  <2> QED BY <2>2, PendingMeaningNext DEF Meaning
<1>5. Loose' = Loose \cup {p} /\ p \notin Loose
  BY <1>1, <1>2 DEF Loose
<1>6. incoming \in Seq(Entries) /\ AppendedPending \in Seq(Entries) /\ e \in Entries
  BY <1>1, Lists DEF LinkedInv, WithEntry
<1>7. /\ IsInjective(AppendedPending')
      /\ Range(AppendedPending') = Range(AppendedPending) \ {e}
  BY <1>1, <1>3, <1>4, <1>6, RemoveFirstProperties DEF LinkedInv, Linked
<1>8. Listed' = Listed \ {e} /\ e \in Listed
  BY <1>1, <1>3, <1>7 DEF LinkedInv, Linked, Listed
<1>9. \A q \in Loose : item[q] \in alloc \ Listed
  BY DEF LinkedInv, Linked
<1>10. \A q \in Loose' : item'[q] \in alloc' \ Listed'
  BY <1>1, <1>5, <1>8, <1>9 DEF LinkedInv, Linked
<1>11. \A q, r \in Loose' : item'[q] = item'[r] => q = r
  BY <1>1, <1>5, <1>8, <1>9 DEF LinkedInv, Linked
<1>12. Linked'
  BY <1>1, <1>7, <1>8, <1>10, <1>11 DEF LinkedInv, Linked
<1>13. Queue!Drop(e)
  BY <1>1, <1>3, <1>4, QueueOperators DEF Queue!Drop
<1> QED BY <1>6, <1>12, <1>13 DEF Moves, Queue!Next

LEMMA NextLinked == LinkedInv /\ LocksInv' /\ [Next]_vars => Linked' /\ Moves
<1> SUFFICES ASSUME LinkedInv, LocksInv', [Next]_vars PROVE Linked' /\ Moves
  OBVIOUS
<1>0. pc \in [Procs -> Places] /\ item \in [Procs -> Entries \cup {NULL}]
  BY DEF LinkedInv, LocksInv, Typed
<1>1. CASE UNCHANGED vars
  <2>1. AppendedPending' = AppendedPending
    BY <1>1 DEF vars, AppendedPending, Inside
  <2> QED BY <1>1, <2>1, QuietLinked DEF vars, Loose
<1>2. ASSUME NEW p \in Procs, UNCHANGED <<incoming, pending, alloc>>,
             \A q \in Procs \ {p} : pc'[q] = pc[q] /\ item'[q] = item[q],
             pc[p] \notin {"rd_add", "re_init"}, pc'[p] \notin {"rd_add", "re_init"},
             p \in Loose <=> p \in Loose',
             p \in Loose => item'[p] = item[p]
      PROVE  Linked' /\ Moves
  <2>1. AppendedPending' = AppendedPending
    BY <1>2, SamePending DEF LinkedInv
  <2>2. Loose' = Loose
    BY <1>2 DEF Loose
  <2> QED BY <1>2, <2>1, <2>2, QuietLinked DEF Loose
<1>3. ASSUME NEW p \in Procs, Start(p) PROVE Linked' /\ Moves
  <2>1. CASE SubmitStart(p)
    BY <2>1, SubmitStartLinked
  <2>2. CASE ReadStart(p) \/ ReleaseStart(p) \/ CompleteStart(p) \/ PollStart(p)
             \/ CurrentStart(p)
    <3>1. /\ UNCHANGED <<incoming, pending, alloc>> /\ p \notin Loose /\ p \notin Loose'
          /\ \A q \in Procs \ {p} : pc'[q] = pc[q] /\ item'[q] = item[q]
          /\ pc[p] \notin {"rd_add", "re_init"} /\ pc'[p] \notin {"rd_add", "re_init"}
      BY <1>0, <2>2 DEF ReadStart, ReleaseStart, CompleteStart, PollStart, CurrentStart,
                        Step, Takes, Loose
    <3> QED BY <1>2, <3>1
  <2> QED BY <1>3, <2>1, <2>2 DEF Start
<1>4. ASSUME NEW p \in Procs, Lock(p) PROVE Linked' /\ Moves
  <2>1. /\ UNCHANGED <<incoming, pending, alloc>>
        /\ \A q \in Procs \ {p} : pc'[q] = pc[q] /\ item'[q] = item[q]
        /\ pc[p] \notin {"rd_add", "re_init"} /\ pc'[p] \notin {"rd_add", "re_init"}
        /\ p \in Loose <=> p \in Loose'
        /\ p \in Loose => item'[p] = item[p]
    BY <1>0, <1>4 DEF Lock, SubmitLock, ReadLock, ReadLockPending, ReleaseLock,
       ReleaseLockPending, CompleteLock, PollLock, CurrentLock, Step, Takes, Loose
  <2> QED BY <1>2, <2>1
<1>5. ASSUME NEW p \in Procs, Run(p) PROVE Linked' /\ Moves
  <2>1. CASE ReadAdd(p)
    <3>1. /\ pc[p] = "rd_add" /\ pc' = [pc EXCEPT ![p] = "rd_done"]
          /\ pending' = Append(pending, item[p]) /\ UNCHANGED <<incoming, alloc, item>>
      BY <2>1 DEF ReadAdd, Step, LinkedInv, LocksInv, Copies
    <3>2. \A q \in Procs : q # p => pc[q] \notin {"rd_add", "re_init"}
      BY <3>1, OneInside DEF LinkedInv, InPending
    <3>3. \A q \in Procs : pc'[q] \notin {"rd_add", "re_init"}
      BY <1>0, <3>1, <3>2
    <3>4. AppendedPending' = AppendedPending
      BY <3>1, <3>3, PendingMeaning, PendingMeaningNext DEF LinkedInv, Meaning
    <3>5. Loose' = Loose
      BY <1>0, <3>1 DEF Loose
    <3> QED BY <3>1, <3>4, <3>5, QuietLinked
  <2>2. CASE ReleaseInit(p)
    <3>1. /\ pc[p] = "re_init" /\ pc' = [pc EXCEPT ![p] = "re_done"]
          /\ pending' = <<>> /\ UNCHANGED <<incoming, alloc, item>>
      BY <2>2 DEF ReleaseInit, Step
    <3>2. \A q \in Procs : q # p => pc[q] \notin {"rd_add", "re_init"}
      BY <3>1, OneInside DEF LinkedInv, InPending
    <3>3. \A q \in Procs : pc'[q] \notin {"rd_add", "re_init"}
      BY <1>0, <3>1, <3>2
    <3>4. AppendedPending' = AppendedPending
      BY <3>1, <3>3, PendingMeaning, PendingMeaningNext DEF LinkedInv, Meaning
    <3>5. Loose' = Loose
      BY <1>0, <3>1 DEF Loose
    <3> QED BY <3>1, <3>4, <3>5, QuietLinked
  <2>3. CASE ReadNothing(p) \/ ReadUnlock(p) \/ ReleaseUnlock(p) \/ CompleteElsewhere(p)
             \/ PollUnlock(p) \/ CurrentUnlock(p)
    <3>1. /\ UNCHANGED <<incoming, pending, alloc>> /\ p \notin Loose /\ p \notin Loose'
          /\ \A q \in Procs \ {p} : pc'[q] = pc[q] /\ item'[q] = item[q]
          /\ pc[p] \notin {"rd_add", "re_init"} /\ pc'[p] \notin {"rd_add", "re_init"}
      BY <1>0, <2>3 DEF ReadNothing, ReadUnlock, ReleaseUnlock, CompleteElsewhere,
         PollUnlock, CurrentUnlock, Return, Step, Takes, Loose
    <3> QED BY <1>2, <3>1
  <2> QED BY <1>5, <2>1, <2>2, <2>3, SubmitAddLinked, ReadDelLinked, ReleaseSpliceLinked,
             CompleteDelLinked, CompleteFreeLinked DEF Run
<1> QED BY <1>1, <1>3, <1>4, <1>5 DEF Next

LEMMA InitLinked == Init => Linked /\ Queue!Init
<1> SUFFICES ASSUME Init PROVE Linked /\ Queue!Init
  OBVIOUS
<1>1. incoming = <<>> /\ AppendedPending = <<>> /\ Loose = {}
  BY DEF Init, AppendedPending, Inside, Loose
<1>2. Range(<<>>) = {} /\ IsInjective(<<>>)
  BY DEF Range, IsInjective
<1> QED BY <1>1, <1>2 DEF Linked, Listed, Queue!Init

\* No list update is lost and no entry is used twice: an allocated entry is on one of the
\* lists, once, or in the hands of one process, at every step inside the locks.
THEOREM EntriesConserved == Spec => []LinkedInv
<1>1. LinkedInv /\ [Next]_vars => LinkedInv'
  BY NextLocks, NextLinked DEF LinkedInv
<1>2. Init => LinkedInv
  BY InitLocks, InitLinked DEF LinkedInv
<1> QED BY <1>1, <1>2, PTL DEF Spec

\* The nested locks make each operation one move of the queue: what BdtunTunnel takes as
\* one step is one, however the steps of its critical section meet those of others.
THEOREM SectionsAtomic == Spec => ListsSpec
<1>1. LinkedInv /\ LinkedInv' /\ [Next]_vars => [Queue!Next]_(Queue!lists)
  BY NextLinked DEF Moves, LinkedInv
<1>2. Init => Queue!Init
  BY InitLinked
<1> QED BY <1>1, <1>2, EntriesConserved, PTL DEF Spec, ListsSpec, Queue!Spec
=============================================================================
