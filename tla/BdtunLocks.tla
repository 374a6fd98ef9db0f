----------------------------- MODULE BdtunLocks -----------------------------
(***************************************************************************)
(* The critical sections of BdtunTunnel opened up: the two mutexes of a    *)
(* tunnel (kernel/bdtun.c), the order in which each operation takes and    *)
(* drops them, and the lists between the single pointer updates.  An       *)
(* operation that changes a list first reads where the list ends and later *)
(* stores the new list, so two operations that are in there together lose  *)
(* one of their changes.                                                   *)
(*                                                                         *)
(* The processes are submitters and threads with open files of their own;  *)
(* each may run any operation.  A completion of an entry that another      *)
(* file's release has taken from the pending list is where BdtunTunnel     *)
(* stops as well, and so does this module.                                 *)
(***************************************************************************)
EXTENDS Sequences, SequencesExt, FiniteSets

CONSTANTS
  Procs,    \* submitters and threads
  Entries,  \* the addresses kmalloc() may return
  NULL      \* no process, no entry

ASSUME LocksAssumption == NULL \notin Procs \cup Entries

VARIABLES
  incoming, pending,  \* the two lists, as they are in memory
  held,    \* who holds incoming_bio_list_lock and pending_bio_list_lock
  alloc,   \* the allocated entries
  pc,      \* where a process is in its operation
  item,    \* the entry it works on
  copy,    \* the list as it was when the process read it
  fault    \* an entry was unlinked that is not on the pending list

vars == <<incoming, pending, held, alloc, pc, item, copy, fault>>

Locks == {"incoming", "pending"}

Init ==
  /\ incoming = <<>> /\ pending = <<>>
  /\ held = [l \in Locks |-> NULL]
  /\ alloc = {}
  /\ pc = [p \in Procs |-> "idle"]
  /\ item = [p \in Procs |-> NULL]
  /\ copy = [p \in Procs |-> <<>>]
  /\ fault = FALSE

Step(p, from, to) == pc[p] = from /\ pc' = [pc EXCEPT ![p] = to]
MutexLock(p, l) == held[l] = NULL /\ held' = [held EXCEPT ![l] = p]
MutexUnlock(l) == held' = [held EXCEPT ![l] = NULL]
Takes(p, e) == item' = [item EXCEPT ![p] = e]
Reads(p, list) == copy' = [copy EXCEPT ![p] = list]

\* The operation returns, its local variables are gone.
Return(p, from) == Step(p, from, "idle") /\ Takes(p, NULL) /\ Reads(p, <<>>)
-----------------------------------------------------------------------------
(* bdtun_make_request(): kmalloc(), then the tail of the incoming list. *)

SubmitStart(p) ==
  /\ Step(p, "idle", "su_lock")
  /\ \E e \in Entries \ alloc : Takes(p, e) /\ alloc' = alloc \cup {e}
  /\ UNCHANGED <<incoming, pending, held, copy, fault>>

\* Mutant: the list is changed without its lock.
SubmitNoLock(p) ==
  /\ Step(p, "su_lock", "su_add")
  /\ Reads(p, incoming)
  /\ UNCHANGED <<incoming, pending, held, alloc, item, fault>>

SubmitLock(p) ==
  /\ Step(p, "su_lock", "su_add")
  /\ MutexLock(p, "incoming") /\ Reads(p, incoming)
  /\ UNCHANGED <<incoming, pending, alloc, item, fault>>

SubmitAdd(p) ==
  /\ Return(p, "su_add")
  /\ incoming' = Append(copy[p], item[p])
  /\ MutexUnlock("incoming")
  /\ UNCHANGED <<pending, alloc, fault>>
-----------------------------------------------------------------------------
(* A header read: the pending list's lock is taken inside the other one. *)

ReadStart(p) ==
  /\ Step(p, "idle", "rd_lock")
  /\ UNCHANGED <<incoming, pending, held, alloc, item, copy, fault>>

ReadLock(p) ==
  /\ Step(p, "rd_lock", "rd_look")
  /\ MutexLock(p, "incoming")
  /\ UNCHANGED <<incoming, pending, alloc, item, copy, fault>>

\* Mutant: the lock is not dropped when the list is empty.
ReadNothingLocked(p) ==
  /\ Return(p, "rd_look") /\ incoming = <<>>
  /\ UNCHANGED <<incoming, pending, held, alloc, fault>>

\* The list is empty; the reader drops the lock before it sleeps.
ReadNothing(p) ==
  /\ Return(p, "rd_look") /\ incoming = <<>>
  /\ MutexUnlock("incoming")
  /\ UNCHANGED <<incoming, pending, alloc, fault>>

\* Mutant: the header read relies on the incoming list's lock alone.
ReadNoPendingLock(p) ==
  /\ Step(p, "rd_look", "rd_del") /\ incoming # <<>>
  /\ Takes(p, Head(incoming)) /\ Reads(p, pending)
  /\ UNCHANGED <<incoming, pending, held, alloc, fault>>

ReadLockPending(p) ==
  /\ Step(p, "rd_look", "rd_del") /\ incoming # <<>>
  /\ MutexLock(p, "pending")
  /\ Takes(p, Head(incoming)) /\ Reads(p, pending)
  /\ UNCHANGED <<incoming, pending, alloc, fault>>

\* The two halves of list_move_tail().
ReadDel(p) ==
  /\ Step(p, "rd_del", "rd_add")
  /\ incoming' = Tail(incoming)
  /\ UNCHANGED <<pending, held, alloc, item, copy, fault>>

ReadAdd(p) ==
  /\ Step(p, "rd_add", "rd_done")
  /\ pending' = Append(copy[p], item[p])
  /\ MutexUnlock("pending")
  /\ UNCHANGED <<incoming, alloc, item, copy, fault>>

ReadUnlock(p) ==
  /\ Return(p, "rd_done")
  /\ MutexUnlock("incoming")
  /\ UNCHANGED <<incoming, pending, alloc, fault>>
-----------------------------------------------------------------------------
(* bdtunch_release(): the same locks in the same order. *)

ReleaseStart(p) ==
  /\ Step(p, "idle", "re_lock")
  /\ UNCHANGED <<incoming, pending, held, alloc, item, copy, fault>>

\* Mutant: the release starts with the pending list's lock.
ReleaseWrongLock(p) ==
  /\ Step(p, "re_lock", "re_both")
  /\ MutexLock(p, "pending")
  /\ UNCHANGED <<incoming, pending, alloc, item, copy, fault>>

ReleaseLock(p) ==
  /\ Step(p, "re_lock", "re_both")
  /\ MutexLock(p, "incoming")
  /\ UNCHANGED <<incoming, pending, alloc, item, copy, fault>>

ReleaseLockPending(p) ==
  /\ Step(p, "re_both", "re_splice")
  /\ MutexLock(p, "pending")
  /\ UNCHANGED <<incoming, pending, alloc, item, copy, fault>>

\* The two halves of list_splice_tail_init().
ReleaseSplice(p) ==
  /\ Step(p, "re_splice", "re_init")
  /\ incoming' = incoming \o pending
  /\ UNCHANGED <<pending, held, alloc, item, copy, fault>>

ReleaseInit(p) ==
  /\ Step(p, "re_init", "re_done")
  /\ pending' = <<>>
  /\ MutexUnlock("pending")
  /\ UNCHANGED <<incoming, alloc, item, copy, fault>>

ReleaseUnlock(p) ==
  /\ Return(p, "re_done")
  /\ MutexUnlock("incoming")
  /\ UNCHANGED <<incoming, pending, alloc, fault>>
-----------------------------------------------------------------------------
(* A completion, of an entry that was on the pending list when its id was    *)
(* fetched; kfree() comes after the lock is dropped.                         *)

CompleteStart(p) ==
  /\ Step(p, "idle", "co_lock")
  /\ \E e \in Range(pending) : Takes(p, e)
  /\ UNCHANGED <<incoming, pending, held, alloc, copy, fault>>

CompleteLock(p) ==
  /\ Step(p, "co_lock", "co_del")
  /\ MutexLock(p, "pending") /\ Reads(p, pending)
  /\ UNCHANGED <<incoming, pending, alloc, item, fault>>

CompleteDel(p) ==
  /\ Step(p, "co_del", "co_free")
  /\ item[p] \in Range(copy[p])
  /\ pending' = RemoveFirst(copy[p], item[p])
  /\ MutexUnlock("pending")
  /\ UNCHANGED <<incoming, alloc, item, copy, fault>>

CompleteFree(p) ==
  /\ Return(p, "co_free")
  /\ alloc' = alloc \ {item[p]}
  /\ UNCHANGED <<incoming, pending, held, fault>>

CompleteElsewhere(p) ==
  /\ pc[p] = "co_del" /\ item[p] \notin Range(copy[p])
  /\ fault' = TRUE
  /\ UNCHANGED <<incoming, pending, held, alloc, pc, item, copy>>
-----------------------------------------------------------------------------
(* Operations that look at one word under one lock: poll() at the incoming   *)
(* list; setting and fetching data_current_bio under the other lock.         *)

PollStart(p) ==
  /\ Step(p, "idle", "po_lock")
  /\ UNCHANGED <<incoming, pending, held, alloc, item, copy, fault>>

PollLock(p) ==
  /\ Step(p, "po_lock", "po_done") /\ MutexLock(p, "incoming")
  /\ UNCHANGED <<incoming, pending, alloc, item, copy, fault>>

PollUnlock(p) ==
  /\ Return(p, "po_done") /\ MutexUnlock("incoming")
  /\ UNCHANGED <<incoming, pending, alloc, fault>>

CurrentStart(p) ==
  /\ Step(p, "idle", "cu_lock")
  /\ UNCHANGED <<incoming, pending, held, alloc, item, copy, fault>>

CurrentLock(p) ==
  /\ Step(p, "cu_lock", "cu_done") /\ MutexLock(p, "pending")
  /\ UNCHANGED <<incoming, pending, alloc, item, copy, fault>>

CurrentUnlock(p) ==
  /\ Return(p, "cu_done") /\ MutexUnlock("pending")
  /\ UNCHANGED <<incoming, pending, alloc, fault>>
-----------------------------------------------------------------------------
Start(p) ==
  \/ SubmitStart(p) \/ ReadStart(p) \/ ReleaseStart(p) \/ CompleteStart(p)
  \/ PollStart(p) \/ CurrentStart(p)

Lock(p) ==
  \/ SubmitLock(p) \/ ReadLock(p) \/ ReadLockPending(p) \/ ReleaseLock(p)
  \/ ReleaseLockPending(p) \/ CompleteLock(p) \/ PollLock(p) \/ CurrentLock(p)

Run(p) ==
  \/ SubmitAdd(p) \/ ReadNothing(p) \/ ReadDel(p) \/ ReadAdd(p) \/ ReadUnlock(p)
  \/ ReleaseSplice(p) \/ ReleaseInit(p) \/ ReleaseUnlock(p)
  \/ CompleteDel(p) \/ CompleteFree(p) \/ CompleteElsewhere(p)
  \/ PollUnlock(p) \/ CurrentUnlock(p)

Next == ~fault /\ \E p \in Procs : Start(p) \/ Lock(p) \/ Run(p)

\* A process runs on inside an operation.  The kernel's mutexes are handed over
\* in turn: who waits for one that is dropped again and again gets it some time.
Fairness ==
  \A p \in Procs : WF_vars(~fault /\ Run(p)) /\ SF_vars(~fault /\ Lock(p))

Spec == Init /\ [][Next]_vars /\ Fairness
-----------------------------------------------------------------------------
\* Half way through a move the other list is already what it will be.
Inside(place) == \E p \in Procs : pc[p] = place
AppendedPending ==
  CASE Inside("rd_add") -> Append(pending, item[CHOOSE p \in Procs : pc[p] = "rd_add"])
    [] Inside("re_init") -> <<>>
    [] OTHER -> pending

\* The nested locks make every operation on the lists one step of the queue that
\* BdtunTunnel's atomic actions work on: no list update is lost, and no request
\* is on neither list or on both for anyone who looks under the locks.
Queue == INSTANCE BioLists WITH pending <- AppendedPending
ListsSpec == Queue!Spec

\* "Alwasy grab incoming first, then pending" (kernel/bdtun.c:69): no set of
\* operations blocks each other for ever, and no way out of one keeps a lock.
OperationsEnd == \A p \in Procs : pc[p] # "idle" ~> (pc[p] = "idle" \/ fault)

\* The lock a process stands before, if any.
Awaits(p) ==
  CASE pc[p] \in {"su_lock", "rd_lock", "re_lock", "po_lock"} -> "incoming"
    [] pc[p] \in {"re_both", "co_lock", "cu_lock"} -> "pending"
    [] pc[p] = "rd_look" /\ incoming # <<>> -> "pending"
    [] OTHER -> "none"

Busy == {p \in Procs : pc[p] # "idle"}
Stuck(p) == Awaits(p) \in Locks /\ held[Awaits(p)] # NULL

\* The same for each moment and without fairness: of the processes inside an
\* operation one does not wait for a lock that another one holds.
NoDeadlock == Busy # {} => \E p \in Busy : ~Stuck(p)

\* A lock belongs to a process that is between the lines that take and drop it.
LTypeOK ==
  /\ incoming \in Seq(Entries) /\ pending \in Seq(Entries)
  /\ alloc \subseteq Entries
  /\ \A p \in Procs : item[p] \in Entries \cup {NULL} /\ copy[p] \in Seq(Entries)
  /\ held \in [Locks -> Procs \cup {NULL}]
  /\ \A p \in Procs :
       /\ held["incoming"] = p <=>
            pc[p] \in {"su_add", "rd_look", "rd_del", "rd_add", "rd_done", "re_both",
                       "re_splice", "re_init", "re_done", "po_done"}
       /\ held["pending"] = p <=>
            pc[p] \in {"rd_del", "rd_add", "re_splice", "re_init", "co_del", "cu_done"}
=============================================================================
