---------------------------- MODULE BdtunTunnel ----------------------------
(***************************************************************************)
(* One tunnel of the kernel module (kernel/bdtun.c): the block device end, *)
(* where the block layer submits bios through bdtun_make_request(), and    *)
(* the character device end, where the threads of user space drivers read  *)
(* headers, choose the data-current request, move data and complete.       *)
(*                                                                         *)
(* Every critical section of the code is one action; everything the code   *)
(* does outside a lock, or between two locks, is a step of its own.  A     *)
(* thread may call any operation at any time: how a well-behaved driver    *)
(* orders its calls is the business of BdtunBackend.                       *)
(*                                                                         *)
(* A list entry is an address kmalloc() may hand out again after kfree(),  *)
(* so an id that user space kept may later name the entry of another bio.  *)
(***************************************************************************)
EXTENDS Integers, Sequences, SequencesExt, FiniteSets

CONSTANTS
  Bios,      \* the bios the block layer submits, each at most once
  Dir,       \* bio_data_dir() of each bio
  Entries,   \* the addresses kmalloc() may return for a bdtun_bio_list_entry
  Clients,   \* the user space threads
  Files,     \* the open file descriptions of the character device
  FileOf,    \* the file a thread works on
  Calls,     \* the blocking and data operations the threads use
  NoBio,     \* "no bio": a free entry, a buffer without (whole) content
  NULL       \* the null pointer

Rw == {"READ", "WRITE"}

DataOps == {"rd_data", "wr_data", "end_ok", "end_eio", "mmap"}

\* The constants describe a finite run of the block layer.
ASSUME TunnelAssumption ==
  /\ Calls \subseteq {"rd_check", "po_check"} \cup DataOps
  /\ IsFiniteSet(Bios)
  /\ Dir \in [Bios -> Rw]
  /\ FileOf \in [Clients -> Files]
  /\ NoBio \notin Bios
  /\ NULL \notin Entries

VARIABLES
  incoming_bio_list, pending_bio_list, data_current_bio,   \* struct bdtun
  bioOf,     \* entry->bio of an allocated entry, NoBio for a free one
  bio,       \* what the block layer sees of a bio
  submit,    \* how far the submitter's bdtun_make_request() has come
  inFlight,  \* part0's in-flight counters
  pages,     \* whose content is in the pages of a bio
  disk,      \* whose content user space holds for a bio
  reader_queue,  \* threads in the wait queue that no wake_up() has reached
  pc, ent,   \* where a thread is in a system call, and its local "entry"
  req,       \* the bdtun_txreq the thread read last
  mapped,    \* the bio whose pages the thread has mapped
  opened,    \* the open files
  fault,     \* the first undefined behaviour reached, if any
  arrived, seen  \* history: bios in queueing order; bios read at least once

lists == <<incoming_bio_list, pending_bio_list, data_current_bio, bioOf>>
block == <<bio, submit, inFlight, pages, disk>>
calls == <<reader_queue, pc, ent, req, mapped>>
history == <<arrived, seen>>
vars == <<lists, block, calls, opened, fault, history>>

NoReq == [id |-> NULL, bio |-> NoBio]
Places == {"user", "rd_check", "rd_sleep", "po_check", "po_sleep", "free"} \cup DataOps

Incoming == Range(incoming_bio_list)
Pending == Range(pending_bio_list)
Linked == Incoming \cup Pending

TypeOK ==
  /\ incoming_bio_list \in Seq(Entries)
  /\ pending_bio_list \in Seq(Entries)
  /\ data_current_bio \in Entries \cup {NULL}
  /\ bioOf \in [Entries -> Bios \cup {NoBio}]
  /\ bio \in [Bios -> {"new", "queued", "ok", "eio"}]
  /\ submit \in [Bios -> {"none", "wake", "count"}]
  /\ inFlight \in [Rw -> Int]
  /\ pages \in [Bios -> Bios \cup {NoBio}]
  /\ disk \in [Bios -> Bios \cup {NoBio}]
  /\ reader_queue \in SUBSET Clients
  /\ pc \in [Clients -> Places]
  /\ ent \in [Clients -> Entries \cup {NULL}]
  /\ req \in [Clients -> [id : Entries, bio : Bios] \cup {NoReq}]
  /\ mapped \in [Clients -> Bios \cup {NoBio}]
  /\ opened \in SUBSET Files
  /\ fault \in {"none", "stale", "unlinked", "unlocked"}
  /\ arrived \in Seq(Bios)
  /\ seen \in SUBSET Bios

Init ==
  /\ incoming_bio_list = <<>> /\ pending_bio_list = <<>>
  /\ data_current_bio = NULL
  /\ bioOf = [e \in Entries |-> NoBio]
  /\ bio = [b \in Bios |-> "new"]
  /\ submit = [b \in Bios |-> "none"]
  /\ inFlight = [rw \in Rw |-> 0]
  /\ pages = [b \in Bios |-> IF Dir[b] = "WRITE" THEN b ELSE NoBio]
  /\ disk = [b \in Bios |-> IF Dir[b] = "READ" THEN b ELSE NoBio]
  /\ reader_queue = {}
  /\ pc = [c \in Clients |-> "user"]
  /\ ent = [c \in Clients |-> NULL]
  /\ req = [c \in Clients |-> NoReq]
  /\ mapped = [c \in Clients |-> NoBio]
  /\ opened = {}
  /\ fault = "none"
  /\ arrived = <<>> /\ seen = {}

-----------------------------------------------------------------------------
(* The block device end. *)

\* Mutant: the result of kmalloc() is not checked.
MakeRequestUnchecked(b) ==
  /\ bio[b] = "new"
  /\ \E e \in Entries \cup {NULL} :
       /\ e # NULL => bioOf[e] = NoBio
       /\ bioOf' = [f \in Entries |-> IF f = e THEN b ELSE bioOf[f]]
       /\ incoming_bio_list' = Append(incoming_bio_list, e)
  /\ bio' = [bio EXCEPT ![b] = "queued"]
  /\ submit' = [submit EXCEPT ![b] = "wake"]
  /\ arrived' = Append(arrived, b)
  /\ UNCHANGED <<pending_bio_list, data_current_bio, inFlight, pages, disk,
                 calls, opened, fault, seen>>

\* Mutant: list_add() in place of list_add_tail().
MakeRequestAtHead(b) ==
  /\ bio[b] = "new"
  /\ \E e \in Entries :
       /\ bioOf[e] = NoBio
       /\ bioOf' = [bioOf EXCEPT ![e] = b]
       /\ incoming_bio_list' = <<e>> \o incoming_bio_list
  /\ bio' = [bio EXCEPT ![b] = "queued"]
  /\ submit' = [submit EXCEPT ![b] = "wake"]
  /\ arrived' = Append(arrived, b)
  /\ UNCHANGED <<pending_bio_list, data_current_bio, inFlight, pages, disk,
                 calls, opened, fault, seen>>

\* Allocate an entry and put it at the tail of the incoming list.
MakeRequest(b) ==
  /\ bio[b] = "new"
  /\ \E e \in Entries :
       /\ bioOf[e] = NoBio
       /\ bioOf' = [bioOf EXCEPT ![e] = b]
       /\ incoming_bio_list' = Append(incoming_bio_list, e)
  /\ bio' = [bio EXCEPT ![b] = "queued"]
  /\ submit' = [submit EXCEPT ![b] = "wake"]
  /\ arrived' = Append(arrived, b)
  /\ UNCHANGED <<pending_bio_list, data_current_bio, inFlight, pages, disk,
                 calls, opened, fault, seen>>

\* kmalloc() failed: the bio is answered at once.
RefuseRequest(b) ==
  /\ bio[b] = "new"
  /\ bio' = [bio EXCEPT ![b] = "eio"]
  /\ UNCHANGED <<lists, submit, inFlight, pages, disk, calls, opened, fault, history>>

\* Mutant: an exclusive wake-up that reaches one waiter.
WakeOneReader(b) ==
  /\ submit[b] = "wake"
  /\ submit' = [submit EXCEPT ![b] = "count"]
  /\ \/ reader_queue = {} /\ UNCHANGED reader_queue
     \/ \E c \in reader_queue : reader_queue' = reader_queue \ {c}
  /\ UNCHANGED <<lists, bio, inFlight, pages, disk, pc, ent, req, mapped,
                 opened, fault, history>>

\* Mutant: wake_up() is missing.
WakeNobody(b) ==
  /\ submit[b] = "wake"
  /\ submit' = [submit EXCEPT ![b] = "count"]
  /\ UNCHANGED <<lists, bio, inFlight, pages, disk, calls, opened, fault, history>>

\* wake_up() makes every queued waiter runnable.
WakeReaders(b) ==
  /\ submit[b] = "wake"
  /\ submit' = [submit EXCEPT ![b] = "count"]
  /\ reader_queue' = {}
  /\ UNCHANGED <<lists, bio, inFlight, pages, disk, pc, ent, req, mapped,
                 opened, fault, history>>

\* Mutant: a bio answered in the meantime is not counted any more.
CountQueued(b) ==
  /\ submit[b] = "count"
  /\ submit' = [submit EXCEPT ![b] = "none"]
  /\ inFlight' = IF bio[b] = "queued" THEN [inFlight EXCEPT ![Dir[b]] = @ + 1]
                                      ELSE inFlight
  /\ UNCHANGED <<lists, bio, pages, disk, calls, opened, fault, history>>

\* part_inc_in_flight(): by now the bio may already have been answered.
CountRequest(b) ==
  /\ submit[b] = "count"
  /\ submit' = [submit EXCEPT ![b] = "none"]
  /\ inFlight' = [inFlight EXCEPT ![Dir[b]] = @ + 1]
  /\ UNCHANGED <<lists, bio, pages, disk, calls, opened, fault, history>>

-----------------------------------------------------------------------------
(* Opening and closing the character device. *)

Open(f) ==
  /\ f \notin opened
  /\ opened' = opened \cup {f}
  /\ UNCHANGED <<lists, block, calls, fault, history>>

ThreadsOf(f) == {c \in Clients : FileOf[c] = f}

\* Mutant: list_splice_tail() without re-initialising the pending list.
ReleaseNoInit(f) ==
  /\ f \in opened
  /\ \A c \in ThreadsOf(f) : pc[c] = "user"
  /\ incoming_bio_list' = incoming_bio_list \o pending_bio_list
  /\ opened' = opened \ {f}
  /\ mapped' = [c \in Clients |-> IF c \in ThreadsOf(f) THEN NoBio ELSE mapped[c]]
  /\ UNCHANGED <<pending_bio_list, data_current_bio, bioOf, block, reader_queue, pc,
                 ent, req, fault, history>>

\* Mutant: the pending list is not returned.
ReleaseKeepsPending(f) ==
  /\ f \in opened
  /\ \A c \in ThreadsOf(f) : pc[c] = "user"
  /\ opened' = opened \ {f}
  /\ mapped' = [c \in Clients |-> IF c \in ThreadsOf(f) THEN NoBio ELSE mapped[c]]
  /\ UNCHANGED <<lists, block, reader_queue, pc, ent, req, fault, history>>

\* The last reference to the file goes away: no thread of it is in a system call
\* and its mappings are gone.  The whole pending list goes back to the tail of
\* the incoming list, while user space may keep the ids it has read.
Release(f) ==
  /\ f \in opened
  /\ \A c \in ThreadsOf(f) : pc[c] = "user"
  /\ incoming_bio_list' = incoming_bio_list \o pending_bio_list
  /\ pending_bio_list' = <<>>
  /\ opened' = opened \ {f}
  /\ mapped' = [c \in Clients |-> IF c \in ThreadsOf(f) THEN NoBio ELSE mapped[c]]
  /\ UNCHANGED <<data_current_bio, bioOf, block, reader_queue, pc, ent, req, fault,
                 history>>

-----------------------------------------------------------------------------
(* Reading a request header, and poll(). *)

InUser(c) == FileOf[c] \in opened /\ pc[c] = "user"

GoTo(c, place) == pc' = [pc EXCEPT ![c] = place]

\* The operation returns, its local "entry" is gone.
Return(c) == GoTo(c, "user") /\ ent' = [ent EXCEPT ![c] = NULL]

\* prepare_to_wait() of a header read, poll_wait() of a poll: the thread is
\* in the wait queue before it looks at the list.
PrepareToWait(c, place) ==
  /\ InUser(c) /\ place \in Calls
  /\ GoTo(c, place)
  /\ reader_queue' = reader_queue \cup {c}
  /\ UNCHANGED <<lists, block, ent, req, mapped, opened, fault, history>>

ReadRequest(c) == PrepareToWait(c, "rd_check")
Poll(c) == PrepareToWait(c, "po_check")

\* The list is empty.  A contended mutex_lock() leaves the task runnable.
FindEmpty(c) ==
  /\ incoming_bio_list = <<>>
  /\ \/ pc[c] = "rd_check" /\ GoTo(c, "rd_sleep")
     \/ pc[c] = "po_check" /\ GoTo(c, "po_sleep")
  /\ reader_queue' \in {reader_queue, reader_queue \ {c}}
  /\ UNCHANGED <<lists, block, ent, req, mapped, opened, fault, history>>

\* Mutant: the entry stays on the incoming list until it is completed.
DeliverCopy(c) ==
  /\ pc[c] = "rd_check"
  /\ incoming_bio_list # <<>>
  /\ LET e == Head(incoming_bio_list) IN
       /\ req' = [req EXCEPT ![c] = [id |-> e, bio |-> bioOf[e]]]
       /\ seen' = seen \cup {bioOf[e]}
  /\ reader_queue' = reader_queue \ {c}
  /\ GoTo(c, "user")
  /\ UNCHANGED <<lists, block, ent, mapped, opened, fault, arrived>>

\* Mutant: reading a request also makes it the data-current one.
DeliverAndChoose(c) ==
  /\ pc[c] = "rd_check"
  /\ incoming_bio_list # <<>>
  /\ LET e == Head(incoming_bio_list) IN
       /\ incoming_bio_list' = Tail(incoming_bio_list)
       /\ pending_bio_list' = Append(pending_bio_list, e)
       /\ data_current_bio' = e
       /\ req' = [req EXCEPT ![c] = [id |-> e, bio |-> bioOf[e]]]
       /\ seen' = seen \cup {bioOf[e]}
  /\ reader_queue' = reader_queue \ {c}
  /\ GoTo(c, "user")
  /\ UNCHANGED <<bioOf, block, ent, mapped, opened, fault, arrived>>

\* The thread takes the head of the list: the header goes to user space, the
\* entry to the tail of the pending list.
DeliverHeader(c) ==
  /\ pc[c] = "rd_check"
  /\ incoming_bio_list # <<>>
  /\ LET e == Head(incoming_bio_list) IN
       /\ incoming_bio_list' = Tail(incoming_bio_list)
       /\ pending_bio_list' = Append(pending_bio_list, e)
       /\ req' = [req EXCEPT ![c] = [id |-> e, bio |-> bioOf[e]]]
       /\ seen' = seen \cup {bioOf[e]}
  /\ reader_queue' = reader_queue \ {c}
  /\ GoTo(c, "user")
  /\ UNCHANGED <<data_current_bio, bioOf, block, ent, mapped, opened, fault,
                 arrived>>

\* poll() reports the device readable.
ReportReadable(c) ==
  /\ pc[c] = "po_check"
  /\ incoming_bio_list # <<>>
  /\ reader_queue' = reader_queue \ {c}
  /\ GoTo(c, "user")
  /\ UNCHANGED <<lists, block, ent, req, mapped, opened, fault, history>>

\* schedule() returned after a wake-up: look at the list again.
Awaken(c) ==
  /\ c \notin reader_queue
  /\ \/ pc[c] = "rd_sleep" /\ GoTo(c, "rd_check")
     \/ pc[c] = "po_sleep" /\ GoTo(c, "po_check")
  /\ reader_queue' = reader_queue \cup {c}
  /\ UNCHANGED <<lists, block, ent, req, mapped, opened, fault, history>>

\* A signal (or poll()'s timeout) ends the sleep, woken up or not.
Interrupt(c) ==
  /\ pc[c] \in {"rd_sleep", "po_sleep"}
  /\ reader_queue' = reader_queue \ {c}
  /\ GoTo(c, "user")
  /\ UNCHANGED <<lists, block, ent, req, mapped, opened, fault, history>>

-----------------------------------------------------------------------------
(* Operations on the data-current request. *)

\* Writing sizeof(uintptr_t) bytes stores the id, unchecked.
SetRequest(c) ==
  /\ InUser(c)
  /\ req[c] # NoReq
  /\ data_current_bio' = req[c].id
  /\ UNCHANGED <<incoming_bio_list, pending_bio_list, bioOf, block, calls,
                 opened, fault, history>>

\* Every other operation starts by copying data_current_bio under the lock,
\* and drops the lock.  A thread reads the data of a WRITE request and writes
\* that of a READ one; it completes whatever is current.
FetchCurrent(c, op) ==
  /\ InUser(c) /\ op \in Calls
  /\ op \in {"end_ok", "end_eio"} \/ req[c] # NoReq
  /\ op = "rd_data" => Dir[req[c].bio] = "WRITE"
  /\ op = "wr_data" => Dir[req[c].bio] = "READ"
  /\ GoTo(c, op)
  /\ ent' = [ent EXCEPT ![c] = data_current_bio]
  /\ UNCHANGED <<lists, block, reader_queue, req, mapped, opened, fault,
                 history>>

Allocated(e) == e \in Entries /\ bioOf[e] # NoBio
CurrentBio(c) == bioOf[ent[c]]

\* The entry of the operation is not there any more, or never was, or it is still
\* there but its bio went back to its owner.
UseStaleEntry(c) ==
  /\ pc[c] \in DataOps
  /\ ent[c] \notin Linked
  /\ fault' = "stale"
  /\ UNCHANGED <<lists, block, calls, opened, history>>

\* The two directions of a transfer between the pages of bio b and what user
\* space holds for the request of thread c.
ToUser(c, b) == disk' = [disk EXCEPT ![req[c].bio] = pages[b]] /\ UNCHANGED pages
FromUser(c, b) == pages' = [pages EXCEPT ![b] = disk[req[c].bio]] /\ UNCHANGED disk

\* copy_to_user() of a WRITE bio's pages.
ReadData(c) ==
  /\ pc[c] = "rd_data"
  /\ Allocated(ent[c]) /\ Dir[CurrentBio(c)] = "WRITE"
  /\ ToUser(c, CurrentBio(c))
  /\ Return(c)
  /\ UNCHANGED <<lists, bio, submit, inFlight, reader_queue, req, mapped,
                 opened, fault, history>>

\* copy_from_user() into a READ bio's pages.
WriteData(c) ==
  /\ pc[c] = "wr_data"
  /\ Allocated(ent[c]) /\ Dir[CurrentBio(c)] = "READ"
  /\ FromUser(c, CurrentBio(c))
  /\ Return(c)
  /\ UNCHANGED <<lists, bio, submit, inFlight, reader_queue, req, mapped,
                 opened, fault, history>>

\* -EIO: the direction or the size does not fit, or a copy faulted half way
\* and left a mixture in the pages or in user space.
TransferFails(c) ==
  /\ pc[c] \in {"rd_data", "wr_data", "mmap"}
  /\ Allocated(ent[c])
  /\ \/ UNCHANGED <<pages, disk>>
     \/ /\ pc[c] = "wr_data" /\ Dir[CurrentBio(c)] = "READ"
        /\ pages' = [pages EXCEPT ![CurrentBio(c)] = NoBio]
        /\ UNCHANGED disk
     \/ /\ pc[c] = "rd_data" /\ Dir[CurrentBio(c)] = "WRITE"
        /\ disk' = [disk EXCEPT ![req[c].bio] = NoBio]
        /\ UNCHANGED pages
  /\ Return(c)
  /\ UNCHANGED <<lists, bio, submit, inFlight, reader_queue, req, mapped, opened,
                 fault, history>>

\* bdtunch_mmap() maps the pages of the data-current bio.
MapData(c) ==
  /\ pc[c] = "mmap"
  /\ Allocated(ent[c])
  /\ mapped[c] = NoBio
  /\ mapped' = [mapped EXCEPT ![c] = CurrentBio(c)]
  /\ Return(c)
  /\ UNCHANGED <<lists, block, reader_queue, req, opened, fault, history>>

\* User space moves the data of its request through the mapping.
UseMapping(c) ==
  /\ InUser(c)
  /\ mapped[c] # NoBio /\ req[c] # NoReq
  /\ IF Dir[req[c].bio] = "READ" THEN FromUser(c, mapped[c])
                                 ELSE ToUser(c, mapped[c])
  /\ UNCHANGED <<lists, bio, submit, inFlight, calls, opened, fault, history>>

Unmap(c) ==
  /\ InUser(c)
  /\ mapped[c] # NoBio
  /\ mapped' = [mapped EXCEPT ![c] = NoBio]
  /\ UNCHANGED <<lists, block, reader_queue, pc, ent, req, opened, fault,
                 history>>

\* Mutant: the test of the byte is inverted.
InvertedOp(byte) == IF byte = 0 THEN "end_eio" ELSE "end_ok"

\* The operation a completion byte starts.
CompletionOp(byte) == IF byte # 0 THEN "end_eio" ELSE "end_ok"
Answer(op) == IF op = "end_eio" THEN "eio" ELSE "ok"

\* bio_endio() and bdtun_update_iostat().  The statistics read the direction from
\* the bio after bio_endio() gave it back to its owner, so any direction may be
\* found there.
AnswerBio(c) ==
  /\ pc[c] \in {"end_ok", "end_eio"}
  /\ bio' = [bio EXCEPT ![CurrentBio(c)] = Answer(pc[c])]
  /\ \E rw \in Rw : inFlight' = [inFlight EXCEPT ![rw] = @ - 1]

\* Mutant: list_del() and kfree() are missing.
CompleteInPlace(c) ==
  /\ Allocated(ent[c])
  /\ AnswerBio(c)
  /\ Return(c)
  /\ UNCHANGED <<lists, submit, pages, disk, reader_queue, req, mapped, opened,
                 fault, history>>

\* The bio is answered and its entry unlinked.  data_current_bio stays, and the
\* thread drops the lock with the entry still allocated.
Complete(c) ==
  /\ ent[c] \in Linked
  /\ AnswerBio(c)
  /\ pending_bio_list' = RemoveFirst(pending_bio_list, ent[c])
  /\ incoming_bio_list' = RemoveFirst(incoming_bio_list, ent[c])
  /\ GoTo(c, "free")
  /\ UNCHANGED <<data_current_bio, bioOf, submit, pages, disk, reader_queue, ent, req,
                 mapped, opened, fault, history>>

\* kfree(), outside the lock.
FreeEntry(c) ==
  /\ pc[c] = "free"
  /\ bioOf' = [bioOf EXCEPT ![ent[c]] = NoBio]
  /\ Return(c)
  /\ UNCHANGED <<incoming_bio_list, pending_bio_list, data_current_bio, block,
                 reader_queue, req, mapped, opened, fault, history>>

\* Between the two a thread that had fetched the same entry answers the bio
\* a second time, before its list_del() meets the poisoned pointers.
CompleteAgain(c) ==
  /\ Allocated(ent[c]) /\ ent[c] \notin Linked
  /\ AnswerBio(c)
  /\ fault' = "unlinked"
  /\ UNCHANGED <<lists, submit, pages, disk, calls, opened, history>>

\* list_del() is called with the pending list's lock alone.  An entry on the
\* incoming list is unlinked under the hands of whoever holds that one's lock.
UnlinkUnlocked(c) ==
  /\ pc[c] \in {"end_ok", "end_eio"}
  /\ ent[c] \in Incoming
  /\ fault' = "unlocked"
  /\ UNCHANGED <<lists, block, calls, opened, history>>

-----------------------------------------------------------------------------
Submit(b) ==
  MakeRequest(b) \/ RefuseRequest(b) \/ WakeReaders(b) \/ CountRequest(b)

Header(c) ==
  \/ ReadRequest(c) \/ FindEmpty(c) \/ DeliverHeader(c)
  \/ Awaken(c) \/ Interrupt(c)

Transfer(c) == ReadData(c) \/ WriteData(c) \/ MapData(c) \/ TransferFails(c)

Finish(c) ==
  \/ Complete(c) \/ FreeEntry(c)
  \/ CompleteAgain(c) \/ UnlinkUnlocked(c) \/ UseStaleEntry(c)

Thread(c) ==
  \/ Header(c) \/ Poll(c) \/ ReportReadable(c)
  \/ SetRequest(c) \/ (\E op \in DataOps : FetchCurrent(c, op))
  \/ Transfer(c) \/ UseMapping(c) \/ Unmap(c) \/ Finish(c)

\* After undefined behaviour the model has nothing left to say.
Next ==
  /\ fault = "none"
  /\ \/ \E b \in Bios : Submit(b)
     \/ \E f \in Files : Open(f) \/ Release(f)
     \/ \E c \in Clients : Thread(c)

Spec == Init /\ [][Next]_vars
-----------------------------------------------------------------------------
(* What the tunnel guarantees to any set of threads. *)

Unanswered == {b \in Bios : bio[b] = "queued"}

Freeing == {c \in Clients : pc[c] = "free"}

\* No request is lost or doubled by the moves between the two lists, whatever
\* the threads do: the linked entries, each linked in one place, hold exactly
\* the unanswered bios, one each; every other allocated entry is in the hands of
\* the one thread that has answered its bio and is about to free it.
EachBioOnce ==
  /\ IsInjective(incoming_bio_list) /\ IsInjective(pending_bio_list)
  /\ Incoming \cap Pending = {}
  /\ {e \in Entries : Allocated(e)} = Linked \cup {ent[c] : c \in Freeing}
  /\ \A c \in Freeing : ent[c] \notin Linked /\ \A d \in Freeing \ {c} : ent[d] # ent[c]
  /\ \A c \in Freeing : bio[CurrentBio(c)] \in {"ok", "eio"}
  /\ \A e, f \in Entries : Allocated(e) /\ bioOf[e] = bioOf[f] => e = f
  /\ {bioOf[e] : e \in Linked} = Unanswered

\* Requests reach user space in the order the block layer queued them: when a
\* bio has been read, every bio queued before it has been read or answered.
\* Returning the pending list on release() does not change that.
FirstReadInOrder ==
  \A i, j \in DOMAIN arrived :
    i < j /\ arrived[j] \in seen => arrived[i] \in seen \/ bio[arrived[i]] # "queued"

\* A thread that sleeps in read() or poll() while a bio nobody has read yet is
\* queued is about to be woken: the submitter of that bio has still to call
\* wake_up().
NoLostWakeup ==
  \A c \in reader_queue : pc[c] \in {"rd_sleep", "po_sleep"} =>
    \A e \in Incoming : bioOf[e] \notin seen => submit[bioOf[e]] = "wake"

Uncounted == {b \in Bios : submit[b] # "none"}
CountedTwice == IF fault = "unlinked" THEN 1 ELSE 0

\* The in-flight counters may be split wrongly between the directions and may
\* lag behind, but their sum is that of the unanswered bios less the submitters
\* that have still to count: it returns to zero when the device is idle.  Only a
\* second completion that runs into the poisoned list_del() has counted
\* one bio down twice.
InFlightBalance ==
  inFlight["READ"] + inFlight["WRITE"] =
    Cardinality(Unanswered) - Cardinality(Uncounted) - CountedTwice

AnswersStay == \A b \in Bios : bio[b] \in {"ok", "eio"} => bio'[b] = bio[b]

\* An answered bio belongs to its owner again, and is not answered another time,
\* whatever stale id is made current and whatever bio has its address now: a
\* thread that does so all the same, between list_del() and kfree(), never
\* gets out of its critical section.
AnsweredOnce == [][AnswersStay \/ fault' = "unlinked"]_vars

\* Locks, sleeping threads, crashes and unchecked ids left out, the two lists are
\* a queue with a set-aside list: every step of the tunnel is one move of that
\* queue, or none.
Queue == INSTANCE BioLists WITH incoming <- incoming_bio_list, pending <- pending_bio_list
ListsSpec == Queue!Spec
=============================================================================
