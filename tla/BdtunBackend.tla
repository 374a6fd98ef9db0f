---------------------------- MODULE BdtunBackend ----------------------------
(***************************************************************************)
(* A tunnel together with the user space drivers that serve it through the *)
(* client functions of lib/libbdtun.c.  All threads that share an open     *)
(* file are one process.  A thread reads a request, and then, holding its  *)
(* process's lock, makes the request the data-current one, moves the data  *)
(* by copying or through a mapping, and completes or fails the request:    *)
(* the synchronisation the library asks of a multithreaded driver.  A      *)
(* process may die between any two of its steps.                           *)
(***************************************************************************)
EXTENDS BdtunTunnel

CONSTANT FailByte   \* what a driver writes to fail a request

\* The lock of a process that no thread holds is told from one that is held.
ASSUME BackendAssumption == NULL \notin Clients

VARIABLES
  stage,   \* how far a thread has come with its request
  lock,    \* the thread that holds a process's lock
  judged   \* history: the verdict of the thread that finished a bio last

bvars == <<vars, stage, lock, judged>>

BInit ==
  /\ Init
  /\ stage = [c \in Clients |-> "idle"]
  /\ lock = [f \in Files |-> NULL]
  /\ judged = [b \in Bios |-> "none"]

At(c, s) == stage[c] = s
GoOn(c, s) == stage' = [stage EXCEPT ![c] = s]

\* bdtun_read_request(): -EINTR makes the thread retry.
GetRequest(c) ==
  /\ At(c, "idle")
  /\ \/ DeliverHeader(c) /\ GoOn(c, "have")
     \/ /\ ReadRequest(c) \/ FindEmpty(c) \/ Awaken(c) \/ Interrupt(c)
        /\ UNCHANGED stage
  /\ UNCHANGED <<lock, judged>>

\* Mutant: a process without a lock.
TakeNoLock(c) ==
  /\ At(c, "have")
  /\ lock' = [lock EXCEPT ![FileOf[c]] = c]
  /\ GoOn(c, "set")
  /\ UNCHANGED <<vars, judged>>

\* The synchronisation the library leaves to the program.
TakeLock(c) ==
  /\ At(c, "have") /\ lock[FileOf[c]] = NULL
  /\ lock' = [lock EXCEPT ![FileOf[c]] = c]
  /\ GoOn(c, "set")
  /\ UNCHANGED <<vars, judged>>

\* bdtun_set_request()
ChooseRequest(c) ==
  /\ At(c, "set") /\ SetRequest(c) /\ GoOn(c, "move")
  /\ UNCHANGED <<lock, judged>>

\* Mutant: the result of the transfer is ignored.
MoveDataUnchecked(c) ==
  /\ At(c, "move") /\ mapped[c] = NoBio
  /\ \/ /\ \/ \E op \in {"rd_data", "wr_data", "mmap"} : FetchCurrent(c, op)
           \/ MapData(c)
        /\ UNCHANGED stage
     \/ (ReadData(c) \/ WriteData(c) \/ TransferFails(c)) /\ GoOn(c, "moved")
  /\ UNCHANGED <<lock, judged>>

\* bdtun_get_request_data(), bdtun_send_request_data() or
\* bdtun_mmap_request(): a failed call may be repeated.
MoveData(c) ==
  /\ At(c, "move") /\ mapped[c] = NoBio
  /\ \/ /\ \/ \E op \in {"rd_data", "wr_data", "mmap"} : FetchCurrent(c, op)
           \/ MapData(c) \/ TransferFails(c)
        /\ UNCHANGED stage
     \/ (ReadData(c) \/ WriteData(c)) /\ GoOn(c, "moved")
  /\ UNCHANGED <<lock, judged>>

\* bdtun_munmap_request() comes last.
MoveByMapping(c) ==
  /\ \/ At(c, "move") /\ UseMapping(c) /\ GoOn(c, "moved")
     \/ At(c, "moved") /\ Unmap(c) /\ UNCHANGED stage
  /\ UNCHANGED <<lock, judged>>

\* A request whose data has been moved may be completed, any request may be
\* failed.
Judge(c, verdict) ==
  /\ stage[c] \in {"move", "moved"} /\ mapped[c] = NoBio
  /\ verdict = "ok" => At(c, "moved")
  /\ FetchCurrent(c, CompletionOp(IF verdict = "ok" THEN 0 ELSE FailByte))
  /\ judged' = [judged EXCEPT ![req[c].bio] = verdict]
  /\ GoOn(c, "end")
  /\ UNCHANGED lock

\* The request is answered; the system call is still under way.
Finishes(c) ==
  /\ At(c, "end") /\ Complete(c) /\ GoOn(c, "done")
  /\ UNCHANGED <<lock, judged>>

\* The completion returns and the thread lets go of the lock.
End(c) ==
  /\ At(c, "done") /\ FreeEntry(c)
  /\ lock' = [lock EXCEPT ![FileOf[c]] = NULL]
  /\ GoOn(c, "idle")
  /\ UNCHANGED judged

GoWrong(c) ==
  /\ UseStaleEntry(c) \/ UnlinkUnlocked(c) \/ CompleteAgain(c)
  /\ UNCHANGED <<stage, lock, judged>>

Serve(c) ==
  \/ GetRequest(c) \/ TakeLock(c) \/ ChooseRequest(c) \/ MoveData(c)
  \/ MoveByMapping(c) \/ (\E v \in {"ok", "eio"} : Judge(c, v))
  \/ Finishes(c) \/ End(c) \/ GoWrong(c)

\* The process ends: its threads and its lock are gone with its file.
Die(f) ==
  /\ Release(f)
  /\ stage' = [c \in Clients |-> IF c \in ThreadsOf(f) THEN "idle" ELSE stage[c]]
  /\ lock' = [lock EXCEPT ![f] = NULL]
  /\ UNCHANGED judged

Start(f) == Open(f) /\ UNCHANGED <<stage, lock, judged>>
Kernel(b) == Submit(b) /\ UNCHANGED <<stage, lock, judged>>

BNext ==
  /\ fault = "none"
  /\ \/ \E b \in Bios : Kernel(b)
     \/ \E f \in Files : Start(f) \/ Die(f)
     \/ \E c \in Clients : Serve(c)

BSpec == BInit /\ [][BNext]_bvars
-----------------------------------------------------------------------------
(* What the tunnel and its drivers guarantee together. *)

InHand(c) == stage[c] \notin {"idle", "done"}

\* Disciplined threads never reach undefined behaviour: no thread uses an entry
\* after list_del() or kfree(), and none is unlinked without the lock of its list,
\* although nothing in the kernel checks the id of bdtun_set_request() and the code
\* drops the lock between fetching data_current_bio and using the entry, and
\* again between list_del() and kfree().
NoFault == fault = "none"

\* Between reading a request and completing it, a thread owns it: the entry stays
\* on the pending list, still holds the bio whose header was read, and no other
\* thread has it in hand.
Ownership ==
  \A c \in Clients : InHand(c) =>
    /\ req[c].id \in Pending
    /\ bioOf[req[c].id] = req[c].bio
    /\ \A d \in Clients \ {c} : InHand(d) => req[d].id # req[c].id

\* Inside the process's critical section the data-current request is the
\* thread's own, so its transfers and its completion hit the bio it means.
CurrentIsOwn ==
  \A c \in Clients : stage[c] \in {"move", "moved", "end", "done"} => data_current_bio = req[c].id

\* The block layer is told what the thread that finished the bio decided.
AnswerIsVerdict ==
  \A b \in Bios : bio[b] \in {"ok", "eio"} /\ judged[b] # "none" => bio[b] = judged[b]

\* What the kernel alone does not promise, the discipline does: no thread comes
\* between list_del() and kfree() with the same entry, and every answer stands,
\* whatever byte a request is failed with and however often it was read.
AnswersStand == [][AnswersStay]_bvars

\* However requests are returned by dying processes, read again and their data
\* moved again, a bio completed with success has its own content at both ends.
Service == INSTANCE BioService
ServiceSpec == Service!Spec

-----------------------------------------------------------------------------
(* Progress. *)

\* Submitters run on to their wake_up(); a driver thread that can take its next
\* step does; a transfer that fails is not repeated for ever.  Nothing is asked
\* of a run whose behaviour has become undefined.
Reads(c) == GetRequest(c) /\ ~Interrupt(c)
Works(c) ==
  \/ TakeLock(c) \/ ChooseRequest(c) \/ MoveData(c) \/ MoveByMapping(c)
  \/ Finishes(c) \/ End(c)
Judges(c) == \E v \in {"ok", "eio"} : Judge(c, v)
Defined == fault = "none"

Fairness ==
  /\ \A b \in Bios : WF_bvars(Defined /\ WakeReaders(b) /\ Kernel(b))
  /\ \A c \in Clients : WF_bvars(Defined /\ Reads(c)) /\ WF_bvars(Defined /\ Works(c))
  /\ \A c \in Clients : SF_bvars(Defined /\ Judges(c))

FairSpec == BSpec /\ Fairness

\* Once every process stays alive, each queued bio is answered: none is forgotten
\* by the lists, by a process that died holding it, by a thread that sleeps or that
\* waits for its process's lock, or because another file was closed meanwhile,
\* unless that last case has led to undefined behaviour.
EveryBioAnswered ==
  <>[](Files \subseteq opened) =>
    \A b \in Bios : bio[b] = "queued" ~> (bio[b] # "queued" \/ ~Defined)
-----------------------------------------------------------------------------
(* What the comments of the repository say of the program, and the code does *)
(* not do.                                                                   *)

\* "These locks should be grabbed every time the lists itselves or the
\* data_current_bio variable are manipulated" (kernel/bdtun.c:67): no entry is
\* unlinked from the incoming list by a completion, which holds the other lock.
LocksGuardLists == fault # "unlocked"
=============================================================================
