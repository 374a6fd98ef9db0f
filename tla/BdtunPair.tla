----------------------------- MODULE BdtunPair ------------------------------
(***************************************************************************)
(* A device pair at work: the life of the devices of BdtunDevice together  *)
(* with the requests that the programs on the block device ends, and the   *)
(* partition scans of add_disk(), wait for, and the drivers on the         *)
(* character device ends that answer them.  What happens to a request      *)
(* between the two ends is in BdtunTunnel and BdtunBackend; here it is     *)
(* waiting or answered, as in BioService.                                  *)
(***************************************************************************)
EXTENDS BdtunDevice

\* A program is not a device.
ASSUME PairAssumption == Users \cap Devices = {} /\ {"freed", "stray"} \cap Devices = {}

VARIABLES
  end,   \* the end of a device a user has, or is opening
  io,    \* does this user, or the scan of this device, wait for a request?
  tail   \* the device in the hand of the thread that has queued a user's request and
         \* has not left bdtun_make_request() yet; "freed", a pointer to a freed
         \* one, "stray" once it has been used

pvars == <<vars, end, io, tail>>

Requesters == Users \cup Devices
DeviceOf(r) == IF r \in Users THEN udev[r] ELSE r

PInit ==
  /\ Init
  /\ end = [u \in Users |-> "none"]
  /\ io = [r \in Requesters |-> FALSE]
  /\ tail = [u \in Users |-> NULL]

\* An open begins at one of the ends.
BeginOpen(u, d) ==
  /\ \/ OpenChr(u, d) /\ end' = [end EXCEPT ![u] = "chr"]
     \/ OpenDisk(u, d) /\ end' = [end EXCEPT ![u] = "disk"]
  /\ UNCHANGED <<io, tail>>

FinishOpen(u) ==
  /\ OpenEnd(u)
  /\ end' = IF upc'[u] = "in" THEN end ELSE [end EXCEPT ![u] = "none"]
  /\ UNCHANGED <<io, tail>>

\* A program reads or writes through the block end: bdtun_make_request() up to the
\* bio on the list.  One request, and one thread that submits, at a time.
Issue(u) ==
  /\ upc[u] = "in" /\ end[u] = "disk" /\ ~io[u] /\ tail[u] = NULL
  /\ io' = [io EXCEPT ![u] = TRUE]
  /\ tail' = [tail EXCEPT ![u] = udev[u]]
  /\ UNCHANGED <<vars, end>>

\* The rest: the wake_up() and the statistics, through the device.
EndSubmit(u) ==
  /\ tail[u] \in Devices
  /\ tail' = [tail EXCEPT ![u] = NULL]
  /\ UNCHANGED <<vars, end, io>>

\* The request has been answered and the device removed before that.
StraySubmit(u) ==
  /\ tail[u] = "freed"
  /\ tail' = [tail EXCEPT ![u] = "stray"]
  /\ UNCHANGED <<vars, end, io>>

\* A driver on the character end of the same device answers a request.
Served(u, r) ==
  /\ upc[u] = "in" /\ end[u] = "chr" /\ udev[u] = DeviceOf(r) /\ io[r]
  /\ io' = [io EXCEPT ![r] = FALSE]
  /\ UNCHANGED <<vars, end, tail>>

\* The block layer ends a program's requests before it calls release(), but does not
\* wait for the thread that submitted one for it; a driver may leave while requests
\* wait.
LetGo(u) ==
  /\ Close(u) /\ ~io[u]
  /\ end' = [end EXCEPT ![u] = "none"]
  /\ UNCHANGED <<io, tail>>

\* add_disk() reads the first sectors of a disk it could open, submitting the read
\* itself, and goes on when it has been answered.
Scan(d) ==
  /\ \/ AddDisk(d) /\ io' = [io EXCEPT ![d] = work'[d] = "scanning"]
     \/ ScanEnds(d) /\ ~io[d] /\ UNCHANGED io
     \/ AddDiskFinished(d) /\ UNCHANGED io
  /\ UNCHANGED <<end, tail>>

Rest ==
  /\ \/ Load \/ Unload
     \/ \E a \in Admins : Admin(a)
     \/ \E u \in Users : OpenStale(u)
     \/ \E d \in Devices : StrayWork(d)
  /\ tail' = [u \in Users |-> IF tail[u] \in live \ live' THEN "freed" ELSE tail[u]]
  /\ UNCHANGED <<end, io>>

PNext ==
  /\ fault = "none" /\ \A u \in Users : tail[u] # "stray"
  /\ \/ \E u \in Users :
          \/ \E d \in Devices : BeginOpen(u, d)
          \/ FinishOpen(u) \/ Issue(u) \/ EndSubmit(u) \/ StraySubmit(u) \/ LetGo(u)
          \/ \E r \in Requesters : Served(u, r)
     \/ \E d \in Devices : Scan(d)
     \/ Rest

PSpec == PInit /\ [][PNext]_pvars
-----------------------------------------------------------------------------
\* "TODO: I don't think this is needed. Check." (kernel/bdtun.c:962) of the loop
\* that would fail the waiting requests of a device being removed: it is not. A
\* request that waits has its device, not marked for removal, with the disk and
\* the queue's pointer still in place, so a removal never meets one.
RequestsMeetDevice ==
  \A r \in Requesters : io[r] =>
    LET d == DeviceOf(r) IN
      d \in live /\ ~removing[d] /\ d \in disks /\ queuedata[d]
=============================================================================
