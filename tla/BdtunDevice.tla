---------------------------- MODULE BdtunDevice ----------------------------
(***************************************************************************)
(* The devices of the kernel module (kernel/bdtun.c) over their lives: the *)
(* control device that creates and removes them, one command at a time,    *)
(* the work queue that announces a new disk, the programs that open and    *)
(* close the two ends of a device meanwhile, and the loading and unloading *)
(* of the module.                                                          *)
(*                                                                         *)
(* A device is the address of its struct bdtun, which kmalloc() may hand   *)
(* out again.  Creation and removal are split at the points where another  *)
(* thread can see the difference.  What bios do is in BdtunTunnel.         *)
(***************************************************************************)
EXTENDS Integers, Sequences, SequencesExt, FiniteSets

CONSTANTS
  Admins,    \* the processes that use the control device, a descriptor each
  Users,     \* the programs that open the ends of devices
  Devices,   \* the addresses kmalloc() may return for a struct bdtun
  Names,     \* the names of devices
  NULL       \* no device

ASSUME DeviceAssumption ==
  /\ IsFiniteSet(Admins) /\ IsFiniteSet(Users)
  /\ NULL \notin Devices \cup Names
  /\ "scan" \notin Users

VARIABLES
  loaded, refs,        \* the module, and its reference count
  ctrl_lock, response, \* the control device
  apc, adev,           \* where an admin is in its call, and its local "dev"
  asked,               \* history: the last command of an admin since it opened the
                       \* device, "none" again when it has read an answer
  live,                \* the allocated struct bdtun
  device_list,         \* the devices that are set up
  name, removing, ucnt, queuedata,  \* fields; has the queue its queuedata?
  chrs, disks,         \* the devices whose character, block end can be opened
  work,                \* the add_disk work of a device
  upc, udev,           \* where a user is, and the device pointer it holds (NULL
                       \* also for a pointer to a freed device)
  fault                \* the first undefined behaviour reached, if any

module == <<loaded, refs>>
control == <<ctrl_lock, response, apc, adev, asked>>
fields == <<name, removing, ucnt, queuedata>>
devs == <<live, device_list, fields, chrs, disks, work>>
users == <<upc, udev>>
vars == <<module, control, devs, users, fault>>

Listed == Range(device_list)
ListedNames == [i \in DOMAIN device_list |-> name[device_list[i]]]

Removal == {"rm_chr", "rm_queue", "rm_disk", "rm_free"}

DTypeOK ==
  /\ loaded \in BOOLEAN /\ refs \in Nat
  /\ ctrl_lock \in Int
  /\ response \in Seq(Names)
  /\ apc \in [Admins -> {"closed", "busy", "open", "create"} \cup Removal]
  /\ adev \in [Admins -> Devices \cup {NULL}]
  /\ asked \in [Admins -> {"none", "change", "list", "info"}]
  /\ live \in SUBSET Devices
  /\ device_list \in Seq(Devices)
  /\ name \in [Devices -> Names]
  /\ removing \in [Devices -> BOOLEAN]
  /\ ucnt \in [Devices -> Int]
  /\ queuedata \in [Devices -> BOOLEAN]
  /\ chrs \in SUBSET Devices /\ disks \in SUBSET Devices
  /\ work \in [Devices -> {"none", "queued", "scanning", "added"}]
  /\ upc \in [Users -> {"out", "opening", "in"}]
  /\ udev \in [Users -> Devices \cup {NULL}]
  /\ fault \in {"none", "open", "work", "unwind", "nomem"}

Init ==
  /\ loaded = FALSE /\ refs = 0
  /\ ctrl_lock = 1 /\ response = <<>>
  /\ apc = [a \in Admins |-> "closed"] /\ adev = [a \in Admins |-> NULL]
  /\ asked = [a \in Admins |-> "none"]
  /\ live = {} /\ device_list = <<>>
  /\ name \in {[d \in Devices |-> n] : n \in Names}
  /\ removing = [d \in Devices |-> FALSE]
  /\ ucnt = [d \in Devices |-> 0]
  /\ queuedata = [d \in Devices |-> FALSE]
  /\ chrs = {} /\ disks = {}
  /\ work = [d \in Devices |-> "none"]
  /\ upc = [u \in Users |-> "out"] /\ udev = [u \in Users |-> NULL]
  /\ fault = "none"

Fail(what) ==
  fault' = what /\ UNCHANGED <<module, control, devs, users>>

-----------------------------------------------------------------------------
(* The module. *)

\* bdtun_init().
Load ==
  /\ ~loaded
  /\ loaded' = TRUE /\ ctrl_lock' = 1 /\ response' = <<>>
  /\ UNCHANGED <<refs, apc, adev, asked, devs, users, fault>>

\* bdtun_exit(), with its flush of the work queue.  It would remove the devices
\* of the list without taking them from it.
Unload ==
  /\ loaded /\ refs = 0
  /\ \A d \in Devices : work[d] = "none"
  /\ loaded' = FALSE
  /\ UNCHANGED <<refs, control, devs, users, fault>>

-----------------------------------------------------------------------------
(* The control device. *)

\* An admin goes on to a place in its call, with a device in hand.
Goes(a, place, d) ==
  apc' = [apc EXCEPT ![a] = place] /\ adev' = [adev EXCEPT ![a] = d]

Asks(a, command) == asked' = [asked EXCEPT ![a] = command]

\* Mutant: an unlocked test of the lock.
CtrlOpenUnchecked(a) ==
  /\ loaded /\ apc[a] = "closed"
  /\ ctrl_lock' = ctrl_lock - 1
  /\ refs' = refs + 1
  /\ Goes(a, "open", NULL)
  /\ UNCHANGED <<loaded, response, asked, devs, users, fault>>

\* atomic_dec_and_test(); the descriptor refers to the module.
CtrlOpen(a) ==
  /\ loaded /\ apc[a] = "closed"
  /\ ctrl_lock' = ctrl_lock - 1
  /\ refs' = refs + 1
  /\ Goes(a, IF ctrl_lock = 1 THEN "open" ELSE "busy", NULL)
  /\ UNCHANGED <<loaded, response, asked, devs, users, fault>>

\* Mutant: a refused attempt does not put the lock back.
CtrlBusyKeeps(a) ==
  /\ apc[a] = "busy"
  /\ refs' = refs - 1
  /\ Goes(a, "closed", NULL)
  /\ UNCHANGED <<loaded, ctrl_lock, response, asked, devs, users, fault>>

\* -EBUSY, after the lock has been put back.
CtrlBusy(a) ==
  /\ apc[a] = "busy"
  /\ ctrl_lock' = ctrl_lock + 1
  /\ refs' = refs - 1
  /\ Goes(a, "closed", NULL)
  /\ UNCHANGED <<loaded, response, asked, devs, users, fault>>

\* The descriptor is closed, also because the process dies.  An answer that was
\* not read stays for whoever opens the device next.
CtrlRelease(a) ==
  /\ apc[a] = "open"
  /\ ctrl_lock' = ctrl_lock + 1
  /\ refs' = refs - 1
  /\ Goes(a, "closed", NULL)
  /\ Asks(a, "none")
  /\ UNCHANGED <<loaded, response, devs, users, fault>>

\* bdtun_find_device(): the devices of that name on the list.
Found(n) == {d \in Listed : name[d] = n}

\* A list command; the answer fits the buffer.
List(a) ==
  /\ apc[a] = "open"
  /\ response' = ListedNames
  /\ Asks(a, "list")
  /\ UNCHANGED <<module, ctrl_lock, apc, adev, devs, users, fault>>

\* An info command; without such a device nothing changes.
Info(a, n) ==
  /\ apc[a] = "open"
  /\ Found(n) # {}
  /\ response' = <<n>>
  /\ Asks(a, "info")
  /\ UNCHANGED <<module, ctrl_lock, apc, adev, devs, users, fault>>

\* The answer is copied out and forgotten.  A read that faults changes nothing.
CtrlRead(a) ==
  /\ apc[a] = "open"
  /\ response' = <<>>
  /\ Asks(a, "none")
  /\ UNCHANGED <<module, ctrl_lock, apc, adev, devs, users, fault>>

-----------------------------------------------------------------------------
(* Creating a device. *)

\* Mutant: the test for a device of that name is missing.
CreateTwice(a, n) ==
  /\ apc[a] = "open"
  /\ \E d \in Devices \ live :
       /\ work[d] = "none"
       /\ live' = live \cup {d}
       /\ name' = [name EXCEPT ![d] = n]
       /\ removing' = [removing EXCEPT ![d] = FALSE]
       /\ ucnt' = [ucnt EXCEPT ![d] = 0]
       /\ queuedata' = [queuedata EXCEPT ![d] = TRUE]
       /\ chrs' = chrs \cup {d}
       /\ Goes(a, "create", d)
  /\ Asks(a, "change")
  /\ UNCHANGED <<module, ctrl_lock, response, device_list, disks, work, users, fault>>

\* The checks pass, the structure is filled in and cdev_add() makes the
\* character end reachable.  An address whose last add_disk work has not run
\* yet is not used again.
Create(a, n) ==
  /\ apc[a] = "open"
  /\ Found(n) = {}
  /\ \E d \in Devices \ live :
       /\ work[d] = "none"
       /\ live' = live \cup {d}
       /\ name' = [name EXCEPT ![d] = n]
       /\ removing' = [removing EXCEPT ![d] = FALSE]
       /\ ucnt' = [ucnt EXCEPT ![d] = 0]
       /\ queuedata' = [queuedata EXCEPT ![d] = TRUE]
       /\ chrs' = chrs \cup {d}
       /\ Goes(a, "create", d)
  /\ Asks(a, "change")
  /\ UNCHANGED <<module, ctrl_lock, response, device_list, disks, work, users, fault>>

\* Mutant: the device does not refer to the module.
CreateUnreferenced(a) ==
  /\ apc[a] = "create"
  /\ device_list' = Append(device_list, adev[a])
  /\ work' = [work EXCEPT ![adev[a]] = "queued"]
  /\ Goes(a, "open", NULL)
  /\ UNCHANGED <<module, ctrl_lock, response, asked, live, fields, chrs, disks, users,
                 fault>>

\* The disk is allocated, the device listed, its add_disk work queued and the
\* module referred to.
CreateDisk(a) ==
  /\ apc[a] = "create"
  /\ device_list' = Append(device_list, adev[a])
  /\ work' = [work EXCEPT ![adev[a]] = "queued"]
  /\ refs' = refs + 1
  /\ Goes(a, "open", NULL)
  /\ UNCHANGED <<loaded, ctrl_lock, response, asked, live, fields, chrs, disks, users,
                 fault>>

Holders(d) == {u \in Users : upc[u] = "in" /\ udev[u] = d}

\* kfree() of the structure: who is about to lock it holds a dangling pointer,
\* which stays one when the address is used again.
FreeDevice(d) ==
  /\ live' = live \ {d}
  /\ udev' = [u \in Users |-> IF upc[u] = "opening" /\ udev[u] = d THEN NULL ELSE udev[u]]
  /\ UNCHANGED upc

\* device_create() or alloc_disk() failed: cdev_del() and kfree().
CreateFails(a) ==
  /\ apc[a] = "create"
  /\ Holders(adev[a]) = {}
  /\ chrs' = chrs \ {adev[a]}
  /\ FreeDevice(adev[a])
  /\ Goes(a, "open", NULL)
  /\ UNCHANGED <<module, ctrl_lock, response, asked, device_list, fields, disks, work, fault>>

\* Nobody looks at ucnt on that way out.
CreateFailsHeld(a) ==
  apc[a] = "create" /\ Holders(adev[a]) # {} /\ Fail("unwind")

\* kmalloc() of the add_disk work fails and the null pointer is used.
NoWork(a) == apc[a] = "create" /\ Fail("nomem")

-----------------------------------------------------------------------------
(* Removing a device. *)

\* Mutant: the use count is not looked at.
RemoveInUse(a, n) ==
  /\ apc[a] = "open"
  /\ \E d \in Found(n) :
       /\ ~removing[d]
       /\ removing' = [removing EXCEPT ![d] = TRUE]
       /\ Goes(a, "rm_chr", d)
  /\ Asks(a, "change")
  /\ UNCHANGED <<module, ctrl_lock, response, live, device_list, name, ucnt, queuedata,
                 chrs, disks, work, users, fault>>

\* bdtun_remove_k() up to the unlock: not while the device is in use.
RemoveMark(a, n) ==
  /\ apc[a] = "open"
  /\ \E d \in Found(n) :
       /\ ~removing[d] /\ ucnt[d] = 0
       /\ removing' = [removing EXCEPT ![d] = TRUE]
       /\ Goes(a, "rm_chr", d)
  /\ Asks(a, "change")
  /\ UNCHANGED <<module, ctrl_lock, response, live, device_list, name, ucnt, queuedata,
                 chrs, disks, work, users, fault>>

\* cdev_del(), device_destroy().
RemoveChr(a) ==
  /\ apc[a] = "rm_chr"
  /\ chrs' = chrs \ {adev[a]}
  /\ Goes(a, "rm_queue", adev[a])
  /\ UNCHANGED <<module, ctrl_lock, response, asked, live, device_list, fields, disks, work,
                 users, fault>>

\* The queue loses its pointer to the device.
RemoveQueue(a) ==
  /\ apc[a] = "rm_queue"
  /\ queuedata' = [queuedata EXCEPT ![adev[a]] = FALSE]
  /\ Goes(a, "rm_disk", adev[a])
  /\ UNCHANGED <<module, ctrl_lock, response, asked, live, device_list, name, removing, ucnt,
                 chrs, disks, work, users, fault>>

\* del_gendisk(), put_disk(), module_put().
RemoveDisk(a) ==
  /\ apc[a] = "rm_disk"
  /\ disks' = disks \ {adev[a]}
  /\ refs' = refs - 1
  /\ Goes(a, "rm_free", adev[a])
  /\ UNCHANGED <<loaded, ctrl_lock, response, asked, live, device_list, fields, chrs, work,
                 users, fault>>

\* list_del() and kfree().
RemoveFree(a) ==
  /\ apc[a] = "rm_free"
  /\ device_list' = RemoveFirst(device_list, adev[a])
  /\ FreeDevice(adev[a])
  /\ Goes(a, "open", NULL)
  /\ UNCHANGED <<module, ctrl_lock, response, asked, fields, chrs, disks, work, fault>>

-----------------------------------------------------------------------------
(* The add_disk work.  add_disk() makes the disk reachable and opens it to    *)
(* read its partitions, which a user space driver has to serve.              *)

AddDisk(d) ==
  /\ work[d] = "queued"
  /\ d \in live /\ queuedata[d]
  /\ disks' = disks \cup {d}
  /\ IF removing[d]
     THEN work' = [work EXCEPT ![d] = "added"] /\ UNCHANGED ucnt
     ELSE /\ work' = [work EXCEPT ![d] = "scanning"]
          /\ ucnt' = [ucnt EXCEPT ![d] = @ + 1]
  /\ UNCHANGED <<module, control, live, device_list, name, removing, queuedata, chrs,
                 users, fault>>

\* The partitions are read and the disk is closed again.
ScanEnds(d) ==
  /\ work[d] = "scanning"
  /\ work' = [work EXCEPT ![d] = "added"]
  /\ ucnt' = [ucnt EXCEPT ![d] = @ - 1]
  /\ UNCHANGED <<module, control, live, device_list, name, removing, queuedata, chrs,
                 disks, users, fault>>

\* add_disk_finished is set, which nothing reads; until then the work has used the
\* device without a reference to it.
AddDiskFinished(d) ==
  /\ work[d] = "added" /\ d \in live
  /\ work' = [work EXCEPT ![d] = "none"]
  /\ UNCHANGED <<module, control, live, device_list, fields, chrs, disks, users, fault>>

\* The work meets a device that is being taken apart or has been freed.
StrayWork(d) ==
  /\ \/ work[d] = "queued" /\ (d \notin live \/ ~queuedata[d])
     \/ work[d] = "added" /\ d \notin live
  /\ Fail("work")

-----------------------------------------------------------------------------
(* Opening and closing the ends of a device. *)

Moves(u, place, d) ==
  upc' = [upc EXCEPT ![u] = place] /\ udev' = [udev EXCEPT ![u] = d]

\* bdtunch_open() up to the lock: the device is found through its cdev.
OpenChr(u, d) ==
  /\ upc[u] = "out" /\ d \in chrs
  /\ Moves(u, "opening", d)
  /\ refs' = refs + 1
  /\ UNCHANGED <<loaded, control, devs, fault>>

\* bdtun_open() up to the lock: the device is found through the disk's queue.
OpenDisk(u, d) ==
  /\ upc[u] = "out" /\ d \in disks
  /\ Moves(u, "opening", IF queuedata[d] THEN d ELSE NULL)
  /\ refs' = refs + 1
  /\ UNCHANGED <<loaded, control, devs, fault>>

\* Mutant: the removing flag is not tested.
OpenUnflagged(u) ==
  /\ upc[u] = "opening" /\ udev[u] \in live
  /\ Moves(u, "in", udev[u])
  /\ ucnt' = [ucnt EXCEPT ![udev[u]] = @ + 1]
  /\ UNCHANGED <<module, control, live, device_list, name, removing, queuedata, chrs,
                 disks, work, fault>>

\* Mutant: an open is not counted.
OpenUncounted(u) ==
  /\ upc[u] = "opening" /\ udev[u] \in live
  /\ IF removing[udev[u]]
     THEN Moves(u, "out", NULL) /\ refs' = refs - 1
     ELSE Moves(u, "in", udev[u]) /\ UNCHANGED refs
  /\ UNCHANGED <<loaded, control, live, device_list, fields, chrs, disks, work, fault>>

\* The rest, under ru_lock: counted, or refused while the device is removed.
OpenEnd(u) ==
  /\ upc[u] = "opening" /\ udev[u] \in live
  /\ IF removing[udev[u]]
     THEN Moves(u, "out", NULL) /\ refs' = refs - 1 /\ UNCHANGED ucnt
     ELSE /\ Moves(u, "in", udev[u]) /\ UNCHANGED refs
          /\ ucnt' = [ucnt EXCEPT ![udev[u]] = @ + 1]
  /\ UNCHANGED <<loaded, control, live, device_list, name, removing, queuedata, chrs,
                 disks, work, fault>>

\* The lock that is taken belongs to no device.
OpenStale(u) == upc[u] = "opening" /\ udev[u] \notin live /\ Fail("open")

\* bdtun_release() or bdtunch_release().
Close(u) ==
  /\ upc[u] = "in"
  /\ ucnt' = [ucnt EXCEPT ![udev[u]] = @ - 1]
  /\ Moves(u, "out", NULL)
  /\ refs' = refs - 1
  /\ UNCHANGED <<loaded, control, live, device_list, name, removing, queuedata, chrs,
                 disks, work, fault>>

-----------------------------------------------------------------------------
Admin(a) ==
  \/ CtrlOpen(a) \/ CtrlBusy(a) \/ CtrlRelease(a) \/ List(a) \/ CtrlRead(a)
  \/ \E n \in Names : Info(a, n) \/ Create(a, n) \/ RemoveMark(a, n)
  \/ CreateDisk(a) \/ CreateFails(a) \/ CreateFailsHeld(a) \/ NoWork(a)
  \/ RemoveChr(a) \/ RemoveQueue(a) \/ RemoveDisk(a) \/ RemoveFree(a)

User(u) ==
  \/ \E d \in Devices : OpenChr(u, d) \/ OpenDisk(u, d)
  \/ OpenEnd(u) \/ OpenStale(u) \/ Close(u)

Work(d) == AddDisk(d) \/ ScanEnds(d) \/ AddDiskFinished(d) \/ StrayWork(d)

Next ==
  /\ fault = "none"
  /\ \/ Load \/ Unload
     \/ \E a \in Admins : Admin(a)
     \/ \E u \in Users : User(u)
     \/ \E d \in Devices : Work(d)

Spec == Init /\ [][Next]_vars
-----------------------------------------------------------------------------
(* What the life of a device guarantees. *)

Active == {a \in Admins : apc[a] # "closed"}

\* The control device has at most one user, and the atomic counter returns to 1
\* when the last one leaves, however refused attempts overlap with it: each
\* descriptor or attempt holds back exactly one.
ControlExclusive ==
  /\ Cardinality({a \in Admins : apc[a] \notin {"closed", "busy"}}) <= 1
  /\ ctrl_lock = 1 - Cardinality(Active)

\* Whoever reads after a list or info command, as the library does, gets the answer
\* to that very command, and what it says of the devices is still so, whatever was
\* left unread before.  A read without such a command gets what the last command left,
\* its own or another administrator's, "no answer" only if that one was read
\* (kernel/bdtun.c:1078).
ReplyCurrent ==
  \A a \in Admins :
    /\ asked[a] = "list" => response = ListedNames
    /\ asked[a] = "info" => \E d \in Listed : response = <<name[d]>>

\* Two listed devices never share a name: /dev/name is one of them.
NamesUnique == \A d, e \in Listed : name[d] = name[e] => d = e

\* The use count of a device is the number of its open ends, the scan of its
\* partitions included, and a device in use is allocated and not being removed.
InUseKept ==
  \A d \in Devices :
    LET open == Cardinality(Holders(d)) + (IF work[d] = "scanning" THEN 1 ELSE 0) IN
    /\ d \in live => ucnt[d] = open
    /\ open > 0 => d \in live /\ ~removing[d]

\* The module goes away only when no device, no open end and no admin is left.
UnloadedIsIdle ==
  ~loaded => /\ live = {} /\ device_list = <<>>
             /\ Active = {} /\ \A u \in Users : upc[u] = "out"

\* However the steps of a creation, a removal, the add_disk work and the opens of
\* both ends overlap, programs see devices that come and go at one moment each:
\* a device goes only when neither a program nor the scan of its partitions has
\* it open, is not opened after that, and its name is free for the next one.
OpenersOf(d) == Holders(d) \cup (IF work[d] = "scanning" THEN {"scan"} ELSE {})
Registry == INSTANCE DeviceRegistry WITH
  Openers <- Users \cup {"scan"},
  nameOf <- [d \in Devices |-> IF d \in live /\ ~removing[d] THEN name[d] ELSE NULL],
  openers <- [d \in Devices |-> OpenersOf(d)]
RegistrySpec == Registry!Spec
-----------------------------------------------------------------------------
(* What the comments say of the program, and the code does not do. *)

\* "When this flag is 1, the device will be removed shortly. The device should be
\* treated as nonexistent, e.g. shouldn't let to be opened" (kernel/bdtun.c:73): an
\* open that begins has found a device whose flag it can test, not a null pointer.
OpenMeetsFlag ==
  [][\A u \in Users : upc[u] = "out" /\ upc'[u] = "opening" => udev'[u] # NULL]_vars

\* "This variable signals the completion of the add_disk call" (kernel/bdtun.c:85):
\* a device whose add_disk() has not completed is not taken apart under it.
WorkMeetsDevice == fault # "work"
=============================================================================
