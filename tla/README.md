# A TLA+ model of BDTun

BDTun lets a user space program be the driver of a block device. This directory
models the parts of it in which something can go wrong that a test would hardly
reach: the request lists, their locks and their clients, the life of a device, and its
sizes.

## 1. Inventory

| component | where | state | operations |
|---|---|---|---|
| block device end of a tunnel | `kernel/bdtun.c` 125-248 | incoming list, in-flight counters | `bdtun_make_request`, `bdtun_open`, `bdtun_release`, `bdtun_getgeo` |
| character device end | `kernel/bdtun.c` 250-631 | incoming and pending list, `data_current_bio`, `reader_queue` | open, release, read (header, payload), write (set, complete, payload), poll, mmap |
| device life cycle | `kernel/bdtun.c` 633-1043 | `device_list`, `struct bdtun` (`removing`, `ucnt`), `add_disk_q` | create, resize, remove, info, list, the add_disk work |
| control device | `kernel/bdtun.c` 1045-1206 | `ctrl_lock`, one response buffer | open, release, read, write (one command) |
| module | `kernel/bdtun.c` 1208-1304 | reference count | init, exit |
| client library | `lib/libbdtun.c` | none (static buffers of `bdtun_list`) | request functions, management functions |
| command line tool | `util/bdtun.c` | none | create, remove, resize, list, info |
| Python bindings, loop driver | `python/` | none | as the library |

How they interact. The block layer calls `bdtun_make_request()` in any number of
threads; each call appends one entry to the incoming list and wakes the readers.
Driver threads `read()` a header, which moves the entry to the pending list and
gives its address to user space as the request id; they `write()` the id back to
make the entry the *data-current* one, a single pointer for the whole device,
and then every transfer, mapping and completion means that entry. `release()` of
any file puts the whole pending list back behind the incoming one. The control
device is opened by one process at a time; its commands create and remove
devices, a work queue announces a new disk later, and programs may open either
end of a device at any moment.

What is hard: several threads and several files on one device; locks that are
dropped between fetching an entry and using it; ids that are addresses and are
never checked; drivers that die with requests pending; counters raised after the
work they count has become visible; a removal, an open, a deferred work item
and a submitter on its way out racing for one structure. `PROJECT.json` lists these places line by line.

What makes each component correct:

* *tunnel*: no bio is lost or doubled, whatever the threads do, and none is answered
  twice by a completion that gets to its end;
  first reads follow the queueing order; no reader sleeps over a new request;
  the in-flight counters return to zero;
* *driver and library*: disciplined threads never touch a freed entry and always
  work on their own request; success is reported only for data that has moved;
  every queued bio is answered in the end;
* *locks*: the two mutexes of a tunnel make each list operation one step, and no
  operation waits for ever for another one;
* *device life*: a device in use is neither removed nor freed, names are unique,
  the module outlives its devices, programs see a device come and go at one moment,
  and no request waits on a device that is being removed;
* *sizes*: the size fields and the disk's capacity say the same;
* *control device*: one user at a time, and who reads after a command gets the answer
  to that command;
* *listing*: the pages cover the device list and come to an end.

## 2. Modules

| module | models | state |
|---|---|---|
| `BdtunTunnel` | one tunnel, both ends, threads calling anything at any time | the two lists, `data_current_bio`, `bioOf` (allocated entries), wait queue, per-thread call state, counters |
| `BdtunBackend` | `BdtunTunnel` with processes that use the library as it asks | plus the stage of each thread and the lock of each process |
| `BioService` | the abstract service: submit, move, answer | `bio`, `pages`, `disk` |
| `BioLists` | the abstract lists: put, take, give back, drop | `incoming`, `pending` |
| `BdtunLocks` | the inside of the critical sections: mutexes and single list updates | the lists, who holds which lock, where each process is and what it has read |
| `BdtunDevice` | control device, creation, removal, add_disk work, opens, module | see its comments |
| `DeviceRegistry` | the abstract life of devices: create, open, close, remove | `nameOf`, `openers` |
| `BdtunPair` | `BdtunDevice` with the requests that wait on a device and the drivers that answer them | plus the end each program has, who waits, and which thread is still in `bdtun_make_request()` |
| `BdtunSizes` | arguments, create and resize commands, size fields, capacity | one command, one device |
| `BdtunListing` | list command, `bdtun_list()`, list loop of the tool | offset, page, printed names |
| `ListFacts` | lemmas on what the list operations do to lists without repetition | |
| `BdtunTunnelProofs`, `BdtunBackendProofs`, `BdtunLocksProofs`, `BdtunDeviceProofs`, `BdtunPairProofs`, `BdtunSizesProofs`, `BdtunListingProofs` | theorems about the module they are named after (section 4) | |
| `MCTunnel`, `MCBackend`, `MCLocks`, `MCDevice`, `MCPair`, `MCSizes`, `MCListing` | instances for TLC | |

```
 BioService  <=refines=  BdtunBackend  --extends-->  BdtunTunnel  =refines=>  BioLists
                                                                                 ^
 DeviceRegistry  <=refines=  BdtunDevice  <--extends--  BdtunPair    BdtunLocks =+
```

The tunnel is modelled on two levels. `BdtunTunnel` takes each critical section as one
action. `BdtunLocks` looks inside: it has the same operations, but only their locks and
list updates, each a step. Both are shown to implement `BioLists`, so what the first
takes for granted is what the second shows. The mapping of `BdtunLocks` counts an
entry that `list_move_tail()` has taken off one list as already on the other, and a
pending list that has been spliced as already empty; who holds the lock is the only one
who could tell.

`BdtunPair` is the composition of a device's life with its traffic: programs on block
ends issue requests, `add_disk()` issues the reads of its partition scan, and a driver
on the character end of the same device answers. That requests do get answered is the
subject of `BdtunBackend`; here it matters which device they wait on while
administrators remove devices. The module relies on one thing about the block layer, which
is external: it finishes a program's requests before it calls `release()`. It does not take
for granted that the thread which submitted a request has left `bdtun_make_request()` by
then: `tail` follows that thread, which still uses the device for the wake-up and the
statistics, and becomes `stray` when the device has been freed under it. A program
has one request and one such thread at a time.

How the code became actions. Every critical section is one action. What the code
does outside a lock, or between two of them, is an action of its own: a submitter
queues, wakes and counts in three steps, and a transfer or completion fetches
`data_current_bio` in one step (`FetchCurrent`) and uses the entry in a later one. A
completion answers the bio and unlinks the entry under the lock (`Complete`) and frees it
after the unlock (`FreeEntry`); in between another thread that has fetched the same entry may
answer the bio again (`CompleteAgain`), before its `list_del()` meets poisoned pointers. A
creation is split where the character end becomes reachable, a removal after the
test of the use count and after each call that hides one way to the device, and the add_disk
work before the scan, after it, and at its last write to the device.
An administrator gives any command at any time while it has the control device open, whatever
answer is unread; `asked`, a history variable, remembers its last one. A read
may come at any time, too, and answers left behind stay in the buffer for the next opener.
`kmalloc()` picks any free address, so ids can come to name another bio.

*Data.* A bio's payload is the bio's own name: `pages[b] = b` says the pages of `b`
hold the content meant for `b`, `disk[b] = b` the same of the driver's store. A copy
that faults half way leaves `NoBio`, a mixture.

*Undefined behaviour* (use of a freed entry, an unlink without the right lock, a null
or freed device) is recorded in `fault`, and the model stops there: nothing can be
said after it. In `BdtunTunnel` a completion of an entry on the incoming list may go
well or end in `fault`; one of an entry that is unlinked but not yet freed ends there after
it has answered the bio.

An opener of a device holds a bare pointer to it until it has the device's lock.
`kfree()` turns that pointer into a dangling one for good, also when a new device gets
the address.

*Left out of `BdtunDevice`*: a control descriptor shared by several threads, the
device nodes of sysfs, capabilities; sizes are in `BdtunSizes`. A freed `struct bdtun` is not handed
out again while its add_disk work is still queued; that would only turn one fault
into another.

## 3. Runs

| run | instance | shows |
|---|---|---|
| `threads` | 2 bios, 2 addresses, 2 threads with a file each, no discipline | types, `EachBioOnce`, `FirstReadInOrder`, `NoLostWakeup`, `InFlightBalance`, `AnsweredOnce`; refines `BioLists` |
| `locks` | 3 processes, 2 addresses, every operation, fairness | `LTypeOK` with who holds which lock where, `NoDeadlock`, `OperationsEnd`; refines `BioLists` |
| `process` | one process, 2 threads, every operation, crashes | `NoFault`, `Ownership`, `CurrentIsOwn`, `AnswerIsVerdict`, `AnswersStand`; refines `BioService` |
| `progress` | 2 threads, 1 address, crashes, a second program that opens and closes the tunnel, fairness | `EveryBioAnswered` |
| `devices` | 2 admins, 2 programs, 2 structures, 2 names | types, `ControlExclusive`, `ReplyCurrent`, `NamesUnique`, `InUseKept`, `UnloadedIsIdle`; refines `DeviceRegistry` |
| `pairs` | 1 admin, 2 programs with a request and a submitting thread each, 2 structures, 2 names | `RequestsMeetDevice` |
| `sizes` | sectors of 2, blocks of up to 4 (tool) or 8 (module) bytes, 5 bit fields | `STypeOK`, `SizesAgree`, `CreatedWhole`, `ToolChecksSuffice` |
| `listing` | 0 to 5 devices, pages of at most 3 (+1) names | `DoneAtEnd`, `ListingEnds` |

Bounds. Two bios and two addresses are the least with which requests can be
confused, reordered or left behind on either list, and the second bio may get the address
of the first; with one address (`progress`) it must, and a second submission may be
refused. What `threads` checks is also proved for any number of them.
Two threads and two files are enough for every race the code has between a pair of
critical sections. `locks` has a third process because a lock that is never dropped, or
a cycle of two, must be told from a process that is merely idle, and an address fewer
than processes, so that one submission must wait for another's completion. In `devices`
two administrators are one that has the control device and one that tries to open it, or that
finds what the other has left. There and in `pairs` two programs are a driver and a user of
one device, or two of either on one or two devices;
two structures and two names let a name and an address be used again. `pairs` has one
administrator, as at most one is past the open of the control device (`ControlExclusive`). In `sizes` the nine
arguments contain a negative number, zero, block sizes below, inside and above either
limit and one that is no power of two, and sizes that are no whole number of blocks or
of sectors; the width makes the negative one wrap to a size that is still a multiple of a
block. `MostDevices`, and limits of 8 bytes and 3 names in place of 1024
and 32, let pages end at the list's end, at the name limit and at the byte limit. No
other bound exists: bios and addresses are finite by themselves, each bio is submitted
once.

`progress` leaves out the transfers of data: a driver fails each request it has read, which
it may do at any stage, so how data moves has no part in whether a bio is answered.

Deadlock is checked in `process` and `sizes`. It is switched off where a fault
stops the model (`threads`, `locks`, `progress`, `devices`, `pairs`) and for the listing,
which ends. Symmetry is used for addresses, threads, devices and names that the instance
does not tell apart, and never in a run with a liveness property.

Fairness of `progress` (`BdtunBackend!Fairness`): a
submitter runs on to its `wake_up()` (kernel threads are scheduled); a driver thread
that can read, take the lock, transfer or finish does so; and, strongly fair, a thread
that moves data time and again gets to a verdict, that is, it does not repeat a failing
transfer for ever. Crashes, signals and the closing of the other file are not fair and not
bounded: the property assumes only that from some point on the process and the other
program stay. Fairness of `locks`: a process runs on inside an operation, and a mutex is
handed over in turn, so that who waits for one that is dropped again and again gets it
(strong fairness; the kernel's mutexes queue their waiters). Nobody is made to start an
operation. `BdtunListing` is one sequential program that keeps running. After a fault
nothing is fair.

`FailByte` is what a driver writes to fail a request. `bdtun_fail_request()` writes
`"\0x01"`, whose first byte is 0. `process` uses 1, a driver that writes the byte
itself, because with the library's byte a failed request is reported as a success, and
`AnswerIsVerdict` and the refinement cannot hold (run `failbyte`). All other runs use 0,
what the library does; the byte has no influence on the lists, the lock or the stages.

Two questions the code asks itself are answered by these runs. "TODO: I don't think this
is needed. Check." (`kernel/bdtun.c:962`), of failing the waiting bios of a device that is
removed: `RequestsMeetDevice` shows that there are none. "Alwasy grab incoming first, then
pending" (`kernel/bdtun.c:69`): `NoDeadlock` and `OperationsEnd` show that all operations
together do. `NoDeadlock` spells out which lock each place waits for; that this is what
decides whether a process can take a step, fairness aside, is plain from the actions.

### Disagreements between the repository and the code

Each of these runs is expected to end in a violation of the one property that states
what the repository says.

| run | the repository says | the code |
|---|---|---|
| `lockrule` | locks guard the lists (`kernel/bdtun.c:67`) | a completion unlinks with one lock, from whichever list (507) |
| `failbyte` | `bdtun_fail_request` fails the bio (`lib/libbdtun.c:130`) | writes a 0 byte: success (137) |
| `openflag` | a device being removed cannot be opened (`kernel/bdtun.c:73`) | `bdtun_open` finds a null `queuedata` before it can look at the flag (188, 923) |
| `workdevice` | `add_disk_finished` signals completion (`kernel/bdtun.c:85`) | nobody waits for it; the work can meet a device half removed |

Others were met and have no run:

* "After this, the read request will also be the data-current one" (`lib/libbdtun.c:21`):
  a header read leaves `data_current_bio` alone, and so does `DeliverHeader`;
* "list existing tunnels" (`util/bdtun.c:52`): the list loop steps its index twice per name,
  so every other name of a page is skipped (244); with three devices the second is not
  printed. `Shown` is what is printed;
* the removing flag again: `bdtunch_open()` and `bdtun_open()` hold no reference to the device
  when they go for `ru_lock` (192, 259), and a removal may free it before they test the
  flag (977). `OpenStale` is that step;
* "If we're completing the current bio, step ahead" (`kernel/bdtun.c:506`): `Complete`
  leaves `data_current_bio` on the freed entry, as the code does, and `NoFault` shows
  that disciplined drivers never use it there;
* "the appropriate number of cylinders" (`kernel/bdtun.c:227`): six bits shifted by six are
  zero.


## 4. Proofs

Every safety property, action property and refinement that a passing run checks is proved
for every value of the constants. What a proof assumes of them is in the named `ASSUME` of
the module and, for the drivers, in the hypotheses of the theorems.

### The tunnel (`BdtunTunnelProofs`)

| theorem | says |
|---|---|
| `TypeCorrect`, `BiosConserved` | `[]TypeOK`, `[]EachBioOnce` |
| `ReadsInOrder` | `[]FirstReadInOrder` |
| `AnswersFinal` | `AnsweredOnce`: no step changes an answer but a second completion that ends in the poisoned `list_del()` |
| `FlightBalanced` | `[]InFlightBalance`: exact up to uncounted submissions and to the one bio such a completion counts twice |
| `WakeupsDelivered` | `[]NoLostWakeup` |
| `ListsImplemented` | `ListsSpec`: it implements `BioLists` |

`TunnelAssumption`: bios are finite (they are counted), the null pointer is no address,
each bio has a direction and each thread a file.

The inductive invariant is `IInv`: the types, `EachBioOnce`, and `BufferInHand` (a
thread in a transfer has a request buffer). Neither half stands alone: a header read
stays well typed only because a linked entry is allocated, and the accounting of the
lists needs the types of the lists. Five actions touch the lists or the allocation (`MakeRequest`,
`DeliverHeader`, `Release`, `Complete`, `FreeEntry`), each has a lemma, and `QuietStep` covers
the rest. That `EachBioOnce` survives a `Complete` with *any* id is the point of the proof:
a stale id names no allocated entry (`fault`), the entry of another unanswered bio, which is
unlinked from the list it is on, or one that another thread has unlinked and is about to
free (`CompleteAgain`). `AnswersFinal` follows, as an answered bio has no linked entry. `FlightBalanced` counts with `FiniteSetTheorems`.
`WakeupsDelivered` needs that a thread enters the wait queue before it looks at the list.

`ReadsInOrder` needs `OrderInv`: `FirstReadInOrder` speaks of what has been read, and is
not inductive, because what is read next depends on the list. Added are that the unread
entries of the incoming list stand in queueing order, wherever releases have put read
ones between or behind them, and (`PendingSeen`) that the pending list holds read ones only.

`ListFacts` has the lemmas on injective sequences that all of it rests on.

### The critical sections (`BdtunLocksProofs`)

| theorem | says |
|---|---|
| `LocksTyped` | `[]LTypeOK` |
| `OneCanRun` | `[]NoDeadlock` |
| `EntriesConserved` | `[]LinkedInv` |
| `SectionsAtomic` | `ListsSpec`: it implements `BioLists` |

`LocksInv` says that each process holds the locks its place says (`Owners`) and that what
it has read of a list under one is still what the list is when it stores it (`Copies`).
The two need each other only in one direction: `Copies` survives the steps of others
because no two processes are inside one lock (`OneInside`). `Linked` says where allocated
entries are: on one list, once, or in the hands of one process between `kmalloc()` and
the list or between the list and `kfree()`. `Meaning` tells what `AppendedPending` is from the place of
the one process that can be half way through a move, and then six steps are moves of the
queue and all others leave it alone. Together with `ListsImplemented` this justifies
modelling each critical section of `BdtunTunnel` as one action.

### Drivers (`BdtunBackendProofs`)

| theorem | says | of |
|---|---|---|
| `FaultFree` | `[]NoFault` | one process |
| `RequestsOwned` | `[]Ownership` | one process |
| `CurrentOwned` | `[]CurrentIsOwn` | one process |
| `VerdictsReported` | `[]AnswerIsVerdict` | one process that fails honestly |
| `AnswersNeverChange` | `AnswersStand` | one process |
| `ServiceImplemented` | `ServiceSpec`: it implements `BioService` | one process that fails honestly |

`OneProcess` (all threads share one file) and `FailsHonestly` (a request is failed with a byte that is not
zero) are hypotheses, not assumptions of the module, since they do
not hold of everything the code allows. Another file's `release()` takes requests out of this
process's hands, and the library's own failure byte is zero; run `failbyte` shows the
second. The number of threads, bios and addresses is free, and the process may crash and
come back at any time.

Every step of a driver is a step of `BdtunTunnel` (`StepsBelow`), so `IInv` holds here, too. On
top of it `HandInv` ties the stage of a thread to the process's lock, to the system call it
is in and to what it has mapped; only with all of these are `NoFault`, `Ownership` and
`CurrentIsOwn` inductive, and only together: a completion is free of faults because the
request is owned, which it stays because the others complete their own; and no thread comes
between another's `list_del()` and `kfree()`, as the process's lock is held until both are
done. That is why `AnswersStand` has no exception where `AnsweredOnce` has one. `BInv` adds what the
refinement and the verdicts need: the source of a transfer keeps its content, a thread
past its transfer has moved the data, and the verdict in its hands is the one it completes
with.

### Devices (`BdtunDeviceProofs`, `BdtunPairProofs`)

| theorem | says |
|---|---|
| `DevicesTyped` | `[]DTypeOK` |
| `OneAdministrator`, `AnswersCurrent` | `[]ControlExclusive`, `[]ReplyCurrent` |
| `NamesDistinct` | `[]NamesUnique` |
| `UsedDevicesStay` | `[]InUseKept` |
| `UnloadsIdle` | `[]UnloadedIsIdle` |
| `RegistryImplemented` | `RegistrySpec`: it implements `DeviceRegistry` |
| `RequestsKeepDevice` | `[]RequestsMeetDevice` |

`DeviceAssumption`: finitely many administrators and programs (they are counted), a null
pointer that is neither a device nor a name, and no program that goes by the name of the
scan; `PairAssumption` keeps programs and devices apart, which both stand for who waits.

`DInv` has four parts. *Counters*: `ctrl_lock` is the number of admins who have raised it, and
the module's reference count (`RefsCount`) is that of active admins, listed devices and
programs; a count that is only bounded would not tell that none is left when it falls
to zero. *Lives*: what exists of a device at each stage of its creation (`Creation`) and
removal (`Dismantling`), that no other structure is allocated (`Structures`), and that a
program about to lock a device has an allocated one or a pointer known to dangle
(`OpenersMeet`). *Promises*: the properties themselves, and that a command remembered as the
last one is that of an admin who has the control device (`Asking`): only
then does no other admin change the answer or the list under it. The use count of a device is exact
by `InUseKept`, so a removal that finds zero meets no program inside, and from its mark on
none gets in. `RequestsKeepDevice` adds `PInv`: who waits has the block end open, or is the
scan of that device, and who has the block end open has its disk and its queue. A step of
`BdtunPair` is one of `BdtunDevice` or leaves it alone, so `DInv` need not be shown again.

### Sizes and listing (`BdtunSizesProofs`, `BdtunListingProofs`)

| theorem | says |
|---|---|
| `SizesTyped`, `DriverSeesDisk` | `[]STypeOK`, `[]SizesAgree` |
| `DevicesWhole` | `[]CreatedWhole` |
| `ToolNeverRefused` | `ToolChecksSuffice` |
| `ListingComplete` | `[]DoneAtEnd` |

`SizesAssumption`: the sector size is a power of two that fits the fields, the tool's limit is
not above the module's, the arguments fit `strtoll()`. `PowerAssumption` is arithmetic:
the provers do not know what an exponent is. From it follows that a power of two that is no
less than another is a multiple of it (`PowerDivides`, by induction over a set of
exponents), and from that `DevicesWhole`: the code never asks that a size be a whole
number of sectors, only that it be one of blocks.

`ListingComplete` holds for lists of any length and any limits under which a name fits an
answer and an answer has room for a name (`ListingAssumption`). A page is empty only
behind the last device, as the bytes of no name and of one name are known; what the fold
computes of longer pages does not matter. The loop's offset never jumps over the end, as it
moves by half a page, rounded up.

### Only model-checked

The liveness properties `EveryBioAnswered`, `OperationsEnd` and `ListingEnds`: fairness and
ENABLED are out of the prover's reach. `NoDeadlock` and `NoLostWakeup` are the parts of
them that are safety. The runs that end in a violation prove what they show by their trace.

## 5. Not modelled

`bdtun_getgeo()`, one expression whose value no other code uses; the translation of request
flags (a table of bits); the offsets of bios, and with them a resize that shrinks a disk
under queued bios; statistics other than the in-flight counters; the device nodes of sysfs;
printing and exit codes of the tool; threads that share one control descriptor; the Python
bindings and loop driver, whose request structure and calls no longer match the header;
build and packaging. Failures that end in undefined behaviour no line of the repository
speaks of (a device freed in a failed creation while a program has it open, a failed
allocation of the add_disk work, a page with one name too many, a submitter that still
uses a device when it is freed) are reached by the models,
which stop there; they are in the hazard list, but no run asserts that they cannot
happen. A second client that sleeps while the first one's
`release()` refills the incoming list is not woken: `NoLostWakeup` is limited to bios
nobody has read for that reason. The direction under which a completion counts a bio down is
read after the bio went back to its owner, so the model lets it be any: only the sum of the
in-flight counters is stated, and nothing keeps each of them from drifting. A store through a
mapping that outlives its bio, the end of a partition scan nobody serves, and a huge size
that began as a negative argument have no property either: nothing in the repository says
what should happen.

## 6. Plan

In order of importance; all is done.

1. `BdtunTunnel`: request lists, threads, entries. Proofs of its invariants.
2. `BdtunBackend`, `BioService`: drivers, crashes, refinement, progress.
3. `BdtunDevice`, `DeviceRegistry`: creation, removal, opens, work queue, module.
4. `BdtunListing`: pages of the device list.
5. `BdtunLocks`, `BioLists`: the critical sections opened up.
6. `BdtunPair`: the life of devices and their traffic composed.
7. `BdtunSizes`: arguments, size fields, capacity.
8. Proofs of all safety properties and refinements.

What is left to do:

* the properties of `BdtunBackend` for several processes: what a process still owns when
  others open and close the tunnel, and that it is told when it does not (`Ownership` is
  false there, so this needs a weaker promise first);
* the hazards without a property in `PROJECT.json`.
