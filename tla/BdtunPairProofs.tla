--------------------------- MODULE BdtunPairProofs ---------------------------
(***************************************************************************)
(* Proofs about BdtunPair: the requests of any number of programs and      *)
(* partition scans never meet the removal of their device.                 *)
(***************************************************************************)
EXTENDS BdtunPair, BdtunDeviceProofs

\* The programs that wait are users of the block end, the devices that wait are
\* scanned.
Waiting ==
  /\ \A u \in Users : io[u] => upc[u] = "in" /\ end[u] = "disk"
  /\ \A d \in Devices : io[d] => work[d] = "scanning"

\* Who has the block end open, has its disk and its queue; who is opening it has
\* them unless a removal has been quicker.
DiskEnds ==
  \A u \in Users : end[u] = "disk" =>
    LET d == udev[u] IN
      /\ upc[u] = "in" => d \in disks /\ queuedata[d]
      /\ upc[u] = "opening" /\ d # NULL => removing[d] \/ (d \in disks /\ queuedata[d])

\* A device that someone has open is allocated and not being removed.
Held ==
  \A d \in Devices : Holders(d) # {} \/ work[d] = "scanning" => d \in live /\ ~removing[d]

PInv ==
  /\ end \in [Users -> {"none", "chr", "disk"}]
  /\ io \in [Requesters -> BOOLEAN]
  /\ Waiting /\ DiskEnds
-----------------------------------------------------------------------------
\* A step of the pairs is one of the devices, or leaves them alone.
LEMMA PairStepsBelow == [PNext]_pvars => [Next]_vars
<1> SUFFICES ASSUME [PNext]_pvars PROVE [Next]_vars
  OBVIOUS
<1>1. CASE UNCHANGED pvars
  BY <1>1 DEF pvars
<1>2. CASE PNext
  <2>1. ASSUME NEW u \in Users, NEW d \in Devices, BeginOpen(u, d) PROVE User(u)
    BY <2>1 DEF BeginOpen, User
  <2>2. ASSUME NEW u \in Users, FinishOpen(u) \/ LetGo(u) PROVE User(u)
    BY <2>2 DEF FinishOpen, LetGo, User
  <2>3. ASSUME NEW u \in Users,
               \/ Issue(u) \/ EndSubmit(u) \/ StraySubmit(u)
               \/ \E r \in Requesters : Served(u, r)
        PROVE  UNCHANGED vars
    BY <2>3 DEF Issue, EndSubmit, StraySubmit, Served
  <2>4. ASSUME NEW d \in Devices, Scan(d) PROVE Work(d)
    BY <2>4 DEF Scan, Work
  <2>5. CASE Rest
    BY <1>2, <2>5 DEF PNext, Rest, Next, User, Work
  <2> QED BY <1>2, <2>1, <2>2, <2>3, <2>4, <2>5 DEF PNext, Next
<1> QED BY <1>1, <1>2

LEMMA DevicesBelow == PSpec => []DInv
<1>1. PInit => Init
  BY DEF PInit
<1>2. PSpec => Spec
  BY <1>1, PairStepsBelow, PTL DEF PSpec, Spec
<1> QED BY <1>2, DeviceInvariant, PTL

LEMMA HeldIsKept == DInv => Held
<1> SUFFICES ASSUME DInv, NEW d \in Devices, Holders(d) # {} \/ work[d] = "scanning"
             PROVE  d \in live /\ ~removing[d]
  BY DEF Held
<1>1. Cardinality(Holders(d)) \in Nat /\ IsFiniteSet(Holders(d))
  BY Countable
<1>2. Holders(d) # {} => Cardinality(Holders(d)) # 0
  BY <1>1, FS_EmptySet
<1>3. Cardinality(Holders(d)) + (IF work[d] = "scanning" THEN 1 ELSE 0) > 0
  BY <1>1, <1>2
<1> QED BY <1>3 DEF DInv, Promises, InUseKept

LEMMA HeldStays == DInv' => Held'
BY HeldIsKept, PTL

\* What an administrator's step leaves to the programs.
LEMMA AdminTouches ==
  ASSUME DInv, NEW a \in Admins, Admin(a)
  PROVE  /\ upc' = upc
         /\ \A u \in Users : udev'[u] = udev[u] \/ (upc[u] = "opening" /\ udev'[u] = NULL)
         /\ \A d \in Devices : work[d] = "scanning" => work'[d] = "scanning"
         /\ \A d \in live :
              \/ removing'[d] \/ d \notin live'
              \/ (d \in disks => d \in disks') /\ (queuedata[d] => queuedata'[d])
         /\ \A d \in live : removing[d] => removing'[d]
<1> USE DEF module, control, fields, devs, users
<1>0. Types /\ Creation /\ Dismantling /\ Structures
  BY DEF DInv, Lives
<1>1. CASE CtrlOpen(a) \/ CtrlBusy(a) \/ CtrlRelease(a) \/ List(a) \/ CtrlRead(a)
  BY <1>1 DEF CtrlOpen, CtrlBusy, CtrlRelease, List, CtrlRead
<1>2. ASSUME NEW n \in Names, Info(a, n)
      PROVE  UNCHANGED <<upc, udev, work, live, removing, disks, queuedata>>
  BY <1>2 DEF Info
<1>3. CASE CreateFailsHeld(a) \/ NoWork(a) \/ RemoveChr(a)
  BY <1>3 DEF CreateFailsHeld, NoWork, Fail, RemoveChr
<1>4. ASSUME NEW n \in Names, Create(a, n)
      PROVE  /\ UNCHANGED <<upc, udev, work, disks>>
             /\ \A d \in live : removing'[d] = removing[d] /\ queuedata'[d] = queuedata[d]
  BY <1>0, <1>4 DEF Create, Types
<1>5. ASSUME NEW n \in Names, RemoveMark(a, n)
      PROVE  /\ UNCHANGED <<upc, udev, work, disks, queuedata>>
             /\ \A d \in live : removing[d] => removing'[d]
  BY <1>0, <1>5 DEF RemoveMark, Types
<1>6. CASE CreateDisk(a)
  <2>1. adev[a] \in Devices /\ work[adev[a]] = "none"
    BY <1>0, <1>6 DEF CreateDisk, Creation, Types
  <2> QED BY <1>0, <1>6, <2>1 DEF CreateDisk, Types
<1>7. ASSUME NEW d, FreeDevice(d)
      PROVE  upc' = upc
             /\ \A u \in Users : udev'[u] = udev[u] \/ (upc[u] = "opening" /\ udev'[u] = NULL)
  BY <1>0, <1>7 DEF FreeDevice, Types
<1>8. CASE CreateFails(a)
  BY <1>0, <1>7, <1>8 DEF CreateFails
<1>9. CASE RemoveQueue(a)
  <2>1. removing[adev[a]] /\ adev[a] \in Devices
    BY <1>0, <1>9 DEF RemoveQueue, Dismantling, Removal, Structures, Types
  <2> QED BY <1>0, <1>9, <2>1 DEF RemoveQueue, Types
<1>10. CASE RemoveDisk(a)
  <2>1. removing[adev[a]]
    BY <1>0, <1>10 DEF RemoveDisk, Dismantling, Removal
  <2> QED BY <1>10, <2>1 DEF RemoveDisk
<1>11. CASE RemoveFree(a)
  BY <1>0, <1>7, <1>11 DEF RemoveFree
<1> QED BY <1>1, <1>2, <1>3, <1>4, <1>5, <1>6, <1>8, <1>9, <1>10, <1>11 DEF Admin

LEMMA PairKept ==
  ASSUME DInv, DInv', PInv, [PNext]_pvars
  PROVE  PInv'
<1> USE DEF module, control, fields, devs, users
<1>0. /\ Types /\ Structures /\ OpenersMeet /\ InUseKept /\ NULL \notin Devices
      /\ Users \cap Devices = {} /\ Requesters = Users \cup Devices
      /\ upc' \in [Users -> {"out", "opening", "in"}]
      /\ udev' \in [Users -> Devices \cup {NULL}]
      /\ end \in [Users -> {"none", "chr", "disk"}]
      /\ io \in [Requesters -> BOOLEAN] /\ Waiting /\ DiskEnds
  BY DeviceAssumption, PairAssumption DEF DInv, Lives, Promises, PInv, Requesters, Types
<1>1. CASE UNCHANGED pvars
  BY <1>1 DEF pvars, vars, PInv, Waiting, DiskEnds
<1>2. ASSUME NEW u \in Users, NEW d \in Devices, BeginOpen(u, d) PROVE PInv'
  <2>1. /\ upc[u] = "out" /\ UNCHANGED <<io, live, removing, queuedata, disks, work>>
        /\ \E e \in {"chr", "disk"} : end' = [end EXCEPT ![u] = e]
        /\ \E e : Moves(u, "opening", e)
    BY <1>2 DEF BeginOpen, OpenChr, OpenDisk
  <2>2. end'[u] = "disk" => udev'[u] = NULL \/ (udev'[u] \in disks /\ queuedata[udev'[u]])
    BY <1>0, <1>2 DEF BeginOpen, OpenChr, OpenDisk, Moves, Types
  <2>3. /\ upc'[u] = "opening" /\ end' \in [Users -> {"none", "chr", "disk"}]
        /\ \A v \in Users \ {u} : upc'[v] = upc[v] /\ udev'[v] = udev[v] /\ end'[v] = end[v]
    BY <1>0, <2>1 DEF Moves, Types
  <2>4. Waiting'
    BY <1>0, <2>1, <2>3 DEF Waiting
  <2>5. DiskEnds'
    BY <1>0, <2>1, <2>2, <2>3 DEF DiskEnds
  <2> QED BY <1>0, <2>1, <2>3, <2>4, <2>5 DEF PInv, Requesters
<1>3. ASSUME NEW u \in Users, FinishOpen(u) PROVE PInv'
  <2>1. /\ upc[u] = "opening" /\ udev[u] \in live /\ udev[u] # NULL
        /\ UNCHANGED <<io, live, removing, queuedata, disks, work>>
        /\ end' = IF upc'[u] = "in" THEN end ELSE [end EXCEPT ![u] = "none"]
    BY <1>0, <1>3 DEF FinishOpen, OpenEnd, Types
  <2>2. \/ removing[udev[u]] /\ Moves(u, "out", NULL)
        \/ ~removing[udev[u]] /\ Moves(u, "in", udev[u])
    BY <1>3 DEF FinishOpen, OpenEnd
  <2>3. /\ end' \in [Users -> {"none", "chr", "disk"}]
        /\ \A v \in Users \ {u} : upc'[v] = upc[v] /\ udev'[v] = udev[v] /\ end'[v] = end[v]
    BY <1>0, <2>1, <2>2 DEF Moves, Types
  <2>4. end'[u] = "disk" =>
          upc'[u] = "in" /\ udev'[u] = udev[u] /\ end[u] = "disk" /\ ~removing[udev[u]]
    BY <1>0, <2>1, <2>2 DEF Moves, Types
  <2>5. Waiting'
    BY <1>0, <2>1, <2>3 DEF Waiting
  <2>6. DiskEnds'
    BY <1>0, <2>1, <2>3, <2>4 DEF DiskEnds
  <2> QED BY <1>0, <2>1, <2>3, <2>5, <2>6 DEF PInv, Requesters
<1>4. ASSUME NEW u \in Users,
             \/ Issue(u) \/ EndSubmit(u) \/ StraySubmit(u)
             \/ \E r \in Requesters : Served(u, r)
      PROVE  PInv'
  <2>1. UNCHANGED <<vars, end>> /\ io' \in [Requesters -> BOOLEAN]
    BY <1>0, <1>4 DEF Issue, EndSubmit, StraySubmit, Served
  <2>2. Waiting'
    <3>1. UNCHANGED <<upc, end, work>>
      BY <2>1 DEF vars
    <3>2. \A r \in Requesters : io'[r] => io[r] \/ (r = u /\ upc[u] = "in" /\ end[u] = "disk")
      BY <1>0, <1>4 DEF Issue, EndSubmit, StraySubmit, Served
    <3> QED BY <1>0, <3>1, <3>2 DEF Waiting
  <2> QED BY <1>0, <2>1, <2>2 DEF PInv, DiskEnds, vars, Requesters
<1>5. ASSUME NEW u \in Users, LetGo(u) PROVE PInv'
  <2>1. /\ ~io[u] /\ end' = [end EXCEPT ![u] = "none"] /\ Moves(u, "out", NULL)
        /\ UNCHANGED <<io, live, removing, queuedata, disks, work>>
    BY <1>5 DEF LetGo, Close
  <2>2. /\ end' \in [Users -> {"none", "chr", "disk"}] /\ end'[u] = "none"
        /\ \A v \in Users \ {u} : upc'[v] = upc[v] /\ udev'[v] = udev[v] /\ end'[v] = end[v]
    BY <1>0, <2>1 DEF Moves, Types
  <2>3. Waiting'
    BY <1>0, <2>1, <2>2 DEF Waiting
  <2>4. DiskEnds'
    BY <1>0, <2>1, <2>2 DEF DiskEnds
  <2> QED BY <1>0, <2>1, <2>2, <2>3, <2>4 DEF PInv, Requesters
<1>6. ASSUME NEW d \in Devices, Scan(d) PROVE PInv'
  <2>1. UNCHANGED <<end, upc, udev, removing, queuedata>> /\ disks \subseteq disks'
    BY <1>6 DEF Scan, AddDisk, ScanEnds, AddDiskFinished
  <2>2. /\ \A e \in Devices \ {d} : work'[e] = work[e]
        /\ \A r \in Requesters \ {d} : io'[r] = io[r]
        /\ io'[d] => work'[d] = "scanning"
    <3>1. CASE AddDisk(d) /\ io' = [io EXCEPT ![d] = work'[d] = "scanning"]
      BY <1>0, <3>1 DEF AddDisk, Types
    <3>2. CASE ScanEnds(d) /\ ~io[d] /\ io' = io
      BY <1>0, <3>2 DEF ScanEnds, Types
    <3>3. CASE AddDiskFinished(d) /\ io' = io
      BY <1>0, <3>3 DEF AddDiskFinished, Waiting, Types
    <3> QED BY <1>6, <3>1, <3>2, <3>3 DEF Scan
  <2>3. io' \in [Requesters -> BOOLEAN]
    BY <1>0, <1>6 DEF Scan
  <2>4. Waiting'
    BY <1>0, <2>1, <2>2 DEF Waiting
  <2>5. DiskEnds'
    BY <1>0, <2>1 DEF DiskEnds
  <2> QED BY <1>0, <2>1, <2>3, <2>4, <2>5 DEF PInv, Requesters
<1>7. CASE Rest
  <2>0. UNCHANGED <<end, io>>
    BY <1>7 DEF Rest
  <2>1. CASE \E a \in Admins : Admin(a)
    <3>1. PICK a \in Admins : Admin(a)
      BY <2>1
    <3>2. Waiting'
      BY <1>0, <2>0, <3>1, AdminTouches DEF Waiting
    <3>3. DiskEnds'
      <4> SUFFICES ASSUME NEW u \in Users, end[u] = "disk", upc[u] # "out",
                          udev'[u] = udev[u], udev[u] # NULL
                   PROVE  /\ upc[u] = "in" => udev[u] \in disks' /\ queuedata'[udev[u]]
                          /\ upc[u] = "opening" =>
                               removing'[udev[u]] \/ (udev[u] \in disks' /\ queuedata'[udev[u]])
        BY <1>0, <2>0, <3>1, AdminTouches DEF DiskEnds, OpenersMeet
      <4>1. udev[u] \in live /\ udev[u] \in live' /\ (upc[u] = "in" => ~removing'[udev[u]])
        <5>1. CASE upc[u] = "opening"
          <6>1. OpenersMeet'
            BY DEF DInv, Lives
          <6> QED BY <1>0, <3>1, <5>1, <6>1, AdminTouches DEF OpenersMeet
        <5>2. CASE upc[u] = "in"
          <6>1. u \in Holders(udev[u]) /\ u \in Holders(udev[u])' /\ udev[u] \in Devices
            BY <1>0, <3>1, <5>2, AdminTouches DEF Holders, OpenersMeet
          <6>2. udev[u] \in live /\ ~removing[udev[u]]
            BY <6>1, HeldIsKept DEF Held
          <6>3. udev[u] \in live' /\ ~removing'[udev[u]]
            BY <6>1, HeldStays DEF Held
          <6> QED BY <6>2, <6>3
        <5> QED BY <1>0, <5>1, <5>2 DEF Types
      <4>2. (upc[u] = "opening" => removing[udev[u]] \/ (udev[u] \in disks /\ queuedata[udev[u]]))
            /\ (upc[u] = "in" => udev[u] \in disks /\ queuedata[udev[u]])
        BY <1>0 DEF DiskEnds
      <4> QED BY <3>1, <4>1, <4>2, AdminTouches
    <3> QED BY <1>0, <2>0, <3>2, <3>3 DEF PInv, Requesters
  <2>2. CASE Load \/ Unload
    BY <1>0, <2>0, <2>2 DEF Load, Unload, PInv, Waiting, DiskEnds, Requesters
  <2>3. CASE (\E u \in Users : OpenStale(u)) \/ (\E d \in Devices : StrayWork(d))
    BY <1>0, <2>0, <2>3 DEF OpenStale, StrayWork, Fail, PInv, Waiting, DiskEnds, Requesters
  <2> QED BY <1>7, <2>1, <2>2, <2>3 DEF Rest
<1> QED BY <1>1, <1>2, <1>3, <1>4, <1>5, <1>6, <1>7 DEF PNext

\* The inductive invariant of the pairs.
THEOREM PairInvariant == PSpec => [](DInv /\ PInv)
<1>1. PInit => PInv
  BY DEF PInit, Init, PInv, Waiting, DiskEnds, Requesters
<1> QED BY <1>1, PairKept, DevicesBelow, PTL DEF PSpec

\* A request that waits has its device, not marked for removal, with the disk and the
\* queue's pointer in place: the loop that fails waiting requests is not needed.
THEOREM RequestsKeepDevice == PSpec => []RequestsMeetDevice
<1>1. ASSUME DInv, PInv PROVE RequestsMeetDevice
  <2>0. Types /\ Structures /\ OpenersMeet /\ Waiting /\ DiskEnds
    BY <1>1 DEF DInv, Lives, PInv
  <2> SUFFICES ASSUME NEW r \in Requesters, io[r]
               PROVE  /\ DeviceOf(r) \in live /\ ~removing[DeviceOf(r)]
                      /\ DeviceOf(r) \in disks /\ queuedata[DeviceOf(r)]
    BY DEF RequestsMeetDevice
  <2>1. CASE r \in Users
    <3>1. udev[r] \in Devices /\ r \in Holders(udev[r])
      BY <2>0, <2>1 DEF Waiting, OpenersMeet, Holders
    <3>2. udev[r] \in live /\ ~removing[udev[r]]
      BY <1>1, <3>1, HeldIsKept DEF Held
    <3> QED BY <2>0, <2>1, <3>2 DEF DeviceOf, Waiting, DiskEnds
  <2>2. CASE r \notin Users
    <3>1. r \in Devices /\ work[r] = "scanning"
      BY <2>0, <2>2 DEF Waiting, Requesters
    <3>2. r \in live /\ ~removing[r]
      BY <1>1, <3>1, HeldIsKept DEF Held
    <3> QED BY <2>0, <2>2, <3>1, <3>2 DEF DeviceOf, Structures
  <2> QED BY <2>1, <2>2
<1> QED BY <1>1, PairInvariant, PTL
=============================================================================
