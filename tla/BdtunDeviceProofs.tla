-------------------------- MODULE BdtunDeviceProofs --------------------------
(***************************************************************************)
(* Proofs about BdtunDevice, for any number of administrators, programs,   *)
(* devices and names.                                                      *)
(*                                                                         *)
(* Most of it rests on two facts that need each other: one administrator   *)
(* at a time runs a command (ControlExclusive), which holds only while the *)
(* module is not reloaded under it, and the module's reference count       *)
(* counts everybody in it, which holds only as long as commands do not     *)
(* overlap.                                                                *)
(***************************************************************************)
EXTENDS BdtunDevice, ListFacts, FiniteSetTheorems, TLAPS

Types ==
  /\ ctrl_lock \in Int /\ refs \in Int /\ loaded \in BOOLEAN
  /\ response \in Seq(Names)
  /\ apc \in [Admins -> {"closed", "busy", "open", "create"} \cup Removal]
  /\ adev \in [Admins -> Devices \cup {NULL}]
  /\ asked \in [Admins -> {"none", "change", "list", "info"}]
  /\ live \in SUBSET Devices
  /\ device_list \in Seq(Devices)
  /\ name \in [Devices -> Names]
  /\ removing \in [Devices -> BOOLEAN]
  /\ ucnt \in [Devices -> Int]
  /\ queuedata \in [Devices -> BOOLEAN]
  /\ chrs \in SUBSET Devices /\ disks \in SUBSET Devices
  /\ work \in [Devices -> {"none", "queued", "scanning", "added"}]
  /\ upc \in [Users -> {"out", "opening", "in"}]
  /\ udev \in [Users -> Devices \cup {NULL}]
  /\ fault \in {"none", "open", "work", "unwind", "nomem"}

\* The admins that have the control device open.
Working == {a \in Admins : apc[a] \notin {"closed", "busy"}}

\* A device that is set up is not reachable by its disk, has no work and a name
\* of its own.
Creation ==
  \A a \in Admins : apc[a] = "create" =>
    LET d == adev[a] IN
      /\ d \in live /\ d \notin Listed /\ d \notin disks
      /\ work[d] = "none" /\ ~removing[d] /\ queuedata[d]
      /\ \A e \in Listed : name[e] # name[d]

\* A device that is taken apart is marked and listed, and what one step has hidden
\* stays hidden.
Dismantling ==
  \A a \in Admins : apc[a] \in Removal =>
    LET d == adev[a] IN
      /\ d \in Listed /\ removing[d]
      /\ apc[a] # "rm_chr" => d \notin chrs
      /\ apc[a] \in {"rm_disk", "rm_free"} => ~queuedata[d]
      /\ apc[a] = "rm_free" => d \notin disks

\* A structure is allocated while it is listed, or being set up.
Structures ==
  /\ IsInjective(device_list)
  /\ Listed \subseteq live
  /\ \A d \in live : d \in Listed \/ \E a \in Admins : apc[a] = "create" /\ adev[a] = d
  /\ chrs \subseteq live /\ disks \subseteq live
  /\ \A d \in live : ~removing[d] => queuedata[d]
  /\ \A d \in Devices : work[d] = "scanning" => d \in disks

\* A program that is about to lock a device has one, or a dangling pointer.
OpenersMeet ==
  \A u \in Users :
    /\ upc[u] = "opening" /\ udev[u] # NULL => udev[u] \in live
    /\ upc[u] = "in" => udev[u] \in Devices

\* The listed devices that refer to the module, and the programs that do.
Referring == {d \in Listed : \A a \in Admins : ~(apc[a] = "rm_free" /\ adev[a] = d)}
Inside == {u \in Users : upc[u] # "out"}

RefsCount ==
  /\ IsFiniteSet(Listed)
  /\ refs = Cardinality(Active) + Cardinality(Referring) + Cardinality(Inside)

\* Who has asked for an answer and done nothing since has the control device open.
Asking == \A a \in Admins : asked[a] \in {"list", "info"} => apc[a] = "open"

Counters == ControlExclusive /\ RefsCount /\ UnloadedIsIdle
Lives == Creation /\ Dismantling /\ Structures /\ OpenersMeet
Promises == NamesUnique /\ Asking /\ ReplyCurrent /\ InUseKept

DInv == Types /\ Counters /\ Lives /\ Promises
-----------------------------------------------------------------------------
(* Counting. *)

\* There are finitely many of everybody that is counted.
LEMMA Countable ==
  ASSUME DInv
  PROVE  /\ IsFiniteSet(Active) /\ Cardinality(Active) \in Nat
         /\ IsFiniteSet(Working) /\ Cardinality(Working) \in Nat
         /\ IsFiniteSet(Inside) /\ Cardinality(Inside) \in Nat
         /\ IsFiniteSet(Referring) /\ Cardinality(Referring) \in Nat
         /\ \A d : IsFiniteSet(Holders(d)) /\ Cardinality(Holders(d)) \in Nat
<1>1. Active \in SUBSET Admins /\ Working \in SUBSET Admins
  BY DEF Active, Working
<1>2. Inside \in SUBSET Users /\ \A d : Holders(d) \in SUBSET Users
  BY DEF Inside, Holders
<1>3. Referring \in SUBSET Listed /\ IsFiniteSet(Listed)
  BY DEF Referring, DInv, Counters, RefsCount
<1> QED BY <1>1, <1>2, <1>3, DeviceAssumption, FS_Subset, FS_CardinalityType

\* One administrator at a time has the control device open.
LEMMA Alone ==
  ASSUME DInv, NEW a \in Working
  PROVE  Working = {a}
<1>1. IsFiniteSet(Working) /\ Cardinality(Working) \in Nat /\ Cardinality(Working) <= 1
  BY Countable DEF DInv, Counters, ControlExclusive, Working
<1>2. Cardinality(Working \ {a}) = Cardinality(Working) - 1 /\ IsFiniteSet(Working \ {a})
  BY <1>1, FS_RemoveElement
<1>3. Cardinality(Working \ {a}) \in Nat
  BY <1>2, FS_CardinalityType
<1>4. Cardinality(Working \ {a}) = 0
  BY <1>1, <1>2, <1>3
<1> QED BY <1>2, <1>4, FS_EmptySet

\* A free lock means that nobody is in the control device.
LEMMA FreeLock ==
  ASSUME DInv, ctrl_lock = 1
  PROVE  Active = {} /\ Working = {}
<1>1. Cardinality(Active) = 0 /\ IsFiniteSet(Active)
  BY Countable DEF DInv, Counters, ControlExclusive
<1>2. Active = {}
  BY <1>1, FS_EmptySet
<1> QED BY <1>2 DEF Active, Working

\* Who is in the control device after an administrator's step.
LEMMA AdminMoves ==
  ASSUME Types, NEW a \in Admins, NEW p, NEW d, Goes(a, p, d)
  PROVE  /\ Active' = IF p = "closed" THEN Active \ {a} ELSE Active \cup {a}
         /\ Working' = IF p \in {"closed", "busy"} THEN Working \ {a} ELSE Working \cup {a}
BY DEF Types, Goes, Active, Working

\* Who is in the module, and who holds a device, after a program's step.
LEMMA UserMoves ==
  ASSUME Types, NEW u \in Users, NEW p, NEW d, Moves(u, p, d)
  PROVE  /\ Inside' = IF p = "out" THEN Inside \ {u} ELSE Inside \cup {u}
         /\ \A e : Holders(e)' = IF p = "in" /\ e = d THEN Holders(e) \cup {u}
                                 ELSE Holders(e) \ {u}
BY DEF Types, Moves, Inside, Holders
-----------------------------------------------------------------------------
(* The types. *)

LEMMA TypesKept ==
  ASSUME DInv, [Next]_vars
  PROVE  Types'
<1> USE DEF module, control, fields, devs, users
<1>0. Types
  BY DEF DInv
<1>1. CASE UNCHANGED vars
  BY <1>0, <1>1 DEF Types, vars
<1>2. CASE Load
  BY <1>0, <1>2 DEF Types, Load
<1>6. CASE Unload
  BY <1>0, <1>6 DEF Types, Unload
<1>3. ASSUME NEW a \in Admins, Admin(a) PROVE Types'
  <2> USE <1>0 DEF Goes, Asks
  <2>1. CASE CtrlOpen(a)
    BY <2>1 DEF Types, CtrlOpen
  <2>12. CASE CtrlBusy(a)
    BY <2>12 DEF Types, CtrlBusy
  <2>13. CASE CtrlRelease(a)
    BY <2>13 DEF Types, CtrlRelease
  <2>2. CASE List(a)
    <3>1. ListedNames \in Seq(Names)
      <4>1. Len(device_list) \in Nat /\ DOMAIN device_list = 1 .. Len(device_list)
        BY DEF Types
      <4>2. \A i \in DOMAIN device_list : name[device_list[i]] \in Names
        BY DEF Types
      <4> QED BY <4>1, <4>2 DEF ListedNames
    <3> QED BY <2>2, <3>1 DEF Types, List
  <2>3. CASE CtrlRead(a)
    BY <2>3 DEF Types, CtrlRead
  <2>4. ASSUME NEW n \in Names, Info(a, n) PROVE Types'
    <3>1. Found(n) \subseteq Devices
      BY DEF Found, Listed, Range, Types
    <3> QED BY <2>4, <3>1 DEF Types, Info
  <2>5. ASSUME NEW n \in Names, Create(a, n) PROVE Types'
    BY <2>5 DEF Types, Create
  <2>6. ASSUME NEW n \in Names, RemoveMark(a, n) PROVE Types'
    <3>1. Found(n) \subseteq Devices
      BY DEF Found, Listed, Range, Types
    <3> QED BY <2>6, <3>1 DEF Types, RemoveMark, Removal
  <2>7. CASE CreateDisk(a)
    <3>1. adev[a] \in Devices
      BY <2>7 DEF DInv, Lives, Creation, CreateDisk, Types
    <3> QED BY <2>7, <3>1 DEF Types, CreateDisk
  <2>8. CASE CreateFails(a)
    BY <2>8 DEF Types, CreateFails, FreeDevice
  <2>9. CASE CreateFailsHeld(a) \/ NoWork(a)
    BY <2>9 DEF Types, CreateFailsHeld, NoWork, Fail
  <2>10. CASE RemoveChr(a)
    BY <2>10 DEF Types, RemoveChr, Removal
  <2>14. CASE RemoveQueue(a)
    BY <2>14 DEF Types, RemoveQueue, Removal
  <2>15. CASE RemoveDisk(a)
    BY <2>15 DEF Types, RemoveDisk, Removal
  <2>11. CASE RemoveFree(a)
    <3>1. RemoveFirst(device_list, adev[a]) \in Seq(Devices)
      BY RemoveFirstType DEF Types
    <3> QED BY <2>11, <3>1 DEF Types, RemoveFree, FreeDevice
  <2> QED BY <1>3, <2>1, <2>2, <2>3, <2>4, <2>5, <2>6, <2>7, <2>8, <2>9, <2>10, <2>11,
             <2>12, <2>13, <2>14, <2>15
          DEF Admin
<1>4. ASSUME NEW u \in Users, User(u) PROVE Types'
  <2>1. ASSUME NEW d \in Devices, OpenChr(u, d) PROVE Types'
    BY <1>0, <2>1 DEF Types, OpenChr, Moves
  <2>5. ASSUME NEW d \in Devices, OpenDisk(u, d) PROVE Types'
    <3>1. CASE queuedata[d]
      BY <1>0, <2>5, <3>1 DEF Types, OpenDisk, Moves
    <3>2. CASE ~queuedata[d]
      BY <1>0, <2>5, <3>2 DEF Types, OpenDisk, Moves
    <3> QED BY <3>1, <3>2
  <2>2. CASE OpenEnd(u)
    <3>1. udev[u] \in Devices /\ ucnt[udev[u]] \in Int
      BY <1>0, <2>2 DEF Types, OpenEnd
    <3>2. /\ Moves(u, "out", NULL) \/ Moves(u, "in", udev[u])
          /\ refs' = refs - 1 \/ refs' = refs
          /\ ucnt' = ucnt \/ ucnt' = [ucnt EXCEPT ![udev[u]] = @ + 1]
          /\ UNCHANGED <<loaded, control, live, device_list, name, removing, queuedata,
                         chrs, disks, work, fault>>
      BY <2>2 DEF OpenEnd
    <3>3. ucnt' \in [Devices -> Int] /\ refs' \in Int
      BY <1>0, <3>1, <3>2 DEF Types
    <3>4. /\ upc' \in [Users -> {"out", "opening", "in"}]
          /\ udev' \in [Users -> Devices \cup {NULL}]
      BY <1>0, <3>1, <3>2 DEF Types, Moves
    <3> QED BY <1>0, <3>2, <3>3, <3>4 DEF Types
  <2>4. CASE Close(u)
    <3>1. udev[u] \in Devices /\ ucnt[udev[u]] \in Int
      BY <1>0, <2>4 DEF Types, Close, DInv, Lives, OpenersMeet
    <3> QED BY <1>0, <2>4, <3>1 DEF Types, Close, Moves
  <2>3. CASE OpenStale(u)
    BY <1>0, <2>3 DEF Types, OpenStale, Fail
  <2> QED BY <1>4, <2>1, <2>2, <2>3, <2>4, <2>5 DEF User
<1>5. ASSUME NEW d \in Devices, Work(d) PROVE Types'
  <2>1. CASE AddDisk(d)
    <3>1. /\ disks' = disks \cup {d}
          /\ UNCHANGED <<module, control, live, device_list, name, removing, queuedata,
                         chrs, users, fault>>
      BY <2>1 DEF AddDisk
    <3>2. ucnt' \in [Devices -> Int]
      BY <1>0, <2>1 DEF AddDisk, Types
    <3>3. work' \in [Devices -> {"none", "queued", "scanning", "added"}]
      BY <1>0, <2>1 DEF AddDisk, Types
    <3> QED BY <1>0, <3>1, <3>2, <3>3 DEF Types
  <2>2. CASE ScanEnds(d)
    BY <1>0, <2>2 DEF Types, ScanEnds
  <2>3. CASE AddDiskFinished(d)
    BY <1>0, <2>3 DEF Types, AddDiskFinished
  <2>4. CASE StrayWork(d)
    BY <1>0, <2>4 DEF Types, StrayWork, Fail
  <2> QED BY <1>5, <2>1, <2>2, <2>3, <2>4 DEF Work
<1> QED BY <1>1, <1>2, <1>3, <1>4, <1>5, <1>6 DEF Next
-----------------------------------------------------------------------------
(* The counters. *)

\* Who runs a command is alone, and the module is loaded.
LEMMA Command ==
  ASSUME DInv, NEW a \in Admins, apc[a] \notin {"closed", "busy"}
  PROVE  /\ a \in Active /\ Working = {a} /\ loaded
         /\ \A b \in Admins \ {a} : apc[b] \in {"closed", "busy"}
<1>1. a \in Active /\ a \in Working
  BY DEF Active, Working
<1>2. Working = {a}
  BY <1>1, Alone
<1>3. loaded
  BY <1>1 DEF DInv, Counters, UnloadedIsIdle
<1> QED BY <1>1, <1>2, <1>3 DEF Working

\* A step within a command changes neither who is in the control device nor, as
\* long as it is no removal's last, what refers to the module.
LEMMA WithinCommand ==
  ASSUME DInv, NEW a \in Admins, apc[a] \notin {"closed", "busy"},
         NEW p, p \notin {"closed", "busy"}, NEW d, Goes(a, p, d)
  PROVE  /\ Active' = Active /\ Working' = Working
         /\ p # "rm_free" => Referring' = Listed'
         /\ p = "rm_free" => Referring' = Listed' \ {d}
         /\ apc[a] # "rm_free" => Referring = Listed
         /\ apc[a] = "rm_free" => Referring = Listed \ {adev[a]}
<1>1. a \in Active /\ Working = {a} /\ \A b \in Admins \ {a} : apc[b] \in {"closed", "busy"}
  BY Command
<1>2. Types
  BY DEF DInv
<1>3. Active' = Active /\ Working' = Working
  BY <1>1, <1>2, AdminMoves
<1>4. /\ apc'[a] = p /\ adev'[a] = d
      /\ \A b \in Admins \ {a} : apc'[b] = apc[b] /\ adev'[b] = adev[b]
  BY <1>2 DEF Goes, Types
<1>5. \A b \in Admins : apc[b] = "rm_free" => b = a /\ apc[a] = "rm_free"
  BY <1>1
<1>6. \A b \in Admins : apc'[b] = "rm_free" => b = a /\ p = "rm_free"
  BY <1>1, <1>4
<1>7. Referring = IF apc[a] = "rm_free" THEN Listed \ {adev[a]} ELSE Listed
  BY <1>5 DEF Referring
<1>8. Referring' = IF p = "rm_free" THEN Listed' \ {d} ELSE Listed'
  BY <1>4, <1>6 DEF Referring
<1> QED BY <1>3, <1>7, <1>8

\* A step into or out of the control device.
LEMMA AroundCommand ==
  ASSUME DInv, NEW a \in Admins, NEW p, Goes(a, p, NULL),
         apc[a] # "rm_free", p # "rm_free", device_list' = device_list
  PROVE  Referring' = Referring /\ Listed' = Listed
<1>1. \A b \in Admins : apc'[b] = "rm_free" <=> apc[b] = "rm_free"
  BY DEF DInv, Types, Goes
<1>2. \A b \in Admins : apc[b] = "rm_free" => adev'[b] = adev[b]
  BY DEF DInv, Types, Goes
<1>3. Listed' = Listed
  BY DEF Listed, Range
<1> QED BY <1>1, <1>2, <1>3 DEF Referring

\* Steps of the programs and of the add_disk work leave administrators alone.
LEMMA Elsewhere ==
  ASSUME UNCHANGED <<ctrl_lock, apc, adev, device_list>>
  PROVE  /\ Active' = Active /\ Working' = Working
         /\ Listed' = Listed /\ Referring' = Referring
         /\ ControlExclusive => ControlExclusive'
BY DEF Active, Working, Listed, Range, Referring, ControlExclusive

LEMMA ControlKept ==
  ASSUME DInv, Next
  PROVE  ControlExclusive'
<1> USE DEF module, control, fields, devs, users
<1>0. /\ Types /\ ControlExclusive
      /\ IsFiniteSet(Active) /\ Cardinality(Active) \in Nat /\ ctrl_lock \in Int
      /\ IsFiniteSet(Working) /\ Cardinality(Working) <= 1
      /\ ctrl_lock = 1 - Cardinality(Active)
  BY Countable DEF DInv, Counters, ControlExclusive, Working, Types
<1>1. CASE Load
  <2>1. Active = {}
    BY <1>1 DEF Load, DInv, Counters, UnloadedIsIdle
  <2>2. Cardinality(Active) = 0
    BY <2>1, FS_EmptySet
  <2>3. ctrl_lock' = ctrl_lock /\ apc' = apc
    BY <1>0, <1>1, <2>2 DEF Load
  <2> QED BY <1>0, <2>3 DEF ControlExclusive, Active
<1>2. CASE Unload
  BY <1>0, <1>2 DEF Unload, ControlExclusive, Active
<1>3. ASSUME NEW a \in Admins, Admin(a) PROVE ControlExclusive'
  <2>1. CASE CtrlOpen(a)
    <3>1. PICK p : p = IF ctrl_lock = 1 THEN "open" ELSE "busy"
      OBVIOUS
    <3>2. Goes(a, p, NULL) /\ p # "closed" /\ a \notin Active /\ a \notin Working
      BY <2>1, <3>1 DEF CtrlOpen, Active, Working
    <3>3. Active' = Active \cup {a} /\ Cardinality(Active') = Cardinality(Active) + 1
      BY <1>0, <3>2, AdminMoves, FS_AddElement
    <3>4. ctrl_lock' = 1 - Cardinality(Active')
      BY <1>0, <2>1, <3>3 DEF CtrlOpen
    <3>5. CASE ctrl_lock = 1
      <4>1. Working = {} /\ Working' = Working \cup {a}
        BY <1>0, <3>1, <3>2, <3>5, AdminMoves, FreeLock
      <4>2. Cardinality(Working') = 1
        BY <4>1, FS_Singleton
      <4> QED BY <3>4, <4>2 DEF ControlExclusive, Working
    <3>6. CASE ctrl_lock # 1
      <4>1. Working' = Working
        BY <1>0, <3>1, <3>2, <3>6, AdminMoves
      <4> QED BY <1>0, <3>4, <4>1 DEF ControlExclusive, Working
    <3> QED BY <3>5, <3>6
  <2>2. CASE CtrlBusy(a) \/ CtrlRelease(a)
    <3>1. Goes(a, "closed", NULL) /\ a \in Active /\ ctrl_lock' = ctrl_lock + 1
      BY <2>2 DEF CtrlBusy, CtrlRelease, Active
    <3>2. /\ Active' = Active \ {a} /\ Cardinality(Active') = Cardinality(Active) - 1
          /\ Working' = Working \ {a}
      BY <1>0, <3>1, AdminMoves, FS_RemoveElement
    <3>3. Cardinality(Working') <= 1
      <4>1. Cardinality(Working) \in Nat
        BY Countable
      <4>2. Cardinality(Working \ {a})
              = IF a \in Working THEN Cardinality(Working) - 1 ELSE Cardinality(Working)
        BY <1>0, FS_RemoveElement
      <4> QED BY <1>0, <3>2, <4>1, <4>2
    <3> QED BY <1>0, <3>1, <3>2, <3>3 DEF ControlExclusive, Working
  <2>3. CASE ~(CtrlOpen(a) \/ CtrlBusy(a) \/ CtrlRelease(a))
    <3>1. ASSUME UNCHANGED <<ctrl_lock, apc>> PROVE ControlExclusive'
      BY <1>0, <3>1 DEF ControlExclusive, Active
    <3>2. \/ UNCHANGED <<ctrl_lock, apc>>
          \/ /\ apc[a] \notin {"closed", "busy"} /\ ctrl_lock' = ctrl_lock
             /\ \E p, d : p \notin {"closed", "busy"} /\ Goes(a, p, d)
      <4>1. ASSUME NEW n \in Names, Create(a, n) \/ RemoveMark(a, n)
            PROVE  /\ apc[a] \notin {"closed", "busy"} /\ ctrl_lock' = ctrl_lock
                   /\ \E p, d : p \notin {"closed", "busy"} /\ Goes(a, p, d)
        BY <4>1 DEF Create, RemoveMark
      <4>2. CASE CreateDisk(a) \/ CreateFails(a)
        BY <4>2 DEF CreateDisk, CreateFails
      <4>3. CASE RemoveChr(a) \/ RemoveQueue(a) \/ RemoveDisk(a) \/ RemoveFree(a)
        BY <4>3 DEF RemoveChr, RemoveQueue, RemoveDisk, RemoveFree
      <4>4. CASE List(a) \/ CtrlRead(a) \/ CreateFailsHeld(a) \/ NoWork(a)
        BY <4>4 DEF List, CtrlRead, CreateFailsHeld, NoWork, Fail
      <4>5. ASSUME NEW n \in Names, Info(a, n) PROVE UNCHANGED <<ctrl_lock, apc>>
        BY <4>5 DEF Info
      <4> QED BY <1>3, <2>3, <4>1, <4>2, <4>3, <4>4, <4>5 DEF Admin
    <3>3. ASSUME apc[a] \notin {"closed", "busy"}, ctrl_lock' = ctrl_lock,
                 NEW p, NEW d, p \notin {"closed", "busy"}, Goes(a, p, d)
          PROVE  ControlExclusive'
      BY <1>0, <3>3, WithinCommand DEF ControlExclusive, Working
    <3> QED BY <3>1, <3>2, <3>3
  <2> QED BY <2>1, <2>2, <2>3
<1>4. ASSUME NEW u \in Users, User(u) PROVE UNCHANGED <<ctrl_lock, apc, adev, device_list>>
  BY <1>4 DEF User, OpenChr, OpenDisk, OpenEnd, OpenStale, Close, Fail
<1>5. ASSUME NEW d \in Devices, Work(d) PROVE UNCHANGED <<ctrl_lock, apc, adev, device_list>>
  BY <1>5 DEF Work, AddDisk, ScanEnds, AddDiskFinished, StrayWork, Fail
<1> QED BY <1>0, <1>1, <1>2, <1>3, <1>4, <1>5, Elsewhere DEF Next

\* The reference count counts everybody in the module.
LEMMA RefsKept ==
  ASSUME DInv, Next
  PROVE  RefsCount'
<1> USE DEF module, control, fields, devs, users
<1>0. /\ Types /\ RefsCount /\ IsFiniteSet(Listed) /\ refs \in Int
      /\ refs = Cardinality(Active) + Cardinality(Referring) + Cardinality(Inside)
      /\ Cardinality(Active) \in Nat /\ Cardinality(Referring) \in Nat
      /\ Cardinality(Inside) \in Nat
      /\ IsFiniteSet(Active) /\ IsFiniteSet(Referring) /\ IsFiniteSet(Inside)
      /\ device_list \in Seq(Devices) /\ IsInjective(device_list)
  BY Countable DEF DInv, Counters, RefsCount, Types, Lives, Structures
<1>1. ASSUME UNCHANGED <<apc, adev, device_list, upc, refs>> PROVE RefsCount'
  BY <1>0, <1>1 DEF RefsCount, Active, Referring, Inside, Listed, Range
<1>2. CASE Load \/ Unload
  BY <1>1, <1>2 DEF Load, Unload
<1>3. ASSUME NEW a \in Admins, Admin(a) PROVE RefsCount'
  <2>0. ASSUME upc' = upc PROVE Inside' = Inside
    BY <2>0 DEF Inside
  <2>1. CASE CtrlOpen(a)
    <3>1. PICK p : p \in {"open", "busy"} /\ Goes(a, p, NULL)
      BY <2>1 DEF CtrlOpen
    <3>2. a \notin Active /\ Active' = Active \cup {a}
      BY <1>0, <2>1, <3>1, AdminMoves DEF CtrlOpen, Active
    <3>3. Cardinality(Active') = Cardinality(Active) + 1
      BY <1>0, <3>2, FS_AddElement
    <3>4. Referring' = Referring /\ Listed' = Listed
      BY <2>1, <3>1, AroundCommand DEF CtrlOpen
    <3> QED BY <1>0, <2>0, <2>1, <3>3, <3>4 DEF CtrlOpen, RefsCount
  <2>2. CASE CtrlBusy(a) \/ CtrlRelease(a)
    <3>1. /\ Goes(a, "closed", NULL) /\ a \in Active /\ apc[a] # "rm_free"
          /\ refs' = refs - 1 /\ device_list' = device_list /\ upc' = upc
      BY <2>2 DEF CtrlBusy, CtrlRelease, Active
    <3>2. Active' = Active \ {a}
      BY <1>0, <3>1, AdminMoves
    <3>3. Cardinality(Active') = Cardinality(Active) - 1
      BY <1>0, <3>1, <3>2, FS_RemoveElement
    <3>4. Referring' = Referring /\ Listed' = Listed
      BY <3>1, AroundCommand
    <3> QED BY <1>0, <2>0, <3>1, <3>3, <3>4 DEF RefsCount
  <2>3. ASSUME apc[a] \notin {"closed", "busy", "rm_free"},
               UNCHANGED <<refs, upc, device_list>>,
               NEW p, NEW d, p \notin {"closed", "busy", "rm_free"}, Goes(a, p, d)
        PROVE  RefsCount'
    <3>1. Active' = Active /\ Referring = Listed /\ Referring' = Listed'
      BY <2>3, WithinCommand
    <3>2. Listed' = Listed
      BY <2>3 DEF Listed, Range
    <3> QED BY <1>0, <2>0, <2>3, <3>1, <3>2 DEF RefsCount
  <2>4. CASE RemoveChr(a) \/ RemoveQueue(a) \/ CreateFails(a)
    BY <2>3, <2>4 DEF RemoveChr, RemoveQueue, CreateFails, FreeDevice
  <2>5. ASSUME NEW n \in Names, Create(a, n) \/ RemoveMark(a, n)
        PROVE  RefsCount'
    BY <2>3, <2>5 DEF Create, RemoveMark
  <2>6. CASE List(a) \/ CtrlRead(a) \/ CreateFailsHeld(a) \/ NoWork(a)
    BY <1>1, <2>6 DEF List, CtrlRead, CreateFailsHeld, NoWork, Fail
  <2>10. ASSUME NEW n \in Names, Info(a, n) PROVE RefsCount'
    BY <1>1, <2>10 DEF Info
  <2>7. CASE CreateDisk(a)
    <3>1. adev[a] \in Devices /\ adev[a] \notin Listed
      BY <2>7 DEF CreateDisk, DInv, Lives, Creation, Types
    <3>2. Active' = Active /\ Referring = Listed /\ Referring' = Listed'
      BY <2>7, WithinCommand DEF CreateDisk
    <3>3. Listed' = Listed \cup {adev[a]}
      BY <1>0, <2>7, <3>1, RangeAppend DEF CreateDisk, Listed
    <3>4. IsFiniteSet(Listed') /\ Cardinality(Listed') = Cardinality(Listed) + 1
      BY <1>0, <3>1, <3>3, FS_AddElement
    <3> QED BY <1>0, <2>0, <2>7, <3>2, <3>4 DEF CreateDisk, RefsCount
  <2>8. CASE RemoveDisk(a)
    <3>1. adev[a] \in Listed
      BY <2>8 DEF RemoveDisk, DInv, Lives, Dismantling, Removal
    <3>2. Active' = Active /\ Referring = Listed /\ Referring' = Listed' \ {adev[a]}
      BY <2>8, WithinCommand DEF RemoveDisk
    <3>3. Listed' = Listed
      BY <2>8 DEF RemoveDisk, Listed, Range
    <3>4. Cardinality(Referring') = Cardinality(Referring) - 1
      BY <1>0, <3>1, <3>2, <3>3, FS_RemoveElement
    <3> QED BY <1>0, <2>0, <2>8, <3>2, <3>3, <3>4 DEF RemoveDisk, RefsCount
  <2>9. CASE RemoveFree(a)
    <3>1. apc[a] = "rm_free" /\ Goes(a, "open", NULL)
      BY <2>9 DEF RemoveFree
    <3>2. PICK p : p = "open"
      OBVIOUS
    <3>3. /\ Goes(a, p, NULL) /\ apc[a] \notin {"closed", "busy"}
          /\ p \notin {"closed", "busy", "rm_free"}
      BY <3>1, <3>2
    <3>4. Active' = Active /\ Referring = Listed \ {adev[a]} /\ Referring' = Listed'
      BY <3>1, <3>3, WithinCommand
    <3>5. Listed' = Listed \ {adev[a]}
      BY <1>0, <2>9, RemoveFirstProperties DEF RemoveFree, Listed
    <3>6. IsFiniteSet(Listed')
      BY <1>0, <3>5, FS_RemoveElement
    <3> QED BY <1>0, <2>0, <2>9, <3>4, <3>5, <3>6 DEF RemoveFree, FreeDevice, RefsCount
  <2> QED BY <1>3, <2>1, <2>2, <2>4, <2>5, <2>6, <2>7, <2>8, <2>9, <2>10 DEF Admin
<1>4. ASSUME NEW u \in Users, User(u) PROVE RefsCount'
  <2>0. ASSUME UNCHANGED <<ctrl_lock, apc, adev, device_list>>
        PROVE  Active' = Active /\ Listed' = Listed /\ Referring' = Referring
    BY <2>0, Elsewhere
  <2>1. ASSUME NEW d \in Devices, OpenChr(u, d) \/ OpenDisk(u, d) PROVE RefsCount'
    <3>1. PICK e : Moves(u, "opening", e)
      BY <2>1 DEF OpenChr, OpenDisk
    <3>2. u \notin Inside /\ Inside' = Inside \cup {u}
      BY <1>0, <2>1, <3>1, UserMoves DEF OpenChr, OpenDisk, Inside
    <3>3. Cardinality(Inside') = Cardinality(Inside) + 1
      BY <1>0, <3>2, FS_AddElement
    <3> QED BY <1>0, <2>0, <2>1, <3>3 DEF OpenChr, OpenDisk, RefsCount
  <2>2. ASSUME u \in Inside, Moves(u, "out", NULL), refs' = refs - 1,
               UNCHANGED <<ctrl_lock, apc, adev, device_list>>
        PROVE  RefsCount'
    <3>1. Inside' = Inside \ {u}
      BY <1>0, <2>2, UserMoves
    <3>2. Cardinality(Inside') = Cardinality(Inside) - 1
      BY <1>0, <2>2, <3>1, FS_RemoveElement
    <3> QED BY <1>0, <2>0, <2>2, <3>2 DEF RefsCount
  <2>3. ASSUME u \in Inside, NEW e, Moves(u, "in", e), refs' = refs,
               UNCHANGED <<ctrl_lock, apc, adev, device_list>>
        PROVE  RefsCount'
    <3>1. Inside' = Inside
      <4>1. Inside' = IF "in" = "out" THEN Inside \ {u} ELSE Inside \cup {u}
        BY <1>0, <2>3, UserMoves
      <4> QED BY <2>3, <4>1
    <3> QED BY <1>0, <2>0, <2>3, <3>1 DEF RefsCount
  <2>4. CASE OpenEnd(u)
    BY <2>2, <2>3, <2>4 DEF OpenEnd, Inside
  <2>5. CASE Close(u)
    BY <2>2, <2>5 DEF Close, Inside
  <2>6. CASE OpenStale(u)
    BY <1>1, <2>6 DEF OpenStale, Fail
  <2> QED BY <1>4, <2>1, <2>4, <2>5, <2>6 DEF User
<1>5. ASSUME NEW d \in Devices, Work(d) PROVE RefsCount'
  BY <1>1, <1>5 DEF Work, AddDisk, ScanEnds, AddDiskFinished, StrayWork, Fail
<1> QED BY <1>2, <1>3, <1>4, <1>5 DEF Next

\* The module goes only when nobody is left in it, and nobody comes in after that.
LEMMA IdleKept ==
  ASSUME DInv, Next
  PROVE  UnloadedIsIdle'
<1> USE DEF module, control, fields, devs, users
<1>0. /\ Types /\ RefsCount /\ UnloadedIsIdle /\ Structures
      /\ IsFiniteSet(Active) /\ IsFiniteSet(Referring) /\ IsFiniteSet(Inside)
      /\ Cardinality(Active) \in Nat /\ Cardinality(Referring) \in Nat
      /\ Cardinality(Inside) \in Nat
  BY Countable DEF DInv, Counters, Lives
<1>1. CASE Load
  BY <1>1 DEF Load, UnloadedIsIdle
<1>2. CASE Unload
  <2>1. Active = {} /\ Referring = {} /\ Inside = {}
    <3>1. /\ Cardinality(Active) = 0 /\ Cardinality(Referring) = 0
          /\ Cardinality(Inside) = 0
      BY <1>0, <1>2 DEF Unload, RefsCount
    <3> QED BY <1>0, <3>1, FS_EmptySet
  <2>2. Listed = {}
    BY <2>1 DEF Referring, Active
  <2>3. device_list = <<>>
    <3>1. device_list \in Seq(Devices) /\ \A i \in 1 .. Len(device_list) : device_list[i] \in Listed
      BY <1>0 DEF Listed, Range, Types
    <3>2. \A i \in 1 .. Len(device_list) : FALSE
      BY <2>2, <3>1
    <3> QED BY <3>1, <3>2
  <2>4. live = {}
    BY <1>0, <2>1, <2>2 DEF Structures, Active
  <2> QED BY <1>2, <2>1, <2>3, <2>4 DEF Unload, UnloadedIsIdle, Active, Inside
<1>3. ASSUME NEW a \in Admins, Admin(a) PROVE UnloadedIsIdle'
  <2>1. loaded' = loaded /\ (apc[a] # "closed" \/ loaded)
    <3>1. ASSUME NEW n \in Names, Info(a, n) \/ Create(a, n) \/ RemoveMark(a, n)
          PROVE  loaded' = loaded /\ apc[a] # "closed"
      BY <3>1 DEF Info, Create, RemoveMark
    <3>2. CASE CtrlOpen(a) \/ CtrlBusy(a) \/ CtrlRelease(a) \/ List(a) \/ CtrlRead(a)
      BY <3>2 DEF CtrlOpen, CtrlBusy, CtrlRelease, List, CtrlRead
    <3>3. CASE CreateDisk(a) \/ CreateFails(a) \/ CreateFailsHeld(a) \/ NoWork(a)
      BY <3>3 DEF CreateDisk, CreateFails, CreateFailsHeld, NoWork, Fail
    <3>4. CASE RemoveChr(a) \/ RemoveQueue(a) \/ RemoveDisk(a) \/ RemoveFree(a)
      BY <3>4 DEF RemoveChr, RemoveQueue, RemoveDisk, RemoveFree
    <3> QED BY <1>3, <3>1, <3>2, <3>3, <3>4 DEF Admin
  <2>2. loaded
    BY <1>0, <2>1 DEF UnloadedIsIdle, Active
  <2> QED BY <2>1, <2>2 DEF UnloadedIsIdle
<1>4. ASSUME NEW u \in Users, User(u) PROVE UnloadedIsIdle'
  <2>1. loaded' = loaded
    BY <1>4 DEF User, OpenChr, OpenDisk, OpenEnd, OpenStale, Close, Fail
  <2>2. upc[u] # "out" \/ live # {}
    BY <1>0, <1>4 DEF User, OpenChr, OpenDisk, OpenEnd, OpenStale, Close, Structures
  <2>3. loaded
    BY <1>0, <2>2 DEF UnloadedIsIdle
  <2> QED BY <2>1, <2>3 DEF UnloadedIsIdle
<1>5. ASSUME NEW d \in Devices, Work(d) PROVE UnloadedIsIdle'
  <2>1. UNCHANGED <<loaded, live, device_list, apc, upc>>
    BY <1>5 DEF Work, AddDisk, ScanEnds, AddDiskFinished, StrayWork, Fail
  <2> QED BY <1>0, <2>1 DEF UnloadedIsIdle, Active
<1> QED BY <1>1, <1>2, <1>3, <1>4, <1>5 DEF Next

LEMMA CountersKept ==
  ASSUME DInv, [Next]_vars
  PROVE  Counters'
<1>1. CASE UNCHANGED vars
  <2>1. UNCHANGED <<loaded, refs, ctrl_lock, apc, adev, live, device_list, upc>>
    BY <1>1 DEF vars, module, control, devs, users
  <2>2. Counters
    BY DEF DInv
  <2>3. ControlExclusive'
    BY <2>1, <2>2, Elsewhere DEF Counters
  <2>4. RefsCount'
    BY <2>1, <2>2 DEF Counters, RefsCount, Active, Referring, Inside, Listed, Range
  <2>5. UnloadedIsIdle'
    BY <2>1, <2>2 DEF Counters, UnloadedIsIdle, Active
  <2> QED BY <2>3, <2>4, <2>5 DEF Counters
<1>2. CASE Next
  BY <1>2, ControlKept, RefsKept, IdleKept DEF Counters
<1> QED BY <1>1, <1>2
-----------------------------------------------------------------------------
(* The lives of the structures. *)

\* After a step within a command, only that command has a device in hand.
LEMMA OnlyMine ==
  ASSUME DInv, NEW a \in Admins, apc[a] \notin {"closed", "busy"},
         NEW p, NEW d, Goes(a, p, d)
  PROVE  /\ apc'[a] = p /\ adev'[a] = d
         /\ \A b \in Admins \ {a} : apc[b] \in {"closed", "busy"}
         /\ \A b \in Admins \ {a} : apc'[b] \in {"closed", "busy"}
         /\ p # "create" => Creation'
         /\ p \notin Removal => Dismantling'
         /\ \A e \in live : e \in Listed \/ (apc[a] = "create" /\ adev[a] = e)
<1>1. \A b \in Admins \ {a} : apc[b] \in {"closed", "busy"}
  BY Command
<1>2. apc'[a] = p /\ adev'[a] = d /\ \A b \in Admins \ {a} : apc'[b] = apc[b]
  BY DEF Goes, DInv, Types
<1>3. \A b \in Admins \ {a} : apc'[b] \in {"closed", "busy"}
  BY <1>1, <1>2
<1>4. p # "create" => Creation'
  BY <1>2, <1>3 DEF Creation
<1>5. p \notin Removal => Dismantling'
  BY <1>2, <1>3 DEF Dismantling, Removal
<1>6. \A e \in live : e \in Listed \/ (apc[a] = "create" /\ adev[a] = e)
  BY <1>1 DEF DInv, Lives, Structures
<1> QED BY <1>1, <1>2, <1>3, <1>4, <1>5, <1>6

LEMMA AdminLives ==
  ASSUME DInv, fault = "none", NEW a \in Admins, Admin(a)
  PROVE  Lives'
<1> USE DEF module, control, fields, devs, users
<1>0. Types /\ Creation /\ Dismantling /\ Structures /\ OpenersMeet /\ NamesUnique /\ InUseKept
  BY DEF DInv, Lives, Promises
<1>1. CASE CtrlOpen(a) \/ CtrlBusy(a) \/ CtrlRelease(a)
  <2>1. /\ UNCHANGED <<devs, users>> /\ apc[a] \notin {"create"} \cup Removal
        /\ \E p : p \notin {"create"} \cup Removal /\ Goes(a, p, NULL)
    BY <1>1 DEF CtrlOpen, CtrlBusy, CtrlRelease, Removal
  <2>2. /\ apc'[a] \notin {"create"} \cup Removal
        /\ \A b \in Admins \ {a} : apc'[b] = apc[b] /\ adev'[b] = adev[b]
    BY <1>0, <2>1 DEF Types, Goes
  <2>3. Creation' /\ Dismantling'
    BY <1>0, <2>1, <2>2 DEF Creation, Dismantling, Listed, Range
  <2>4. Structures'
    BY <1>0, <2>1, <2>2 DEF Structures, Listed, Range
  <2> QED BY <1>0, <2>1, <2>3, <2>4 DEF Lives, OpenersMeet
<1>2. ASSUME UNCHANGED <<apc, adev, devs, users>> PROVE Lives'
  BY <1>0, <1>2 DEF Lives, Creation, Dismantling, Structures, OpenersMeet, Listed, Range
<1>3. ASSUME NEW n \in Names, Create(a, n) PROVE Lives'
  <2>1. PICK d \in Devices \ live :
          /\ work[d] = "none"
          /\ live' = live \cup {d}
          /\ name' = [name EXCEPT ![d] = n]
          /\ removing' = [removing EXCEPT ![d] = FALSE]
          /\ ucnt' = [ucnt EXCEPT ![d] = 0]
          /\ queuedata' = [queuedata EXCEPT ![d] = TRUE]
          /\ chrs' = chrs \cup {d}
          /\ Goes(a, "create", d)
    BY <1>3 DEF Create
  <2>2. d \notin Listed /\ d \notin disks /\ Listed' = Listed /\ Listed \subseteq Devices
    BY <1>0, <1>3, <2>1 DEF Create, Structures, Listed, Range, Types
  <2>3. apc[a] = "open" /\ Found(n) = {} /\ UNCHANGED <<device_list, disks, work, users>>
    BY <1>3 DEF Create
  <2>4. /\ name'[d] = n /\ ~removing'[d] /\ queuedata'[d]
        /\ \A e \in Devices \ {d} :
             name'[e] = name[e] /\ removing'[e] = removing[e] /\ queuedata'[e] = queuedata[e]
    BY <1>0, <2>1 DEF Types
  <2>5. /\ apc'[a] = "create" /\ adev'[a] = d
        /\ \A b \in Admins \ {a} : apc[b] \in {"closed", "busy"} /\ apc'[b] \in {"closed", "busy"}
    BY <2>1, <2>3, OnlyMine
  <2>6. Creation'
    BY <2>1, <2>2, <2>3, <2>4, <2>5 DEF Creation, Found
  <2>7. Dismantling'
    BY <2>5 DEF Dismantling, Removal
  <2>8. Structures'
    <3>1. \A e \in live' : e \in Listed' \/ \E b \in Admins : apc'[b] = "create" /\ adev'[b] = e
      BY <2>1, <2>2, <2>3, <2>5, OnlyMine
    <3>2. IsInjective(device_list') /\ Listed' \subseteq live' /\ chrs' \subseteq live'
      BY <1>0, <2>1, <2>2, <2>3 DEF Structures
    <3>3. \A e \in live' : ~removing'[e] => queuedata'[e]
      BY <1>0, <2>1, <2>4 DEF Structures, Types
    <3> QED BY <1>0, <2>1, <2>3, <3>1, <3>2, <3>3 DEF Structures
  <2>9. OpenersMeet'
    BY <1>0, <2>1, <2>3 DEF OpenersMeet
  <2> QED BY <2>6, <2>7, <2>8, <2>9 DEF Lives
<1>4. ASSUME NEW n \in Names, RemoveMark(a, n) PROVE Lives'
  <2>1. PICK d \in Found(n) :
          /\ ucnt[d] = 0 /\ removing' = [removing EXCEPT ![d] = TRUE]
          /\ Goes(a, "rm_chr", d)
    BY <1>4 DEF RemoveMark
  <2>2. d \in Listed /\ d \in Devices /\ Listed' = Listed /\ Listed \subseteq Devices
    BY <1>0, <1>4, <2>1 DEF RemoveMark, Found, Listed, Range, Types
  <2>3. /\ apc[a] = "open"
        /\ UNCHANGED <<live, device_list, queuedata, chrs, disks, work, users>>
    BY <1>4 DEF RemoveMark
  <2>4. removing'[d] /\ \A e \in Devices \ {d} : removing'[e] = removing[e]
    BY <1>0, <2>1, <2>2 DEF Types
  <2>5. /\ apc'[a] = "rm_chr" /\ adev'[a] = d /\ Creation'
        /\ \A b \in Admins \ {a} : apc[b] \in {"closed", "busy"} /\ apc'[b] \in {"closed", "busy"}
    BY <2>1, <2>3, OnlyMine
  <2>6. Dismantling'
    BY <2>2, <2>4, <2>5 DEF Dismantling, Removal
  <2>7. Structures'
    BY <1>0, <2>2, <2>3, <2>4, <2>5 DEF Structures, Types
  <2> QED BY <1>0, <2>3, <2>5, <2>6, <2>7 DEF Lives, OpenersMeet
<1>5. CASE CreateDisk(a)
  <2>1. /\ adev[a] \in live /\ adev[a] \in Devices /\ adev[a] \notin Listed
        /\ adev[a] \notin disks /\ IsInjective(device_list)
    BY <1>0, <1>5 DEF CreateDisk, Creation, Structures, Types
  <2>2. /\ apc[a] = "create" /\ Goes(a, "open", NULL)
        /\ work' = [work EXCEPT ![adev[a]] = "queued"]
        /\ UNCHANGED <<live, fields, chrs, disks, users>>
    BY <1>5 DEF CreateDisk
  <2>3. Listed' = Listed \cup {adev[a]} /\ IsInjective(device_list')
    BY <1>0, <1>5, <2>1, AppendFresh, RangeAppend DEF CreateDisk, Listed, Types
  <2>4. /\ Creation' /\ Dismantling' /\ apc'[a] = "open"
        /\ \A b \in Admins \ {a} : apc[b] \in {"closed", "busy"} /\ apc'[b] \in {"closed", "busy"}
    BY <2>2, OnlyMine DEF Removal
  <2>5. Structures'
    <3>1. \A e \in live' : e \in Listed' \/ \E b \in Admins : apc'[b] = "create" /\ adev'[b] = e
      BY <2>1, <2>2, <2>3, OnlyMine
    <3>2. \A e \in Devices : work'[e] = "scanning" => work[e] = "scanning"
      BY <1>0, <2>1, <2>2 DEF Types
    <3> QED BY <1>0, <2>1, <2>2, <2>3, <3>1, <3>2 DEF Structures
  <2> QED BY <1>0, <2>2, <2>4, <2>5 DEF Lives, OpenersMeet
<1>6. ASSUME NEW d \in Devices, FreeDevice(d)
      PROVE  OpenersMeet'
  <2>1. \A u \in Users : upc'[u] = upc[u]
                 /\ udev'[u] = IF upc[u] = "opening" /\ udev[u] = d THEN NULL ELSE udev[u]
    BY <1>0, <1>6 DEF FreeDevice, Types
  <2> QED BY <1>0, <1>6, <2>1 DEF FreeDevice, OpenersMeet
<1>7. CASE CreateFails(a)
  <2>1. /\ adev[a] \in live /\ adev[a] \in Devices /\ adev[a] \notin Listed
        /\ adev[a] \notin disks /\ work[adev[a]] = "none"
    BY <1>0, <1>7 DEF CreateFails, Creation, Structures, Types
  <2>2. /\ apc[a] = "create" /\ Goes(a, "open", NULL) /\ FreeDevice(adev[a])
        /\ chrs' = chrs \ {adev[a]} /\ live' = live \ {adev[a]}
        /\ UNCHANGED <<device_list, fields, disks, work>>
    BY <1>7 DEF CreateFails, FreeDevice
  <2>3. Listed' = Listed
    BY <2>2 DEF Listed, Range
  <2>4. /\ Creation' /\ Dismantling' /\ apc'[a] = "open"
        /\ \A b \in Admins \ {a} : apc[b] \in {"closed", "busy"} /\ apc'[b] \in {"closed", "busy"}
    BY <2>2, OnlyMine DEF Removal
  <2>5. Structures'
    <3>1. \A e \in live' : e \in Listed' \/ \E b \in Admins : apc'[b] = "create" /\ adev'[b] = e
      BY <2>2, <2>3, OnlyMine
    <3> QED BY <1>0, <2>1, <2>2, <2>3, <3>1 DEF Structures
  <2> QED BY <1>6, <2>1, <2>2, <2>4, <2>5 DEF Lives
<1>8. CASE \/ List(a) \/ CtrlRead(a) \/ CreateFailsHeld(a) \/ NoWork(a)
           \/ \E n \in Names : Info(a, n)
  BY <1>2, <1>8 DEF List, CtrlRead, CreateFailsHeld, NoWork, Info, Fail
<1>9. CASE RemoveChr(a)
  <2>1. /\ apc[a] = "rm_chr" /\ Goes(a, "rm_queue", adev[a]) /\ chrs' = chrs \ {adev[a]}
        /\ UNCHANGED <<live, device_list, fields, disks, work, users>>
    BY <1>9 DEF RemoveChr
  <2>2. Listed' = Listed /\ adev[a] \in Listed /\ removing[adev[a]]
    BY <1>0, <2>1 DEF Dismantling, Listed, Range, Removal
  <2>3. /\ Creation' /\ apc'[a] = "rm_queue" /\ adev'[a] = adev[a]
        /\ \A b \in Admins \ {a} : apc[b] \in {"closed", "busy"} /\ apc'[b] \in {"closed", "busy"}
    BY <2>1, OnlyMine
  <2>4. Dismantling'
    BY <2>1, <2>2, <2>3 DEF Dismantling, Removal
  <2>5. Structures'
    BY <1>0, <2>1, <2>2, <2>3 DEF Structures, Types
  <2> QED BY <1>0, <2>1, <2>3, <2>4, <2>5 DEF Lives, OpenersMeet
<1>10. CASE RemoveQueue(a)
  <2>1. /\ apc[a] = "rm_queue" /\ Goes(a, "rm_disk", adev[a])
        /\ queuedata' = [queuedata EXCEPT ![adev[a]] = FALSE]
        /\ UNCHANGED <<live, device_list, removing, chrs, disks, work, users>>
    BY <1>10 DEF RemoveQueue
  <2>2. /\ Listed' = Listed /\ adev[a] \in Listed /\ removing[adev[a]]
        /\ adev[a] \notin chrs /\ adev[a] \in Devices
    BY <1>0, <2>1 DEF Dismantling, Listed, Range, Removal, Types
  <2>3. /\ Creation' /\ apc'[a] = "rm_disk" /\ adev'[a] = adev[a]
        /\ \A b \in Admins \ {a} : apc[b] \in {"closed", "busy"} /\ apc'[b] \in {"closed", "busy"}
    BY <2>1, OnlyMine
  <2>4. ~queuedata'[adev[a]] /\ \A e \in Devices \ {adev[a]} : queuedata'[e] = queuedata[e]
    BY <1>0, <2>1, <2>2 DEF Types
  <2>5. Dismantling'
    BY <2>1, <2>2, <2>3, <2>4 DEF Dismantling, Removal
  <2>6. Structures'
    <3>1. \A e \in live' : e \in Listed' \/ \E b \in Admins : apc'[b] = "create" /\ adev'[b] = e
      BY <2>1, <2>2, OnlyMine
    <3>2. \A e \in live' : ~removing'[e] => queuedata'[e]
      BY <1>0, <2>1, <2>2, <2>4 DEF Structures, Types
    <3> QED BY <1>0, <2>1, <2>2, <3>1, <3>2 DEF Structures
  <2> QED BY <1>0, <2>1, <2>3, <2>5, <2>6 DEF Lives, OpenersMeet
<1>11. CASE RemoveDisk(a)
  <2>1. /\ apc[a] = "rm_disk" /\ Goes(a, "rm_free", adev[a]) /\ disks' = disks \ {adev[a]}
        /\ UNCHANGED <<live, device_list, fields, chrs, work, users>>
    BY <1>11 DEF RemoveDisk
  <2>2. /\ Listed' = Listed /\ adev[a] \in Listed /\ removing[adev[a]]
        /\ adev[a] \notin chrs /\ adev[a] \in Devices /\ ~queuedata[adev[a]]
    BY <1>0, <2>1 DEF Dismantling, Listed, Range, Removal, Types
  <2>3. /\ Creation' /\ apc'[a] = "rm_free" /\ adev'[a] = adev[a]
        /\ \A b \in Admins \ {a} : apc[b] \in {"closed", "busy"} /\ apc'[b] \in {"closed", "busy"}
    BY <2>1, OnlyMine
  <2>4. work[adev[a]] # "scanning"
    BY <1>0, <2>2, Countable DEF InUseKept
  <2>5. Dismantling'
    BY <2>1, <2>2, <2>3 DEF Dismantling, Removal
  <2>6. Structures'
    BY <1>0, <2>1, <2>2, <2>3, <2>4 DEF Structures, Types
  <2> QED BY <1>0, <2>1, <2>3, <2>5, <2>6 DEF Lives, OpenersMeet
<1>12. CASE RemoveFree(a)
  <2>1. /\ apc[a] = "rm_free" /\ Goes(a, "open", NULL) /\ FreeDevice(adev[a])
        /\ live' = live \ {adev[a]}
        /\ UNCHANGED <<fields, chrs, disks, work>>
    BY <1>12 DEF RemoveFree, FreeDevice
  <2>2. /\ adev[a] \in Listed /\ adev[a] \notin chrs /\ adev[a] \notin disks
        /\ adev[a] \in Devices
    BY <1>0, <2>1 DEF Dismantling, Removal, Listed, Range, Types
  <2>3. Listed' = Listed \ {adev[a]} /\ IsInjective(device_list')
    BY <1>0, <1>12, RemoveFirstProperties DEF RemoveFree, Listed, Structures, Types
  <2>4. /\ Creation' /\ Dismantling' /\ apc'[a] = "open"
        /\ \A b \in Admins \ {a} : apc[b] \in {"closed", "busy"} /\ apc'[b] \in {"closed", "busy"}
    BY <2>1, OnlyMine DEF Removal
  <2>5. Structures'
    BY <1>0, <2>1, <2>2, <2>3, <2>4 DEF Structures, Types
  <2> QED BY <1>6, <2>1, <2>2, <2>4, <2>5 DEF Lives
<1> QED BY <1>1, <1>3, <1>4, <1>5, <1>7, <1>8, <1>9, <1>10, <1>11, <1>12 DEF Admin

LEMMA UserLives ==
  ASSUME DInv, NEW u \in Users, User(u)
  PROVE  Lives'
<1> USE DEF module, control, fields, devs, users
<1>0. Types /\ Creation /\ Dismantling /\ Structures /\ OpenersMeet /\ InUseKept
  BY DEF DInv, Lives, Promises
<1>1. UNCHANGED <<apc, adev, live, device_list, name, removing, queuedata, chrs, disks, work>>
  BY DEF User, OpenChr, OpenDisk, OpenEnd, OpenStale, Close, Fail
<1>2. Creation' /\ Dismantling' /\ Structures'
  BY <1>0, <1>1 DEF Creation, Dismantling, Structures, Listed, Range
<1>3. ASSUME NEW d, Moves(u, "opening", d), d = NULL \/ d \in live PROVE OpenersMeet'
  BY <1>0, <1>1, <1>3 DEF OpenersMeet, Moves, Types
<1>4. ASSUME NEW d \in Devices, Moves(u, "in", d) PROVE OpenersMeet'
  BY <1>0, <1>1, <1>4 DEF OpenersMeet, Moves, Types
<1>5. ASSUME Moves(u, "out", NULL) PROVE OpenersMeet'
  BY <1>0, <1>1, <1>5 DEF OpenersMeet, Moves, Types
<1>6. OpenersMeet'
  <2>1. ASSUME NEW d \in Devices, OpenChr(u, d) \/ OpenDisk(u, d) PROVE OpenersMeet'
    <3>1. d \in live
      BY <1>0, <2>1 DEF OpenChr, OpenDisk, Structures
    <3>2. Moves(u, "opening", d) \/ Moves(u, "opening", NULL)
      BY <2>1 DEF OpenChr, OpenDisk
    <3> QED BY <1>3, <3>1, <3>2
  <2>2. CASE OpenEnd(u)
    <3>1. udev[u] \in Devices /\ (Moves(u, "out", NULL) \/ Moves(u, "in", udev[u]))
      BY <1>0, <2>2 DEF OpenEnd, Types
    <3> QED BY <1>4, <1>5, <3>1
  <2>3. CASE Close(u)
    BY <1>5, <2>3 DEF Close
  <2>4. CASE OpenStale(u)
    BY <1>0, <2>4 DEF OpenStale, Fail, OpenersMeet
  <2> QED BY <2>1, <2>2, <2>3, <2>4 DEF User
<1> QED BY <1>2, <1>6 DEF Lives

LEMMA WorkLives ==
  ASSUME DInv, NEW d \in Devices, Work(d)
  PROVE  Lives'
<1> USE DEF module, control, fields, devs, users
<1>0. Types /\ Creation /\ Dismantling /\ Structures /\ OpenersMeet
  BY DEF DInv, Lives
<1>1. UNCHANGED <<apc, adev, live, device_list, name, removing, queuedata, chrs, upc, udev>>
  BY DEF Work, AddDisk, ScanEnds, AddDiskFinished, StrayWork, Fail
<1>2. /\ disks' = disks \/ (work[d] = "queued" /\ queuedata[d] /\ d \in live /\ disks' = disks \cup {d})
      /\ \A e \in Devices \ {d} : work'[e] = work[e]
      /\ work'[d] # work[d] => work[d] # "none"
      /\ work'[d] = "scanning" => d \in disks'
  <2>1. CASE AddDisk(d)
    BY <1>0, <2>1 DEF AddDisk, Types
  <2>2. CASE ScanEnds(d) \/ AddDiskFinished(d)
    BY <1>0, <2>2 DEF ScanEnds, AddDiskFinished, Types
  <2>3. CASE StrayWork(d)
    BY <1>0, <2>3 DEF StrayWork, Fail, Types
  <2> QED BY <2>1, <2>2, <2>3 DEF Work
<1>3. Listed' = Listed /\ Listed \subseteq Devices
  BY <1>0, <1>1 DEF Listed, Range, Types
<1>4. Creation'
  BY <1>0, <1>1, <1>2, <1>3 DEF Creation, Structures, Types
<1>5. Dismantling'
  BY <1>0, <1>1, <1>2, <1>3 DEF Dismantling, Removal
<1>6. Structures'
  BY <1>0, <1>1, <1>2, <1>3 DEF Structures
<1> QED BY <1>0, <1>1, <1>4, <1>5, <1>6 DEF Lives, OpenersMeet

LEMMA LivesKept ==
  ASSUME DInv, [Next]_vars
  PROVE  Lives'
<1> USE DEF module, control, fields, devs, users
<1>1. ASSUME UNCHANGED <<control, devs, users>> PROVE Lives'
  BY <1>1 DEF DInv, Lives, Creation, Dismantling, Structures, OpenersMeet, Listed, Range
<1>2. CASE UNCHANGED vars
  BY <1>1, <1>2 DEF vars
<1>3. CASE Load
  BY <1>3 DEF Load, DInv, Lives, Creation, Dismantling, Structures, OpenersMeet, Listed, Range
<1>4. CASE Unload
  BY <1>1, <1>4 DEF Unload
<1> QED BY <1>2, <1>3, <1>4, AdminLives, UserLives, WorkLives DEF Next
-----------------------------------------------------------------------------
(* What the devices promise. *)

\* A name is given to one device at a time.
LEMMA NamesKept ==
  ASSUME DInv, [Next]_vars
  PROVE  NamesUnique'
<1> USE DEF module, control, fields, devs, users
<1>0. Types /\ Creation /\ Dismantling /\ Structures /\ NamesUnique
  BY DEF DInv, Lives, Promises
<1>1. ASSUME UNCHANGED <<name, device_list>> PROVE NamesUnique'
  BY <1>0, <1>1 DEF NamesUnique, Listed, Range
<1>2. ASSUME NEW a \in Admins, NEW n \in Names, Create(a, n) PROVE NamesUnique'
  <2>1. PICK d \in Devices \ live : name' = [name EXCEPT ![d] = n]
    BY <1>2 DEF Create
  <2>2. Listed' = Listed /\ \A e \in Listed : name'[e] = name[e]
    BY <1>0, <1>2, <2>1 DEF Create, Listed, Range, Structures, Types
  <2> QED BY <1>0, <2>2 DEF NamesUnique
<1>3. ASSUME NEW a \in Admins, CreateDisk(a) PROVE NamesUnique'
  <2>1. adev[a] \in Devices /\ \A e \in Listed : name[e] # name[adev[a]]
    BY <1>0, <1>3 DEF CreateDisk, Creation, Structures, Types
  <2>2. Listed' = Listed \cup {adev[a]} /\ name' = name
    BY <1>0, <1>3, <2>1, RangeAppend DEF CreateDisk, Listed, Types
  <2> QED BY <1>0, <2>1, <2>2 DEF NamesUnique
<1>4. ASSUME NEW a \in Admins, RemoveFree(a) PROVE NamesUnique'
  <2>1. Listed' = Listed \ {adev[a]} /\ name' = name
    BY <1>0, <1>4, RemoveFirstProperties DEF RemoveFree, Listed, Structures, Types
  <2> QED BY <1>0, <2>1 DEF NamesUnique
<1>5. CASE UNCHANGED vars
  BY <1>1, <1>5 DEF vars
<1>6. CASE Load \/ Unload
  BY <1>1, <1>6 DEF Load, Unload
<1>7. ASSUME NEW a \in Admins, Admin(a) PROVE NamesUnique'
  <2>1. CASE CtrlOpen(a) \/ CtrlBusy(a) \/ CtrlRelease(a) \/ List(a) \/ CtrlRead(a)
    BY <1>1, <2>1 DEF CtrlOpen, CtrlBusy, CtrlRelease, List, CtrlRead
  <2>2. ASSUME NEW n \in Names, Info(a, n) \/ RemoveMark(a, n) PROVE NamesUnique'
    BY <1>1, <2>2 DEF Info, RemoveMark
  <2>3. CASE CreateFails(a) \/ CreateFailsHeld(a) \/ NoWork(a)
    BY <1>1, <2>3 DEF CreateFails, CreateFailsHeld, NoWork, Fail
  <2>4. CASE RemoveChr(a) \/ RemoveQueue(a) \/ RemoveDisk(a)
    BY <1>1, <2>4 DEF RemoveChr, RemoveQueue, RemoveDisk
  <2> QED BY <1>2, <1>3, <1>4, <1>7, <2>1, <2>2, <2>3, <2>4 DEF Admin
<1>8. ASSUME NEW u \in Users, User(u) PROVE UNCHANGED <<name, device_list>>
  BY <1>8 DEF User, OpenChr, OpenDisk, OpenEnd, OpenStale, Close, Fail
<1>9. ASSUME NEW d \in Devices, Work(d) PROVE UNCHANGED <<name, device_list>>
  BY <1>9 DEF Work, AddDisk, ScanEnds, AddDiskFinished, StrayWork, Fail
<1> QED BY <1>1, <1>5, <1>6, <1>7, <1>8, <1>9 DEF Next

\* An answer stays true until its reader has it, who alone could change that; what
\* others left unread before is gone with the first answer.
LEMMA ReplyKept ==
  ASSUME DInv, [Next]_vars
  PROVE  Asking' /\ ReplyCurrent'
<1> USE DEF module, control, fields, devs, users
<1>0. Types /\ Asking /\ ReplyCurrent
  BY DEF DInv, Promises
<1>1. ASSUME UNCHANGED <<response, asked, apc, name, device_list>>
      PROVE  Asking' /\ ReplyCurrent'
  BY <1>0, <1>1 DEF Asking, ReplyCurrent, ListedNames, Listed, Range
<1>2. ASSUME NEW a \in Admins, apc[a] = "open", NEW c, Asks(a, c)
      PROVE  asked'[a] = c /\ \A b \in Admins \ {a} : asked'[b] \notin {"list", "info"}
  <2>1. \A b \in Admins \ {a} : apc[b] # "open"
    BY <1>2, Command
  <2> QED BY <1>0, <1>2, <2>1 DEF Asking, Asks, Types
<1>3. ASSUME NEW a \in Admins, apc[a] = "open", NEW c, Asks(a, c), c \notin {"list", "info"}
      PROVE  Asking' /\ ReplyCurrent'
  BY <1>2, <1>3 DEF Asking, ReplyCurrent
<1>4. ASSUME NEW a \in Admins, apc[a] \notin {"closed", "busy", "open"}, asked' = asked
      PROVE  Asking' /\ ReplyCurrent'
  <2>1. \A b \in Admins : apc[b] # "open"
    BY <1>4, Command
  <2>2. \A b \in Admins : asked'[b] \notin {"list", "info"}
    BY <1>0, <1>4, <2>1 DEF Asking
  <2> QED BY <2>2 DEF Asking, ReplyCurrent
<1>5. CASE UNCHANGED vars
  BY <1>1, <1>5 DEF vars
<1>6. CASE Load
  <2>1. \A b \in Admins : apc[b] = "closed" /\ asked'[b] = asked[b]
    BY <1>6 DEF Load, DInv, Counters, UnloadedIsIdle, Active
  <2> QED BY <1>0, <2>1 DEF Asking, ReplyCurrent
<1>7. CASE Unload
  BY <1>1, <1>7 DEF Unload
<1>8. ASSUME NEW a \in Admins, Admin(a) PROVE Asking' /\ ReplyCurrent'
  <2>1. CASE CtrlOpen(a) \/ CtrlBusy(a)
    <3>1. PICK p : Goes(a, p, NULL)
      BY <2>1 DEF CtrlOpen, CtrlBusy
    <3>2. apc[a] # "open" /\ UNCHANGED <<response, asked, name, device_list>>
      BY <2>1 DEF CtrlOpen, CtrlBusy
    <3>3. \A b \in Admins \ {a} : apc'[b] = apc[b]
      BY <1>0, <3>1 DEF Goes, Types
    <3>4. Asking'
      BY <1>0, <3>2, <3>3 DEF Asking
    <3> QED BY <1>0, <3>2, <3>4 DEF ReplyCurrent, ListedNames, Listed, Range
  <2>2. CASE CtrlRelease(a) \/ CtrlRead(a)
    BY <1>3, <2>2 DEF CtrlRelease, CtrlRead
  <2>3. CASE List(a)
    <3>1. apc'[a] = "open" /\ response' = ListedNames' /\ apc[a] = "open" /\ Asks(a, "list")
      BY <2>3 DEF List, ListedNames
    <3> QED BY <1>2, <3>1 DEF Asking, ReplyCurrent
  <2>4. ASSUME NEW n \in Names, Info(a, n) PROVE Asking' /\ ReplyCurrent'
    <3>1. apc'[a] = "open" /\ response' = <<n>> /\ apc[a] = "open" /\ Asks(a, "info")
      BY <2>4 DEF Info
    <3>2. \E d \in Listed' : name'[d] = n
      BY <2>4 DEF Info, Found, Listed, Range
    <3> QED BY <1>2, <3>1, <3>2 DEF Asking, ReplyCurrent
  <2>5. ASSUME NEW n \in Names, Create(a, n) \/ RemoveMark(a, n)
        PROVE  Asking' /\ ReplyCurrent'
    BY <1>3, <2>5 DEF Create, RemoveMark
  <2>6. CASE CreateDisk(a) \/ CreateFails(a)
    BY <1>4, <2>6 DEF CreateDisk, CreateFails
  <2>7. CASE CreateFailsHeld(a) \/ NoWork(a)
    BY <1>1, <2>7 DEF CreateFailsHeld, NoWork, Fail
  <2>8. CASE RemoveChr(a) \/ RemoveQueue(a) \/ RemoveDisk(a) \/ RemoveFree(a)
    BY <1>4, <2>8 DEF RemoveChr, RemoveQueue, RemoveDisk, RemoveFree
  <2> QED BY <1>8, <2>1, <2>2, <2>3, <2>4, <2>5, <2>6, <2>7, <2>8 DEF Admin
<1>9. ASSUME NEW u \in Users, User(u)
      PROVE  UNCHANGED <<response, asked, apc, name, device_list>>
  BY <1>9 DEF User, OpenChr, OpenDisk, OpenEnd, OpenStale, Close, Fail
<1>10. ASSUME NEW d \in Devices, Work(d)
       PROVE  UNCHANGED <<response, asked, apc, name, device_list>>
  BY <1>10 DEF Work, AddDisk, ScanEnds, AddDiskFinished, StrayWork, Fail
<1> QED BY <1>1, <1>5, <1>6, <1>7, <1>8, <1>9, <1>10 DEF Next

\* Every open end is counted, and a device that is counted on is kept.
LEMMA UseKept ==
  ASSUME DInv, [Next]_vars
  PROVE  InUseKept'
<1> USE DEF module, control, fields, devs, users
<1> DEFINE Scans(e) == IF work[e] = "scanning" THEN 1 ELSE 0
<1>0. Types /\ Creation /\ Dismantling /\ Structures /\ OpenersMeet /\ InUseKept
  BY DEF DInv, Lives, Promises
<1>00. \A e : IsFiniteSet(Holders(e)) /\ Cardinality(Holders(e)) \in Nat
  BY Countable
<1>000. \A e \in Devices :
          /\ e \in live => ucnt[e] = Cardinality(Holders(e)) + Scans(e)
          /\ Cardinality(Holders(e)) + Scans(e) > 0 => e \in live /\ ~removing[e]
  BY <1>0 DEF InUseKept
<1>1. ASSUME UNCHANGED <<live, removing, ucnt, work, upc, udev>> PROVE InUseKept'
  BY <1>0, <1>1 DEF InUseKept, Holders
<1>2. CASE UNCHANGED vars
  BY <1>1, <1>2 DEF vars
<1>3. CASE Load \/ Unload
  BY <1>1, <1>3 DEF Load, Unload
<1>4. ASSUME NEW a \in Admins, Admin(a) PROVE InUseKept'
  <2>1. CASE CtrlOpen(a) \/ CtrlBusy(a) \/ CtrlRelease(a) \/ List(a) \/ CtrlRead(a)
    BY <1>1, <2>1 DEF CtrlOpen, CtrlBusy, CtrlRelease, List, CtrlRead
  <2>2. ASSUME NEW n \in Names, Info(a, n) PROVE InUseKept'
    BY <1>1, <2>2 DEF Info
  <2>3. CASE CreateFailsHeld(a) \/ NoWork(a)
    BY <1>1, <2>3 DEF CreateFailsHeld, NoWork, Fail
  <2>4. CASE RemoveChr(a) \/ RemoveQueue(a) \/ RemoveDisk(a)
    BY <1>1, <2>4 DEF RemoveChr, RemoveQueue, RemoveDisk
  <2>5. ASSUME NEW n \in Names, Create(a, n) PROVE InUseKept'
    <3>1. PICK d \in Devices \ live :
            /\ live' = live \cup {d}
            /\ removing' = [removing EXCEPT ![d] = FALSE]
            /\ ucnt' = [ucnt EXCEPT ![d] = 0]
      BY <2>5 DEF Create
    <3>2. /\ work' = work /\ \A e : Holders(e)' = Holders(e)
          /\ ucnt'[d] = 0 /\ ~removing'[d]
          /\ \A e \in Devices \ {d} : ucnt'[e] = ucnt[e] /\ removing'[e] = removing[e]
      BY <1>0, <2>5, <3>1 DEF Create, Holders, Types
    <3>3. Cardinality(Holders(d)) + Scans(d) = 0
      BY <1>00, <1>000, <3>1
    <3> QED BY <1>000, <3>1, <3>2, <3>3 DEF InUseKept
  <2>6. CASE CreateDisk(a)
    <3>1. \A e \in Devices : work'[e] = "scanning" <=> work[e] = "scanning"
      BY <1>0, <2>6 DEF CreateDisk, Creation, Types
    <3>2. UNCHANGED <<live, removing, ucnt>> /\ \A e : Holders(e)' = Holders(e)
      BY <2>6 DEF CreateDisk, Holders
    <3> QED BY <1>0, <3>1, <3>2 DEF InUseKept
  <2>7. ASSUME NEW d \in Devices, FreeDevice(d), UNCHANGED <<fields, work>>,
               Cardinality(Holders(d)) + Scans(d) = 0
        PROVE  InUseKept'
    <3>1. \A e : Holders(e)' = Holders(e)
      BY <1>0, <2>7 DEF FreeDevice, Holders, Types
    <3> QED BY <1>0, <2>7, <3>1 DEF FreeDevice, InUseKept
  <2>8. CASE CreateFails(a)
    <3>1. adev[a] \in Devices /\ work[adev[a]] = "none" /\ Holders(adev[a]) = {}
      BY <1>0, <2>8 DEF CreateFails, Creation, Structures, Types
    <3>2. Cardinality(Holders(adev[a])) + Scans(adev[a]) = 0
      BY <3>1, FS_EmptySet
    <3> QED BY <2>7, <2>8, <3>1, <3>2 DEF CreateFails
  <2>9. CASE RemoveFree(a)
    <3>1. adev[a] \in Devices /\ removing[adev[a]]
      BY <1>0, <2>9 DEF RemoveFree, Dismantling, Removal, Listed, Range, Types
    <3>2. Cardinality(Holders(adev[a])) + Scans(adev[a]) = 0
      BY <1>00, <1>000, <3>1
    <3> QED BY <2>7, <2>9, <3>1, <3>2 DEF RemoveFree
  <2>10. ASSUME NEW n \in Names, RemoveMark(a, n) PROVE InUseKept'
    <3>1. PICK d \in Found(n) : ucnt[d] = 0 /\ removing' = [removing EXCEPT ![d] = TRUE]
      BY <2>10 DEF RemoveMark
    <3>2. d \in live /\ d \in Devices
      BY <1>0 DEF Found, Structures, Types
    <3>3. /\ UNCHANGED <<live, ucnt, work>> /\ \A e : Holders(e)' = Holders(e)
          /\ \A e \in Devices \ {d} : removing'[e] = removing[e]
      BY <1>0, <2>10, <3>1 DEF RemoveMark, Holders, Types
    <3>4. Cardinality(Holders(d)) + Scans(d) = 0
      BY <1>000, <3>1, <3>2
    <3> QED BY <1>000, <3>3, <3>4 DEF InUseKept
  <2> QED BY <1>4, <2>1, <2>2, <2>3, <2>4, <2>5, <2>6, <2>8, <2>9, <2>10 DEF Admin
<1>5. ASSUME NEW u \in Users, User(u) PROVE InUseKept'
  <2>0. UNCHANGED <<live, removing, work>>
    BY <1>5 DEF User, OpenChr, OpenDisk, OpenEnd, OpenStale, Close, Fail
  <2>1. ASSUME upc[u] # "in", NEW p \in {"opening", "out"}, NEW d, Moves(u, p, d), ucnt' = ucnt
        PROVE  InUseKept'
    <3>1. \A e : Holders(e)' = Holders(e)
      BY <1>0, <2>1 DEF Moves, Holders, Types
    <3> QED BY <1>0, <2>0, <2>1, <3>1 DEF InUseKept
  <2>2. ASSUME NEW d \in Devices, OpenChr(u, d) \/ OpenDisk(u, d) PROVE InUseKept'
    <3>1. PICK e : Moves(u, "opening", e)
      BY <2>2 DEF OpenChr, OpenDisk
    <3> QED BY <2>1, <2>2, <3>1 DEF OpenChr, OpenDisk
  <2>3. CASE OpenEnd(u)
    <3>1. CASE Moves(u, "out", NULL) /\ ucnt' = ucnt
      BY <2>1, <2>3, <3>1 DEF OpenEnd
    <3>2. CASE /\ Moves(u, "in", udev[u]) /\ ucnt' = [ucnt EXCEPT ![udev[u]] = @ + 1]
               /\ ~removing[udev[u]]
      <4>1. PICK d : d = udev[u]
        OBVIOUS
      <4>2. d \in live /\ d \in Devices /\ u \notin Holders(d)
        BY <1>0, <2>3, <4>1 DEF OpenEnd, Holders, Types
      <4>3. Holders(d)' = Holders(d) \cup {u}
        BY <1>0, <3>2, <4>1 DEF Moves, Holders, Types
      <4>4. \A e \in Devices \ {d} : Holders(e)' = Holders(e)
        BY <1>0, <2>3, <3>2, <4>1 DEF OpenEnd, Moves, Holders, Types
      <4>5. Cardinality(Holders(d)') = Cardinality(Holders(d)) + 1
        BY <1>00, <4>2, <4>3, FS_AddElement
      <4>6. ucnt'[d] = ucnt[d] + 1 /\ \A e \in Devices \ {d} : ucnt'[e] = ucnt[e]
        BY <1>0, <3>2, <4>1, <4>2 DEF Types
      <4>7. ucnt'[d] = Cardinality(Holders(d)') + Scans(d)
        BY <1>00, <1>000, <4>2, <4>5, <4>6
      <4> QED BY <1>000, <2>0, <3>2, <4>1, <4>2, <4>4, <4>6, <4>7 DEF InUseKept
    <3> QED BY <2>3, <3>1, <3>2 DEF OpenEnd
  <2>4. CASE OpenStale(u)
    BY <1>1, <2>4 DEF OpenStale, Fail
  <2>5. CASE Close(u)
    <3>1. PICK d : d = udev[u]
      OBVIOUS
    <3>2. d \in Devices /\ u \in Holders(d)
      BY <1>0, <2>5, <3>1 DEF Close, OpenersMeet, Holders
    <3>3. Holders(d)' = Holders(d) \ {u} /\ \A e \in Devices \ {d} : Holders(e)' = Holders(e)
      BY <1>0, <2>5, <3>1 DEF Close, Moves, Holders, Types
    <3>4. /\ Cardinality(Holders(d)') = Cardinality(Holders(d)) - 1
          /\ Cardinality(Holders(d)') \in Nat
      BY <1>00, <3>2, <3>3, FS_RemoveElement, FS_CardinalityType
    <3>5. d \in live /\ ~removing[d]
      BY <1>00, <1>000, <3>2, <3>4
    <3>6. ucnt'[d] = ucnt[d] - 1 /\ \A e \in Devices \ {d} : ucnt'[e] = ucnt[e]
      BY <1>0, <2>5, <3>1, <3>2 DEF Close, Types
    <3>7. ucnt'[d] = Cardinality(Holders(d)') + Scans(d)
      BY <1>00, <1>000, <3>2, <3>4, <3>5, <3>6
    <3> QED BY <1>000, <2>0, <3>2, <3>3, <3>5, <3>6, <3>7 DEF InUseKept
  <2> QED BY <1>5, <2>2, <2>3, <2>4, <2>5 DEF User
<1>6. ASSUME NEW d \in Devices, Work(d) PROVE InUseKept'
  <2>0. UNCHANGED <<live, removing>> /\ \A e : Holders(e)' = Holders(e)
    BY <1>6 DEF Work, AddDisk, ScanEnds, AddDiskFinished, StrayWork, Fail, Holders
  <2>1. CASE AddDisk(d) /\ removing[d]
    <3>1. ucnt' = ucnt /\ \A e \in Devices : work'[e] = "scanning" <=> work[e] = "scanning"
      BY <1>0, <2>1 DEF AddDisk, Types
    <3> QED BY <1>0, <2>0, <3>1 DEF InUseKept
  <2>2. CASE AddDisk(d) /\ ~removing[d]
    <3>1. /\ d \in live /\ work[d] = "queued" /\ work'[d] = "scanning"
          /\ ucnt'[d] = ucnt[d] + 1
          /\ \A e \in Devices \ {d} : ucnt'[e] = ucnt[e] /\ work'[e] = work[e]
      BY <1>0, <2>2 DEF AddDisk, Types
    <3>2. ucnt'[d] = Cardinality(Holders(d)) + 1
      BY <1>00, <1>000, <3>1
    <3> QED BY <1>000, <2>0, <2>2, <3>1, <3>2 DEF InUseKept
  <2>3. CASE ScanEnds(d)
    <3>1. /\ work[d] = "scanning" /\ work'[d] = "added" /\ ucnt'[d] = ucnt[d] - 1
          /\ \A e \in Devices \ {d} : ucnt'[e] = ucnt[e] /\ work'[e] = work[e]
      BY <1>0, <2>3 DEF ScanEnds, Types
    <3>2. d \in live /\ ~removing[d] /\ ucnt'[d] = Cardinality(Holders(d))
      BY <1>00, <1>000, <3>1
    <3>3. \A e \in Devices \ {d} : /\ ucnt'[e] = ucnt[e] /\ work'[e] = work[e]
                                  /\ Cardinality(Holders(e)') = Cardinality(Holders(e))
      BY <2>0, <3>1
    <3>4. work'[d] # "scanning" /\ ucnt'[d] = Cardinality(Holders(d)') + 0
      BY <1>00, <2>0, <3>1, <3>2
    <3> QED BY <1>000, <2>0, <3>2, <3>3, <3>4 DEF InUseKept
  <2>4. CASE StrayWork(d)
    BY <1>1, <2>4 DEF StrayWork, Fail
  <2>5. CASE AddDiskFinished(d)
    <3>1. ucnt' = ucnt /\ \A e \in Devices : work'[e] = "scanning" <=> work[e] = "scanning"
      BY <1>0, <2>5 DEF AddDiskFinished, Types
    <3> QED BY <1>0, <2>0, <3>1 DEF InUseKept
  <2> QED BY <1>6, <2>1, <2>2, <2>3, <2>4, <2>5 DEF Work
<1> QED BY <1>2, <1>3, <1>4, <1>5, <1>6 DEF Next
-----------------------------------------------------------------------------
(* The theorems. *)

LEMMA InitDevices == Init => DInv
<1> SUFFICES ASSUME Init PROVE DInv
  OBVIOUS
<1> USE DEF Init
<1>1. Types
  <2>1. name \in [Devices -> Names]
    OBVIOUS
  <2>2. /\ removing \in [Devices -> BOOLEAN] /\ queuedata \in [Devices -> BOOLEAN]
        /\ loaded \in BOOLEAN
    OBVIOUS
  <2>3. ctrl_lock \in Int /\ refs \in Int /\ ucnt \in [Devices -> Int]
    OBVIOUS
  <2>4. response \in Seq(Names) /\ device_list \in Seq(Devices)
    OBVIOUS
  <2>5. /\ apc \in [Admins -> {"closed", "busy", "open", "create"} \cup Removal]
        /\ adev \in [Admins -> Devices \cup {NULL}]
        /\ asked \in [Admins -> {"none", "change", "list", "info"}]
        /\ work \in [Devices -> {"none", "queued", "scanning", "added"}]
        /\ upc \in [Users -> {"out", "opening", "in"}]
        /\ udev \in [Users -> Devices \cup {NULL}]
    OBVIOUS
  <2> QED BY <2>1, <2>2, <2>3, <2>4, <2>5 DEF Types
<1>2. Listed = {} /\ IsInjective(device_list)
  BY DEF Listed, Range, IsInjective
<1>3. Active = {} /\ Working = {} /\ Referring = {} /\ Inside = {} /\ \A d : Holders(d) = {}
  BY <1>2 DEF Active, Working, Referring, Inside, Holders
<1>4. IsFiniteSet({}) /\ Cardinality({}) = 0
  BY FS_EmptySet
<1>5. Counters
  <2>1. ControlExclusive
    <3>1. Cardinality(Active) = 0 /\ Cardinality(Working) = 0 /\ ctrl_lock = 1
      BY <1>3, <1>4
    <3> QED BY <3>1 DEF ControlExclusive, Working
  <2>2. RefsCount
    BY <1>2, <1>3, <1>4 DEF RefsCount
  <2>3. UnloadedIsIdle
    BY <1>3 DEF UnloadedIsIdle
  <2> QED BY <2>1, <2>2, <2>3 DEF Counters
<1>6. Lives
  BY <1>2 DEF Lives, Creation, Dismantling, Structures, OpenersMeet, Removal
<1>7. NamesUnique /\ Asking /\ ReplyCurrent
  BY <1>2 DEF NamesUnique, Asking, ReplyCurrent
<1>8. InUseKept
  <2>1. \A d \in Devices : work[d] # "scanning" /\ ucnt[d] = 0 /\ d \notin live
    OBVIOUS
  <2>2. \A d : Cardinality(Holders(d)) = 0
    BY <1>3, <1>4
  <2> QED BY <2>1, <2>2 DEF InUseKept
<1> QED BY <1>1, <1>5, <1>6, <1>7, <1>8 DEF DInv, Promises

\* The inductive invariant of the devices' lives.
THEOREM DeviceInvariant == Spec => []DInv
<1>1. ASSUME DInv, [Next]_vars PROVE DInv'
  BY <1>1, TypesKept, CountersKept, LivesKept, NamesKept, ReplyKept, UseKept
  DEF DInv, Promises
<1> QED BY <1>1, InitDevices, PTL DEF Spec

\* The variables keep their types; the module's reference count is never negative.
THEOREM DevicesTyped == Spec => []DTypeOK
<1>1. ASSUME DInv PROVE DTypeOK
  <2>1. /\ Cardinality(Active) \in Nat /\ Cardinality(Referring) \in Nat
        /\ Cardinality(Inside) \in Nat
    BY <1>1, Countable
  <2>2. refs \in Nat
    BY <1>1, <2>1 DEF DInv, Counters, RefsCount
  <2> QED BY <1>1, <2>2 DEF DInv, Types, DTypeOK
<1> QED BY <1>1, DeviceInvariant, PTL

\* The control device has one user at a time, and its lock is free again when the last
\* one is gone, however attempts to open it overlap (bdtunc_open(), bdtunc_release()).
THEOREM OneAdministrator == Spec => []ControlExclusive
BY DeviceInvariant, PTL DEF DInv, Counters

\* Whoever reads after a list or info command gets the answer to that command, still
\* true of the devices, whatever commands and dead administrators left unread before.
THEOREM AnswersCurrent == Spec => []ReplyCurrent
BY DeviceInvariant, PTL DEF DInv, Promises

\* No two listed devices share a name, though the list has no lock of its own.
THEOREM NamesDistinct == Spec => []NamesUnique
BY DeviceInvariant, PTL DEF DInv, Promises

\* The use count is the number of open ends, and what is in use is not taken apart.
THEOREM UsedDevicesStay == Spec => []InUseKept
BY DeviceInvariant, PTL DEF DInv, Promises

\* The module is unloaded only when no device, no open end and no administrator is
\* left, so bdtun_exit() has nothing to free.
THEOREM UnloadsIdle == Spec => []UnloadedIsIdle
BY DeviceInvariant, PTL DEF DInv, Counters
-----------------------------------------------------------------------------
(* Programs see devices that come and go at one moment each. *)

NameOf(d) == IF d \in live /\ ~removing[d] THEN name[d] ELSE NULL

\* What a step that leaves names and openers alone is to the registry.
LEMMA SeenTheSame ==
  ASSUME \A d \in Devices : NameOf(d)' = NameOf(d) /\ OpenersOf(d)' = OpenersOf(d)
  PROVE  UNCHANGED Registry!registry
BY DEF NameOf, Registry!registry

\* A device whose use count is zero has no opener.
LEMMA UnusedIsFree ==
  ASSUME DInv, NEW d \in Devices, d \in live, ucnt[d] = 0
  PROVE  OpenersOf(d) = {}
<1>1. Cardinality(Holders(d)) \in Nat /\ IsFiniteSet(Holders(d))
  BY Countable
<1>2. ucnt[d] = Cardinality(Holders(d)) + (IF work[d] = "scanning" THEN 1 ELSE 0)
  BY DEF DInv, Promises, InUseKept
<1>3. Cardinality(Holders(d)) = 0 /\ work[d] # "scanning"
  BY <1>1, <1>2
<1>4. Holders(d) = {}
  BY <1>1, <1>3, FS_EmptySet
<1> QED BY <1>3, <1>4 DEF OpenersOf

LEMMA AdminSeen ==
  ASSUME DInv, NEW a \in Admins, Admin(a)
  PROVE  Registry!Next \/ UNCHANGED Registry!registry
<1> USE DEF module, control, fields, devs, users
<1>0. /\ Types /\ Creation /\ Dismantling /\ Structures /\ InUseKept
      /\ NULL \notin Devices \cup Names
  BY DeviceAssumption DEF DInv, Lives, Promises
<1>1. ASSUME UNCHANGED <<live, removing, name, upc, udev, work>>
      PROVE  UNCHANGED Registry!registry
  BY <1>1, SeenTheSame DEF NameOf, OpenersOf, Holders
<1>2. CASE CtrlOpen(a) \/ CtrlBusy(a) \/ CtrlRelease(a) \/ List(a) \/ CtrlRead(a)
  BY <1>1, <1>2 DEF CtrlOpen, CtrlBusy, CtrlRelease, List, CtrlRead
<1>3. CASE CreateFailsHeld(a) \/ NoWork(a) \/ RemoveChr(a) \/ RemoveQueue(a) \/ RemoveDisk(a)
  BY <1>1, <1>3 DEF CreateFailsHeld, NoWork, Fail, RemoveChr, RemoveQueue, RemoveDisk
<1>4. ASSUME NEW n \in Names, Info(a, n) PROVE UNCHANGED Registry!registry
  BY <1>1, <1>4 DEF Info
<1>5. ASSUME NEW n \in Names, Create(a, n) PROVE Registry!Next
  <2>1. PICK d \in Devices \ live :
          /\ live' = live \cup {d}
          /\ name' = [name EXCEPT ![d] = n]
          /\ removing' = [removing EXCEPT ![d] = FALSE]
          /\ Goes(a, "create", d)
    BY <1>5 DEF Create
  <2>2. apc[a] = "open" /\ Found(n) = {} /\ UNCHANGED <<upc, udev, work>>
    BY <1>5 DEF Create
  <2>3. NameOf(d) = NULL /\ NameOf(d)' = n /\ \A e \in Devices \ {d} : NameOf(e)' = NameOf(e)
    BY <1>0, <2>1 DEF NameOf, Types
  <2>4. \A e \in Devices : NameOf(e) # n
    <3>1. \A e \in live : e \in Listed
      BY <2>1, <2>2, OnlyMine
    <3> QED BY <1>0, <2>2, <3>1 DEF NameOf, Found
  <2>5. \A e \in Devices : OpenersOf(e)' = OpenersOf(e)
    BY <2>2 DEF OpenersOf, Holders
  <2>6. Registry!Create(d, n)
    BY <2>1, <2>3, <2>4, <2>5 DEF Registry!Create, Registry!There, NameOf
  <2> QED BY <2>1, <2>6 DEF Registry!Next
<1>6. CASE CreateDisk(a)
  <2>1. \A e \in Devices : work'[e] = "scanning" <=> work[e] = "scanning"
    BY <1>0, <1>6 DEF CreateDisk, Creation, Types
  <2>2. UNCHANGED <<live, removing, name, upc, udev>>
    BY <1>6 DEF CreateDisk
  <2> QED BY <2>1, <2>2, SeenTheSame DEF NameOf, OpenersOf, Holders
<1>7. ASSUME NEW d \in Devices, FreeDevice(d), UNCHANGED <<fields, work>>
      PROVE  /\ \A e \in Devices : OpenersOf(e)' = OpenersOf(e)
             /\ NameOf(d)' = NULL /\ \A e \in Devices \ {d} : NameOf(e)' = NameOf(e)
  BY <1>0, <1>7 DEF FreeDevice, NameOf, OpenersOf, Holders, Types
<1>8. ASSUME NEW d \in Devices, NameOf(d) # NULL, OpenersOf(d) = {},
             NameOf(d)' = NULL, \A e \in Devices \ {d} : NameOf(e)' = NameOf(e),
             \A e \in Devices : OpenersOf(e)' = OpenersOf(e)
      PROVE  Registry!Next
  <2>1. Registry!Remove(d)
    BY <1>8 DEF Registry!Remove, Registry!There, NameOf
  <2> QED BY <2>1 DEF Registry!Next
<1>9. CASE CreateFails(a)
  <2>1. /\ adev[a] \in Devices /\ adev[a] \in live /\ ~removing[adev[a]]
        /\ work[adev[a]] = "none" /\ Holders(adev[a]) = {}
    BY <1>0, <1>9 DEF CreateFails, Creation, Types
  <2>2. OpenersOf(adev[a]) = {} /\ NameOf(adev[a]) # NULL
    BY <1>0, <2>1 DEF OpenersOf, NameOf, Types
  <2>3. FreeDevice(adev[a]) /\ UNCHANGED <<fields, work>>
    BY <1>9 DEF CreateFails
  <2> QED BY <1>7, <1>8, <2>1, <2>2, <2>3
<1>10. ASSUME NEW n \in Names, RemoveMark(a, n) PROVE Registry!Next
  <2>1. PICK d \in Found(n) : /\ ~removing[d] /\ ucnt[d] = 0
                              /\ removing' = [removing EXCEPT ![d] = TRUE]
    BY <1>10 DEF RemoveMark
  <2>2. d \in live /\ d \in Devices /\ UNCHANGED <<live, name, upc, udev, work>>
    BY <1>0, <1>10 DEF RemoveMark, Found, Structures, Types
  <2>3. OpenersOf(d) = {} /\ NameOf(d) # NULL
    BY <1>0, <2>1, <2>2, UnusedIsFree DEF NameOf, Types
  <2>4. NameOf(d)' = NULL /\ \A e \in Devices \ {d} : NameOf(e)' = NameOf(e)
    BY <1>0, <2>1, <2>2 DEF NameOf, Types
  <2>5. \A e \in Devices : OpenersOf(e)' = OpenersOf(e)
    BY <2>2 DEF OpenersOf, Holders
  <2> QED BY <1>8, <2>2, <2>3, <2>4, <2>5
<1>11. CASE RemoveFree(a)
  <2>1. adev[a] \in Devices /\ removing[adev[a]]
    BY <1>0, <1>11 DEF RemoveFree, Dismantling, Removal, Structures, Types
  <2>2. FreeDevice(adev[a]) /\ UNCHANGED <<fields, work>>
    BY <1>11 DEF RemoveFree
  <2>3. NameOf(adev[a]) = NULL
    BY <2>1 DEF NameOf
  <2> QED BY <1>7, <2>1, <2>2, <2>3, SeenTheSame
<1> QED BY <1>2, <1>3, <1>4, <1>5, <1>6, <1>9, <1>10, <1>11 DEF Admin

LEMMA OthersSeen ==
  ASSUME DInv, \/ \E u \in Users : User(u)
               \/ \E d \in Devices : Work(d)
  PROVE  Registry!Next \/ UNCHANGED Registry!registry
<1> USE DEF module, control, fields, devs, users
<1>0. /\ Types /\ Structures /\ OpenersMeet /\ NULL \notin Devices \cup Names
      /\ "scan" \notin Users
  BY DeviceAssumption DEF DInv, Lives
<1>1. UNCHANGED <<live, removing, name>> /\ \A e \in Devices : NameOf(e)' = NameOf(e)
  <2>1. ASSUME NEW u \in Users, User(u) PROVE UNCHANGED <<live, removing, name>>
    BY <2>1 DEF User, OpenChr, OpenDisk, OpenEnd, OpenStale, Close, Fail
  <2>2. ASSUME NEW d \in Devices, Work(d) PROVE UNCHANGED <<live, removing, name>>
    BY <2>2 DEF Work, AddDisk, ScanEnds, AddDiskFinished, StrayWork, Fail
  <2>3. UNCHANGED <<live, removing, name>>
    BY <2>1, <2>2
  <2> QED BY <2>3 DEF NameOf
<1>2. ASSUME NEW d \in Devices, NameOf(d) # NULL, NEW o \in Users \cup {"scan"},
             o \notin OpenersOf(d), OpenersOf(d)' = OpenersOf(d) \cup {o},
             \A e \in Devices \ {d} : OpenersOf(e)' = OpenersOf(e)
      PROVE  Registry!Next
  <2>1. Registry!Open(d, o)
    BY <1>1, <1>2 DEF Registry!Open, Registry!There, NameOf
  <2> QED BY <2>1 DEF Registry!Next
<1>3. ASSUME NEW d \in Devices, NEW o \in Users \cup {"scan"},
             o \in OpenersOf(d), OpenersOf(d)' = OpenersOf(d) \ {o},
             \A e \in Devices \ {d} : OpenersOf(e)' = OpenersOf(e)
      PROVE  Registry!Next
  <2>1. Registry!Close(d, o)
    BY <1>1, <1>3 DEF Registry!Close, NameOf
  <2> QED BY <2>1 DEF Registry!Next
<1>4. ASSUME NEW u \in Users, User(u) PROVE Registry!Next \/ UNCHANGED Registry!registry
  <2>0. work' = work \/ OpenStale(u)
    BY <1>4 DEF User, OpenChr, OpenDisk, OpenEnd, Close
  <2>1. ASSUME upc[u] # "in", NEW p \in {"opening", "out"}, NEW d, Moves(u, p, d), work' = work
        PROVE  UNCHANGED Registry!registry
    BY <1>0, <1>1, <2>1, SeenTheSame DEF Moves, OpenersOf, Holders, Types
  <2>2. ASSUME NEW d \in Devices, OpenChr(u, d) \/ OpenDisk(u, d)
        PROVE  UNCHANGED Registry!registry
    <3>1. PICK e : Moves(u, "opening", e)
      BY <2>2 DEF OpenChr, OpenDisk
    <3> QED BY <2>1, <2>2, <3>1 DEF OpenChr, OpenDisk
  <2>3. CASE OpenEnd(u)
    <3>1. CASE removing[udev[u]]
      BY <2>1, <2>3, <3>1 DEF OpenEnd
    <3>2. CASE ~removing[udev[u]]
      <4>1. PICK d : d = udev[u]
        OBVIOUS
      <4>2. d \in Devices /\ NameOf(d) # NULL /\ upc[u] = "opening" /\ work' = work
        BY <1>0, <2>3, <3>2, <4>1 DEF OpenEnd, NameOf, Types
      <4>3. Moves(u, "in", d)
        BY <2>3, <3>2, <4>1 DEF OpenEnd
      <4>4. u \notin OpenersOf(d) /\ OpenersOf(d)' = OpenersOf(d) \cup {u}
        BY <1>0, <4>2, <4>3 DEF Moves, OpenersOf, Holders, Types
      <4>5. \A e \in Devices \ {d} : OpenersOf(e)' = OpenersOf(e)
        BY <1>0, <4>2, <4>3 DEF Moves, OpenersOf, Holders, Types
      <4> QED BY <1>2, <4>2, <4>4, <4>5
    <3> QED BY <3>1, <3>2
  <2>4. CASE Close(u)
    <3>1. PICK d : d = udev[u]
      OBVIOUS
    <3>2. d \in Devices /\ upc[u] = "in" /\ Moves(u, "out", NULL) /\ work' = work
      BY <1>0, <2>4, <3>1 DEF Close, OpenersMeet
    <3>3. u \in OpenersOf(d) /\ OpenersOf(d)' = OpenersOf(d) \ {u}
      BY <1>0, <3>1, <3>2 DEF Moves, OpenersOf, Holders, Types
    <3>4. \A e \in Devices \ {d} : OpenersOf(e)' = OpenersOf(e)
      BY <1>0, <3>1, <3>2 DEF Moves, OpenersOf, Holders, Types
    <3> QED BY <1>3, <3>2, <3>3, <3>4
  <2>5. CASE OpenStale(u)
    BY <1>1, <2>5, SeenTheSame DEF OpenStale, Fail, OpenersOf, Holders
  <2> QED BY <1>4, <2>2, <2>3, <2>4, <2>5 DEF User
<1>5. ASSUME NEW d \in Devices, Work(d) PROVE Registry!Next \/ UNCHANGED Registry!registry
  <2>0. \A e : Holders(e)' = Holders(e)
    BY <1>5 DEF Work, AddDisk, ScanEnds, AddDiskFinished, StrayWork, Fail, Holders
  <2>1. CASE AddDisk(d) /\ removing[d]
    <3>1. \A e \in Devices : work'[e] = "scanning" <=> work[e] = "scanning"
      BY <1>0, <2>1 DEF AddDisk, Types
    <3> QED BY <1>1, <2>0, <3>1, SeenTheSame DEF OpenersOf
  <2>2. CASE AddDisk(d) /\ ~removing[d]
    <3>1. /\ d \in live /\ work[d] = "queued" /\ work'[d] = "scanning"
          /\ \A e \in Devices \ {d} : work'[e] = work[e]
      BY <1>0, <2>2 DEF AddDisk, Types
    <3>2. NameOf(d) # NULL
      BY <1>0, <2>2, <3>1 DEF NameOf, Types
    <3>3. "scan" \notin OpenersOf(d) /\ OpenersOf(d)' = OpenersOf(d) \cup {"scan"}
      BY <1>0, <2>0, <3>1 DEF OpenersOf, Holders
    <3>4. \A e \in Devices \ {d} : OpenersOf(e)' = OpenersOf(e)
      BY <2>0, <3>1 DEF OpenersOf
    <3> QED BY <1>2, <3>2, <3>3, <3>4
  <2>3. CASE ScanEnds(d)
    <3>1. /\ work[d] = "scanning" /\ work'[d] = "added"
          /\ \A e \in Devices \ {d} : work'[e] = work[e]
      BY <1>0, <2>3 DEF ScanEnds, Types
    <3>2. "scan" \notin Holders(d)
      BY <1>0 DEF Holders
    <3>3. "scan" \in OpenersOf(d) /\ OpenersOf(d)' = OpenersOf(d) \ {"scan"}
      BY <2>0, <3>1, <3>2 DEF OpenersOf
    <3>4. \A e \in Devices \ {d} : OpenersOf(e)' = OpenersOf(e)
      BY <2>0, <3>1 DEF OpenersOf
    <3> QED BY <1>3, <3>3, <3>4
  <2>4. CASE StrayWork(d)
    BY <1>1, <2>0, <2>4, SeenTheSame DEF StrayWork, Fail, OpenersOf
  <2>5. CASE AddDiskFinished(d)
    <3>1. \A e \in Devices : work'[e] = "scanning" <=> work[e] = "scanning"
      BY <1>0, <2>5 DEF AddDiskFinished, Types
    <3> QED BY <1>1, <2>0, <3>1, SeenTheSame DEF OpenersOf
  <2> QED BY <1>5, <2>1, <2>2, <2>3, <2>4, <2>5 DEF Work
<1> QED BY <1>4, <1>5

\* The kernel module implements the registry of devices: whatever overlaps, programs
\* see devices that come and go at one moment each.
THEOREM RegistryImplemented == Spec => RegistrySpec
<1>1. Init => Registry!Init
  <2> SUFFICES ASSUME Init PROVE Registry!Init
    OBVIOUS
  <2>1. \A d \in Devices : d \notin live /\ work[d] # "scanning" /\ Holders(d) = {}
    BY DEF Init, Holders
  <2> QED BY <2>1 DEF Registry!Init, OpenersOf
<1>2. DInv /\ [Next]_vars => [Registry!Next]_(Registry!registry)
  <2> SUFFICES ASSUME DInv, [Next]_vars
               PROVE  Registry!Next \/ UNCHANGED Registry!registry
    OBVIOUS
  <2>1. CASE UNCHANGED vars \/ Load \/ Unload
    <3>1. UNCHANGED <<live, removing, name, upc, udev, work>>
      BY <2>1 DEF vars, Load, Unload, module, control, fields, devs, users
    <3> QED BY <3>1, SeenTheSame DEF NameOf, OpenersOf, Holders
  <2> QED BY <2>1, AdminSeen, OthersSeen DEF Next
<1> QED BY <1>1, <1>2, DeviceInvariant, PTL DEF Spec, RegistrySpec, Registry!Spec
=============================================================================
