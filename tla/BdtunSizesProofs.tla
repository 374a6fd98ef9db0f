-------------------------- MODULE BdtunSizesProofs --------------------------
(***************************************************************************)
(* Proofs about BdtunSizes, for any sector size, limits, field width and   *)
(* arguments.                                                              *)
(***************************************************************************)
EXTENDS BdtunSizes, WellFoundedInduction, TLAPS

-----------------------------------------------------------------------------
(* Powers of two. *)

\* A set of numbers that has zero and every successor has them all.
LEMMA SetInduction ==
  ASSUME NEW S, NEW n \in Nat, 0 \in S, \A k \in 0 .. n - 1 : k \in S => k + 1 \in S
  PROVE  0 .. n \subseteq S
<1> SUFFICES ASSUME NEW b \in 0 .. n, b \notin S PROVE FALSE
  OBVIOUS
<1> DEFINE R == {p \in Nat \X Nat : p[1] < p[2]}
           T == (0 .. n) \ S
<1>1. IsWellFoundedOn(R, Nat)
  BY NatLessThanWellFounded DEF OpToRel
<1>2. T # {} /\ T \in SUBSET Nat
  OBVIOUS
<1>3. PICK x \in T : \A y \in T : ~(<<y, x>> \in R)
  <2> HIDE DEF R, T
  <2> QED BY <1>1, <1>2, WFMin
<1>4. x \in 1 .. n
  BY <1>3
<1>5. x - 1 \in 0 .. n - 1 /\ x - 1 < x /\ (x - 1) + 1 = x
  BY <1>4
<1>6. <<x - 1, x>> \in R
  BY <1>4, <1>5
<1>7. x - 1 \in S
  BY <1>3, <1>5, <1>6
<1> QED BY <1>3, <1>5, <1>7

LEMMA PowerPositive ==
  ASSUME NEW k \in 0 .. Width
  PROVE  2^k \in Nat \ {0}
<1> DEFINE S == {i \in Nat : 2^i \in Nat \ {0}}
<1>0. Width \in Nat
  BY SizesAssumption
<1>1. 0 \in S
  <2>1. 2^0 = 1
    OBVIOUS
  <2> QED BY <2>1
<1>2. ASSUME NEW i \in 0 .. Width - 1, i \in S PROVE i + 1 \in S
  BY <1>0, <1>2, PowerAssumption
<1>3. 0 .. Width \subseteq S
  <2> HIDE DEF S
  <2> QED BY <1>0, <1>1, <1>2, SetInduction
<1> QED BY <1>3

\* A smaller power of two divides a greater one.
LEMMA PowerDivides ==
  ASSUME NEW j \in 0 .. Width, NEW k \in 0 .. Width, j <= k
  PROVE  \E m \in Nat \ {0} : 2^k = 2^j * m
<1> DEFINE S == {i \in Nat : j + i <= Width => \E m \in Nat \ {0} : 2^(j + i) = 2^j * m}
<1>0. Width \in Nat /\ j \in Nat /\ k \in Nat /\ 2^j \in Nat \ {0}
  BY SizesAssumption, PowerPositive
<1>1. 0 \in S
  <2>1. j + 0 = j /\ 2^j = 2^j * 1
    BY <1>0
  <2> QED BY <2>1
<1>2. ASSUME NEW i \in 0 .. Width - 1, i \in S PROVE i + 1 \in S
  <2> SUFFICES ASSUME j + (i + 1) <= Width
               PROVE  \E m \in Nat \ {0} : 2^(j + (i + 1)) = 2^j * m
    BY <1>0
  <2>1. PICK m \in Nat \ {0} : 2^(j + i) = 2^j * m
    BY <1>0, <1>2
  <2>2. j + i \in 0 .. Width - 1 /\ j + (i + 1) = (j + i) + 1
    BY <1>0
  <2>3. 2^(j + (i + 1)) = 2 * (2^j * m)
    BY <2>1, <2>2, PowerAssumption
  <2>4. ASSUME NEW x \in Nat PROVE 2 * (x * m) = x * (2 * m)
    OBVIOUS
  <2>5. 2 * m \in Nat \ {0} /\ 2^(j + (i + 1)) = 2^j * (2 * m)
    BY <1>0, <2>3, <2>4
  <2> QED BY <2>5
<1>3. 0 .. Width \subseteq S
  <2> HIDE DEF S
  <2> QED BY <1>0, <1>1, <1>2, SetInduction
<1>4. k - j \in S /\ j + (k - j) = k
  BY <1>0, <1>3
<1> QED BY <1>0, <1>4
-----------------------------------------------------------------------------
(* Division. *)

LEMMA Division ==
  ASSUME NEW a \in Int, NEW m \in Nat \ {0}
  PROVE  /\ a % m \in 0 .. m - 1 /\ a \div m \in Int
         /\ a = (a \div m) * m + (a % m)
OBVIOUS

\* Of a number that is no greater than a limit, neither is the quotient.
LEMMA QuotientBound ==
  ASSUME NEW a \in Nat, NEW m \in Nat \ {0}
  PROVE  a \div m \in 0 .. a
<1> DEFINE q == a \div m
<1>1. q \in Int /\ a = q * m + (a % m) /\ a % m \in 0 .. m - 1
  BY Division
<1> HIDE DEF q
<1>2. q >= 0
  <2> SUFFICES ASSUME q <= -1 PROVE FALSE
    BY <1>1
  <2>1. q * m <= (-1) * m
    BY <1>1
  <2> QED BY <1>1, <2>1
<1>3. q <= q * m
  BY <1>1, <1>2
<1>4. q <= a
  BY <1>1, <1>3
<1> QED BY <1>1, <1>2, <1>4 DEF q

\* A multiple is divided without a rest.
LEMMA ExactQuotient ==
  ASSUME NEW q \in Int, NEW m \in Nat \ {0}
  PROVE  (q * m) \div m = q /\ (q * m) % m = 0
OBVIOUS
-----------------------------------------------------------------------------
(* The sizes. *)

\* What the tool sends to create a device has passed its checks.
ToolChecked ==
  cmd.by = "tool" /\ cmd.op = "create" =>
    BlockAccepted(cmd.block) /\ cmd.size % cmd.block = 0

\* The disk has the capacity of the size field, if the last resize went well.
CapacityIsSize == Exists /\ ~failed => device.capacity = Sectors(device.bd_size)

SizesInv == STypeOK /\ ToolChecked /\ CapacityIsSize /\ CreatedWhole

LEMMA Constants ==
  /\ Sector \in Nat \ {0} /\ MaxBlock \in Nat /\ PageSize \in Nat /\ MaxBlock <= PageSize
  /\ 2^Width \in Nat \ {0}
  /\ \A n \in Numbers : Unsigned(n) \in Fields
<1>1. 2^Width \in Nat \ {0}
  BY PowerPositive, SizesAssumption
<1>2. ASSUME NEW n \in Numbers PROVE Unsigned(n) \in Fields
  <2>1. n \in Int
    BY SizesAssumption
  <2> QED BY <1>1, <2>1, Division DEF Unsigned, Fields
<1> QED BY <1>1, <1>2, SizesAssumption

LEMMA QuotientInFields ==
  ASSUME NEW size \in Fields, NEW m \in Nat \ {0}
  PROVE  size \div m \in Fields
<1>1. size \in Nat /\ size <= 2^Width - 1 /\ 2^Width \in Nat \ {0}
  BY Constants DEF Fields
<1>2. size \div m \in 0 .. size
  BY <1>1, QuotientBound
<1> QED BY <1>1, <1>2 DEF Fields

\* What the kernel module accepts is a whole number of sectors, too.
LEMMA AcceptedWhole ==
  ASSUME NEW size \in Fields, NEW block \in Fields, ValidSizes(size, block)
  PROVE  /\ block \in Nat \ {0}
         /\ size = (size \div block) * block
         /\ size = (size \div Sector) * Sector
         /\ block % Sector = 0
<1>0. /\ size \in Nat /\ block \in Nat \ {0} /\ block >= Sector /\ size % block = 0
      /\ Sector \in Nat \ {0} /\ LoneBit(block)
  BY Constants DEF Fields, ValidSizes
<1>1. size = (size \div block) * block /\ size \div block \in Int
  BY <1>0, Division
<1>2. PICK k \in 0 .. Width - 1 : block = 2^k
  BY <1>0 DEF LoneBit
<1>3. PICK j \in 0 .. Width - 1 : Sector = 2^j
  BY SizesAssumption
<1>4. j \in 0 .. Width /\ k \in 0 .. Width /\ j \in Int /\ k \in Int
  BY SizesAssumption
<1>5. \E m \in Nat \ {0} : block = Sector * m
  <2>1. CASE j <= k
    BY <1>2, <1>3, <1>4, <2>1, PowerDivides
  <2>2. CASE k <= j
    <3>1. PICK m \in Nat \ {0} : Sector = block * m
      BY <1>2, <1>3, <1>4, <2>2, PowerDivides
    <3>2. block <= block * m
      BY <1>0
    <3>3. block = Sector * 1
      BY <1>0, <3>1, <3>2
    <3> QED BY <3>3
  <2> QED BY <1>4, <2>1, <2>2
<1>6. PICK m \in Nat \ {0} : block = Sector * m
  BY <1>5
<1>7. block = m * Sector
  BY <1>0, <1>6
<1>8. block % Sector = 0
  BY <1>0, <1>7, ExactQuotient
<1> DEFINE q == size \div block
<1>9. size = (q * m) * Sector /\ q * m \in Int
  <2> HIDE DEF q
  <2> SUFFICES ASSUME size = q * block, q \in Int PROVE size = (q * m) * Sector
    BY <1>1 DEF q
  <2> QED BY <1>0, <1>7
<1>10. size \div Sector = q * m
  BY <1>0, <1>9, ExactQuotient
<1> QED BY <1>0, <1>1, <1>8, <1>9, <1>10

LEMMA InitSizes == Init => SizesInv
<1> SUFFICES ASSUME Init PROVE SizesInv
  OBVIOUS
<1>1. 0 \in Fields /\ 0 \in 0 .. PageSize
  BY Constants DEF Fields
<1>2. STypeOK
  BY <1>1 DEF Init, STypeOK, NoCommand, NoDevice
<1>3. ToolChecked /\ CapacityIsSize /\ CreatedWhole
  BY DEF Init, ToolChecked, CapacityIsSize, CreatedWhole, Exists, NoCommand
<1> QED BY <1>2, <1>3 DEF SizesInv

\* A command is sent, or refused by the tool: the device is as it was.
LEMMA SendKeepsSizes ==
  ASSUME SizesInv, NEW op \in {"create", "resize", "remove"}, NEW s \in Numbers,
         NEW b \in Numbers, RunTool(op, s, b) \/ CallLibrary(op, s, b)
  PROVE  SizesInv'
<1> DEFINE size == Unsigned(s)
           block == Unsigned(b)
<1>1. size \in Fields /\ block \in Fields /\ 0 \in Fields
  BY Constants DEF Fields
<1>2. UNCHANGED <<device, resized, failed>>
  BY DEF RunTool, CallLibrary
<1> HIDE DEF size, block
<1>3. \/ Accepted(op, size, block) /\ Sends(op, size, block, "tool")
      \/ cmd' = cmd /\ result' = "usage"
      \/ Sends(op, size, block, "program")
  BY DEF RunTool, CallLibrary, size, block
<1>4. ToolChecked'
  BY <1>3 DEF Sends, Accepted, ToolChecked, SizesInv
<1>5. STypeOK'
  BY <1>1, <1>2, <1>3 DEF Sends, STypeOK, SizesInv
<1>6. CapacityIsSize' /\ CreatedWhole'
  BY <1>2 DEF SizesInv, CapacityIsSize, CreatedWhole, Exists, Info
<1> QED BY <1>4, <1>5, <1>6 DEF SizesInv

LEMMA CreateKeepsSizes ==
  ASSUME SizesInv, Create
  PROVE  SizesInv'
<1> DEFINE size == cmd.size
           block == cmd.block
<1>1. /\ size \in Fields /\ block \in Fields /\ ValidSizes(size, block)
      /\ device' = [bd_block_size |-> block, bd_nsectors |-> size \div block,
                    bd_size |-> size, capacity |-> Sectors(size)]
      /\ resized' = FALSE /\ failed' = FALSE /\ result' = "ok" /\ cmd' = NoCommand
  BY DEF SizesInv, STypeOK, Create, Returns
<1> HIDE DEF size, block
<1>2. /\ block \in 0 .. PageSize /\ size \div block \in Fields /\ Sectors(size) \in Fields
      /\ 0 \in Fields
  <2>1. block \in Nat \ {0} /\ Sector \in Nat \ {0}
    BY <1>1, AcceptedWhole, Constants
  <2>2. size \div block \in Fields /\ size \div Sector \in Fields
    BY <1>1, <2>1, QuotientInFields
  <2>3. block <= PageSize /\ PageSize \in Nat
    BY <1>1, Constants DEF ValidSizes
  <2>4. 0 \in Fields
    BY Constants DEF Fields
  <2> QED BY <2>1, <2>2, <2>3, <2>4 DEF Sectors
<1>3. STypeOK' /\ ToolChecked'
  BY <1>1, <1>2 DEF STypeOK, ToolChecked, NoCommand
<1>4. CapacityIsSize'
  BY <1>1 DEF CapacityIsSize, Sectors
<1>5. CreatedWhole'
  BY <1>1, AcceptedWhole DEF CreatedWhole, Info, Sectors
<1> QED BY <1>3, <1>4, <1>5 DEF SizesInv

LEMMA ResizeKeepsSizes ==
  ASSUME SizesInv, Resize
  PROVE  SizesInv'
<1> DEFINE size == cmd.size
<1>1. /\ size \in Fields /\ resized' = TRUE /\ cmd' = NoCommand
      /\ \/ /\ device' = [device EXCEPT !.capacity = Sectors(size), !.bd_size = size]
            /\ failed' = FALSE /\ result' = "ok"
         \/ /\ device' = [device EXCEPT !.capacity = Sectors(size)]
            /\ failed' = TRUE /\ result' = "revalidate"
  BY DEF SizesInv, STypeOK, Resize, Returns
<1> HIDE DEF size
<1>2. Sectors(size) \in Fields /\ 0 \in Fields
  BY <1>1, QuotientInFields, Constants DEF Sectors, Fields
<1>3. STypeOK' /\ ToolChecked'
  BY <1>1, <1>2 DEF SizesInv, STypeOK, ToolChecked, NoCommand
<1>4. CapacityIsSize' /\ CreatedWhole'
  BY <1>1 DEF SizesInv, STypeOK, CapacityIsSize, CreatedWhole, Sectors
<1> QED BY <1>3, <1>4 DEF SizesInv

LEMMA NextSizes == SizesInv /\ [Next]_vars => SizesInv'
<1> SUFFICES ASSUME SizesInv, [Next]_vars PROVE SizesInv'
  OBVIOUS
<1>0. 0 \in Fields /\ 0 \in 0 .. PageSize
  BY Constants DEF Fields
<1>1. CASE UNCHANGED vars
  BY <1>1 DEF vars, SizesInv, STypeOK, ToolChecked, CapacityIsSize, CreatedWhole, Exists,
              Info
<1>2. CASE CreateRefused \/ Refused
  <2>1. /\ UNCHANGED <<device, resized, failed>> /\ cmd' = NoCommand
        /\ result' \in {"EEXIST", "EINVAL", "ENOMEM", "ENOENT", "EBUSY"}
    BY <1>2 DEF CreateRefused, Refused, Returns
  <2>2. STypeOK' /\ ToolChecked'
    BY <1>0, <2>1 DEF SizesInv, STypeOK, ToolChecked, NoCommand
  <2>3. CapacityIsSize' /\ CreatedWhole'
    BY <2>1 DEF SizesInv, CapacityIsSize, CreatedWhole, Exists, Info
  <2> QED BY <2>2, <2>3 DEF SizesInv
<1>3. CASE Remove
  <2>1. /\ device' = NoDevice /\ resized' = FALSE /\ failed' = FALSE /\ result' = "ok"
        /\ cmd' = NoCommand
    BY <1>3 DEF Remove, Returns
  <2>2. STypeOK' /\ ToolChecked'
    BY <1>0, <2>1 DEF STypeOK, ToolChecked, NoCommand, NoDevice
  <2>3. CapacityIsSize' /\ CreatedWhole'
    BY <2>1 DEF CapacityIsSize, CreatedWhole, Exists
  <2> QED BY <2>2, <2>3 DEF SizesInv
<1> QED
  BY <1>1, <1>2, <1>3, SendKeepsSizes, CreateKeepsSizes, ResizeKeepsSizes DEF Next

LEMMA SizesInductive == Spec => []SizesInv
BY InitSizes, NextSizes, PTL DEF Spec

\* The fields of a device stay within their widths and its block size within a page,
\* whatever numbers the tool or a program sends.
THEOREM SizesTyped == Spec => []STypeOK
BY SizesInductive, PTL DEF SizesInv

\* The size a driver is told is the size of the disk, down to a part of a sector.
THEOREM DriverSeesDisk == Spec => []SizesAgree
<1>1. SizesInv => SizesAgree
  <2> SUFFICES ASSUME SizesInv, Exists, ~failed
               PROVE  device.bd_size - device.capacity * Sector \in 0 .. Sector - 1
    BY DEF SizesAgree, Info
  <2> DEFINE size == device.bd_size
  <2>1. size \in Int /\ Sector \in Nat \ {0}
    BY Constants DEF SizesInv, STypeOK, Fields
  <2>2. device.capacity = size \div Sector
    BY DEF SizesInv, CapacityIsSize, Sectors
  <2> HIDE DEF size
  <2>3. /\ size % Sector \in 0 .. Sector - 1 /\ size \div Sector \in Int
        /\ size = (size \div Sector) * Sector + (size % Sector)
    BY <2>1, Division
  <2>4. size - (size \div Sector) * Sector = size % Sector
    BY <2>1, <2>3
  <2> QED BY <2>2, <2>3, <2>4 DEF size
<1> QED BY <1>1, SizesInductive, PTL

\* Until it is resized a device is a whole number of blocks and of sectors, because
\* a power of two that is no less than another one is a multiple of it.
THEOREM DevicesWhole == Spec => []CreatedWhole
BY SizesInductive, PTL DEF SizesInv

\* The kernel module never refuses the sizes of a device that the tool has checked.
THEOREM ToolNeverRefused == Spec => ToolChecksSuffice
<1>1. SizesInv /\ [Next]_vars => [cmd.by = "tool" => result' # "EINVAL"]_vars
  <2> SUFFICES ASSUME SizesInv, Next, cmd.by = "tool", result' = "EINVAL"
               PROVE  FALSE
    OBVIOUS
  <2>1. CASE CreateRefused
    <3>1. cmd.op = "create" /\ ~ValidSizes(cmd.size, cmd.block)
      BY <2>1 DEF CreateRefused, Returns
    <3>2. BlockAccepted(cmd.block) /\ cmd.size % cmd.block = 0 /\ cmd.block \in Nat
      BY <3>1, Constants DEF SizesInv, STypeOK, ToolChecked, Fields
    <3> QED BY <3>1, <3>2, Constants DEF BlockAccepted, ValidSizes
  <2>2. CASE ~CreateRefused
    BY <2>2 DEF Next, RunTool, CallLibrary, NoCommand, Create, Resize, Remove, Refused,
                Returns, Sends
  <2> QED BY <2>1, <2>2
<1> QED BY <1>1, SizesInductive, PTL DEF Spec, ToolChecksSuffice
=============================================================================
