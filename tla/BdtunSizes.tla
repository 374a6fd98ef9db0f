----------------------------- MODULE BdtunSizes -----------------------------
(***************************************************************************)
(* The sizes of a device: from the arguments of the command line tool      *)
(* (util/bdtun.c), or of a program that calls the library, through the     *)
(* create, resize and info commands to the fields of the device and the    *)
(* capacity its disk has for the block layer (kernel/bdtun.c).             *)
(*                                                                         *)
(* One device is enough: commands find their device by name and run one at *)
(* a time, which is the business of BdtunDevice.                           *)
(***************************************************************************)
EXTENDS Integers, FiniteSets

CONSTANTS
  Sector,     \* KERNEL_SECTOR_SIZE, also the least block size
  MaxBlock,   \* the greatest block size the tool lets through
  PageSize,   \* the greatest block size the kernel module accepts
  Width,      \* the width of the size fields, in bits
  Numbers     \* the numbers that are given as arguments

ASSUME SizesAssumption ==
  /\ Sector \in Nat \ {0} /\ \E k \in 0 .. Width - 1 : Sector = 2^k
  /\ MaxBlock \in Nat /\ PageSize \in Nat /\ MaxBlock <= PageSize
  /\ Width \in Nat \ {0}
  /\ Numbers \subseteq (-2^(Width - 1)) .. (2^(Width - 1) - 1)

\* Arithmetic: what a power of two is, for the exponents in use.
ASSUME PowerAssumption == \A k \in 0 .. Width - 1 : 2^(k + 1) = 2 * 2^k

VARIABLES
  cmd,      \* the command on its way to the kernel module
  result,   \* what the last command returned
  device,   \* the fields of struct bdtun and its disk's capacity
  resized,  \* history: has the device been resized?
  failed    \* history: has revalidate_disk() failed in the last resize?

vars == <<cmd, result, device, resized, failed>>

Fields == 0 .. 2^Width - 1
NoCommand == [op |-> "none", size |-> 0, block |-> 0, by |-> "none"]
NoDevice == [bd_block_size |-> 0, bd_nsectors |-> 0, bd_size |-> 0, capacity |-> 0]

STypeOK ==
  /\ cmd \in [op : {"none", "create", "resize", "remove"}, size : Fields,
              block : Fields, by : {"none", "tool", "program"}]
  /\ result \in {"none", "ok", "usage", "ENOENT", "EEXIST", "EBUSY", "EINVAL",
                 "ENOMEM", "revalidate"}
  /\ device \in [bd_block_size : 0 .. PageSize, bd_nsectors : Fields,
                 bd_size : Fields, capacity : Fields]
  /\ resized \in BOOLEAN /\ failed \in BOOLEAN

Init ==
  /\ cmd = NoCommand /\ result = "none"
  /\ device = NoDevice
  /\ resized = FALSE /\ failed = FALSE

Exists == device # NoDevice
-----------------------------------------------------------------------------
(* The arguments. *)

\* Mutant: the number stays signed.
Signed(n) == n

\* strtoll() into a uint64_t.
Unsigned(n) == n % 2^Width

\* x & (x - 1) is zero.
LoneBit(x) == x = 0 \/ \E k \in 0 .. Width - 1 : x = 2^k

\* Mutant: the block size need not be a power of two.
BlockInRange(block) == block >= Sector /\ block <= MaxBlock

BlockAccepted(block) == block >= Sector /\ block <= MaxBlock /\ LoneBit(block)
SizeAccepted(size) == size >= 1

\* The checks of parse_opt().
Accepted(op, size, block) ==
  /\ op \in {"create", "resize"} => SizeAccepted(size)
  /\ op = "create" => BlockAccepted(block) /\ size % block = 0

\* A command carries what its structure has room for.
Sends(op, size, block, by) ==
  /\ cmd' = [op |-> op, by |-> by,
              size |-> IF op = "remove" THEN 0 ELSE size,
              block |-> IF op = "create" THEN block ELSE 0]
  /\ result' = "none"

\* The tool is run; it sends the command or ends with a message.
RunTool(op, s, b) ==
  /\ cmd = NoCommand
  /\ LET size == Unsigned(s) block == Unsigned(b) IN
       IF Accepted(op, size, block)
       THEN Sends(op, size, block, "tool")
       ELSE result' = "usage" /\ UNCHANGED cmd
  /\ UNCHANGED <<device, resized, failed>>

\* A program calls bdtun_create(), bdtun_resize() or bdtun_remove() itself.
CallLibrary(op, s, b) ==
  /\ cmd = NoCommand
  /\ Sends(op, Unsigned(s), Unsigned(b), "program")
  /\ UNCHANGED <<device, resized, failed>>
-----------------------------------------------------------------------------
(* The commands. *)

\* The capacity of the disk.
Sectors(size) == size \div Sector

Returns(what) == result' = what /\ cmd' = NoCommand

\* Mutant: the kernel module does not ask for a power of two.
ValidRange(size, block) == block >= Sector /\ block <= PageSize /\ size % block = 0

ValidSizes(size, block) ==
  block >= Sector /\ block <= PageSize /\ LoneBit(block) /\ size % block = 0

Create ==
  /\ cmd.op = "create" /\ ~Exists /\ ValidSizes(cmd.size, cmd.block)
  /\ device' = [bd_block_size |-> cmd.block,
                bd_nsectors |-> cmd.size \div cmd.block,
                bd_size |-> cmd.size,
                capacity |-> Sectors(cmd.size)]
  /\ resized' = FALSE /\ failed' = FALSE
  /\ Returns("ok")

CreateRefused ==
  /\ cmd.op = "create"
  /\ \/ Exists /\ Returns("EEXIST")
     \/ ~Exists /\ ~ValidSizes(cmd.size, cmd.block) /\ Returns("EINVAL")
     \/ ~Exists /\ ValidSizes(cmd.size, cmd.block) /\ Returns("ENOMEM")
  /\ UNCHANGED <<device, resized, failed>>

\* Mutant: set_capacity() is missing.
ResizeFieldOnly ==
  /\ cmd.op = "resize" /\ Exists
  /\ \/ /\ device' = [device EXCEPT !.bd_size = cmd.size]
        /\ failed' = FALSE /\ Returns("ok")
     \/ device' = device /\ failed' = TRUE /\ Returns("revalidate")
  /\ resized' = TRUE

\* The capacity is set first; bd_size only when the disk could be revalidated.
Resize ==
  /\ cmd.op = "resize" /\ Exists
  /\ \/ /\ device' = [device EXCEPT !.capacity = Sectors(cmd.size), !.bd_size = cmd.size]
        /\ failed' = FALSE /\ Returns("ok")
     \/ /\ device' = [device EXCEPT !.capacity = Sectors(cmd.size)]
        /\ failed' = TRUE /\ Returns("revalidate")
  /\ resized' = TRUE

Remove ==
  /\ cmd.op = "remove" /\ Exists
  /\ device' = NoDevice /\ resized' = FALSE /\ failed' = FALSE
  /\ Returns("ok")

\* What the info command tells.
Info == [bd_size |-> device.bd_size, bd_block_size |-> device.bd_block_size]

\* There is no such device, or it is in use.
Refused ==
  /\ cmd.op \in {"resize", "remove"}
  /\ \/ ~Exists /\ Returns("ENOENT")
     \/ Exists /\ cmd.op = "remove" /\ Returns("EBUSY")
  /\ UNCHANGED <<device, resized, failed>>
-----------------------------------------------------------------------------
Next ==
  \/ \E op \in {"create", "resize", "remove"}, s, b \in Numbers :
       RunTool(op, s, b) \/ CallLibrary(op, s, b)
  \/ Create \/ CreateRefused \/ Resize \/ Remove \/ Refused

Spec == Init /\ [][Next]_vars
-----------------------------------------------------------------------------
\* The size that the info command tells a driver is the size of the disk the
\* block layer sends requests to, down to a part of a sector at its end, as long
\* as the last resize could revalidate the disk: a store of bd_size bytes is
\* neither overrun nor a sector too long.
SizesAgree ==
  Exists /\ ~failed =>
    Info.bd_size - device.capacity * Sector \in 0 .. Sector - 1

\* A device that was never resized is a whole number of its blocks, of sectors
\* and of nsectors blocks, whoever created it: the four fields say the same. (A
\* resize checks nothing of this and leaves bd_nsectors as it was.)
CreatedWhole ==
  Exists /\ ~resized =>
    /\ Info.bd_size = device.bd_nsectors * Info.bd_block_size
    /\ Info.bd_size = device.capacity * Sector
    /\ Info.bd_block_size % Sector = 0

\* The two sets of checks agree: sizes the tool has let through are never refused
\* by the kernel module, although it checks them again with limits of its own.
ToolChecksSuffice ==
  [][cmd.by = "tool" => result' # "EINVAL"]_vars
=============================================================================
