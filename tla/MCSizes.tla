------------------------------ MODULE MCSizes ------------------------------
(* A small instance of BdtunSizes for TLC: sectors of two bytes, blocks of   *)
(* up to four (or, for the kernel module, eight) bytes, five bit fields.     *)
EXTENDS BdtunSizes

\* Among them a negative number and zero, block sizes below, within and above the
\* limits, sizes that are no whole number of blocks or of sectors.
SomeNumbers == {-4, 0, 1, 2, 3, 4, 6, 8, 9}
=============================================================================
