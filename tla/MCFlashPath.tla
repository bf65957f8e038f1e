---------------------------- MODULE MCFlashPath ----------------------------
(***************************************************************************)
(* FlashPath with the USB control session, one TCP worker and a            *)
(* disk of one or two partitions; the cfg files choose which devices are   *)
(* flashed and whether images have an unaligned tail.                      *)
(***************************************************************************)
EXTENDS FlashPath, TLC

CONSTANTS d0, p1, p2
OnlyParts == Parts
DiskAndParts == Parts \cup {Disk}
Either == BOOLEAN
Never == {FALSE}
============================================================================
