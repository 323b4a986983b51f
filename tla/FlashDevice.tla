------------------------------ MODULE FlashDevice ------------------------------
(***************************************************************************)
(* A flash device (uriscv/device.cc, FlashDevice): its blocks are numbered *)
(* and any of them can be read or written at once.                         *)
(***************************************************************************)
EXTENDS BlockBuffer

FlashNext ==
    \/ BlockNext
    \/ \E b \in Blocks \cup {NoBlock} : Read(b) \/ Write(b)
    \/ CompleteRead(op.block)
    \/ CompleteWrite(op.block)

FlashSpec == BlockInit /\ [][FlashNext]_blockVars
=============================================================================
