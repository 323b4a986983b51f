------------------------------- MODULE DiskDevice -------------------------------
(***************************************************************************)
(* A disk drive (uriscv/device.cc, DiskDevice): a block is addressed by    *)
(* cylinder, head and sector, and reads and writes take place at the       *)
(* cylinder a previous seek has reached.                                   *)
(***************************************************************************)
EXTENDS BlockBuffer, Integers

CONSTANTS NCyls, NHeads, NSects     \* the geometry

ASSUME GeometryAssumption ==
    /\ NCyls \in Nat \ {0} /\ NHeads \in Nat \ {0} /\ NSects \in Nat \ {0}
    /\ Blocks = (0..(NCyls - 1)) \X (0..(NHeads - 1)) \X (0..(NSects - 1))

VARIABLE currCyl                    \* the cylinder the heads are at

diskVars == <<blockVars, currCyl>>

DiskTypeOK ==
    /\ TypeOK
    /\ currCyl \in 0..(NCyls - 1)
    /\ InProgress("SEEK") => op.block \in 0..(NCyls - 1)

DiskInit == BlockInit /\ currCyl = 0

OnDisk(cyl) == cyl < NCyls

Seek(cyl) ==
    /\ IF OnDisk(cyl)
       THEN /\ Command("SEEK", cyl)
            /\ Begin
            /\ UNCHANGED <<tag, buffer, source>>
       ELSE Refuse("SEEK", "ERROR")
    /\ UNCHANGED currCyl

(* A seek that fails leaves the heads half way. *)
CompleteSeek ==
    /\ InProgress("SEEK")
    /\ \/ /\ isWorking
          /\ Finish("READY")
          /\ currCyl' = op.block
       \/ /\ ~isWorking
          /\ Finish("ERROR")
          /\ currCyl' = (op.block + currCyl) \div 2
    /\ UNCHANGED <<tag, buffer, store, memory>>

(* The command register gives head and sector, the heads the cylinder. *)
Located == <<currCyl, op.block[2], op.block[3]>>

DiskNext ==
    \/ BlockNext /\ UNCHANGED currCyl
    \/ \E h \in 0..NHeads, s \in 0..NSects :
         /\ Read(<<currCyl, h, s>>) \/ Write(<<currCyl, h, s>>)
         /\ UNCHANGED currCyl
    \/ CompleteRead(Located) /\ UNCHANGED currCyl
    \/ CompleteWrite(Located) /\ UNCHANGED currCyl
    \/ \E cyl \in 0..NCyls : Seek(cyl)
    \/ CompleteSeek

DiskSpec == DiskInit /\ [][DiskNext]_diskVars
=============================================================================
