------------------------------- MODULE MCStorage -------------------------------
(***************************************************************************)
(* For TLC: a behaviour of a disk, of a flash device with the same blocks, *)
(* memory and faults, of a printer whose registers take their place, of    *)
(* the bus that devices transfer blocks over, or of the images of disks    *)
(* and flash devices.  What a behaviour is not about keeps one value.      *)
(***************************************************************************)
EXTENDS FlashDevice, DiskDevice, Sequences, TLC

CONSTANTS
    MaxPaper,                                                     \* PrinterDevice
    Cpus, Words, MAXWORDVAL, BIOSDATABASE, MMIO_BASE, BOOTBASE,   \* Bus
    RAMBASE, BiosSize, BootSize, RamSize, BlockSize, NoCpu,
    MAXCYL, MAXHEAD, MAXSECT, MAXBLOCKS, Word, Reach,             \* Images
    FileContents, DiskArgs, FlashArgs, Data, NoFile, NoDevice

(* The areas of memory, with the five registers, do not overlap (arch.h). *)
ASSUME AreasAssumption ==
    /\ {BiosSize, BootSize, RamSize, BlockSize} \subseteq Nat \ {0}
    /\ {BIOSDATABASE, MMIO_BASE, BOOTBASE, RAMBASE} \subseteq Nat
    /\ BiosSize <= BIOSDATABASE /\ BIOSDATABASE < MMIO_BASE
    /\ MMIO_BASE + 5 <= BOOTBASE /\ BOOTBASE + BootSize <= RAMBASE

ASSUME ImagesAssumption ==
    Reach \in Nat \ {0} /\ {MAXCYL, MAXHEAD, MAXSECT, MAXBLOCKS} \subseteq Nat

VARIABLES
    kind,       \* what this behaviour is of
    paper, asked, reported,                                       \* PrinterDevice
    ram, biosdata, rom, regs, tpr, block, failed, alive,          \* Bus
    file, made, device, held                                      \* Images

printVars == <<paper, asked, reported>>
busVars   == <<ram, biosdata, rom, regs, tpr, block, failed, alive>>
imageVars == <<file, made, device, held>>
storageVars == <<diskVars, kind, printVars, busVars, imageVars>>

(* What blocks and characters are does not matter. *)
MCSymmetry == Permutations(Contents)

MCBlocks == (0..(NCyls - 1)) \X (0..(NHeads - 1)) \X (0..(NSects - 1))

(* Of the numbers on the command line of mkdev, and of the blocks of a file
   that a flash image is made from. *)
MCDiskArgs ==
    {<<>>, <<1, 2>>, <<2, 1, 3>>, <<3, 2, 1>>, <<0>>, <<4>>, <<20002>>,
     <<1, 1, 1, 360, 1, 10>>, <<1, 1, 1, 359>>, <<1, 1, 1, 360, 1, 10, 1>>}
MCFlashArgs == {<<>>, <<1>>, <<7>>, <<8>>, <<2, 1>>, <<2, 0>>}
MCData ==
    {[core |-> FALSE, blocks |-> <<>>], [core |-> FALSE, blocks |-> <<1, 1>>],
     [core |-> TRUE, blocks |-> <<9, 1>>]}

Printer == INSTANCE PrinterDevice WITH Characters <- Contents
Memory  == INSTANCE Bus
Files   == INSTANCE Images WITH Contents <- FileContents

NoDisk ==
    /\ tag = Invalid
    /\ buffer = CHOOSE c \in Contents : TRUE
    /\ store = [b \in Blocks |-> buffer]
    /\ memory = [p \in Pages |-> buffer]
    /\ source = buffer
    /\ currCyl = 0

NoRegisters ==
    /\ status = "READY" /\ op = [command |-> "RESET", block |-> NoBlock]
    /\ data0 = NoBlock /\ isWorking = TRUE /\ request = FALSE

NoPaper == paper = <<>> /\ reported = <<>> /\ asked = NoBlock

StorageInit ==
    /\ \/ kind \in {"disk", "flash"} /\ DiskInit /\ NoPaper
       \/ kind = "printer" /\ NoDisk /\ Printer!PrinterInit
       \/ kind \in {"bus", "images"} /\ NoDisk /\ NoRegisters /\ NoPaper
    /\ Memory!Init
    /\ Files!Init

StorageNext ==
    /\ \/ /\ \/ kind = "disk" /\ DiskNext
             \/ kind = "flash" /\ FlashNext /\ UNCHANGED currCyl
          /\ UNCHANGED <<printVars, busVars, imageVars>>
       \/ /\ kind = "printer" /\ Printer!PrinterNext
          /\ UNCHANGED <<tag, buffer, store, memory, source, currCyl, busVars, imageVars>>
       \/ /\ kind = "bus" /\ Memory!Next
          /\ UNCHANGED <<diskVars, printVars, imageVars>>
       \/ /\ kind = "images" /\ Files!Next
          /\ UNCHANGED <<diskVars, printVars, busVars>>
    /\ UNCHANGED kind

StorageSpec == StorageInit /\ [][StorageNext]_storageVars

(* The paper of a printer is what its driver has been told is on it. *)
PrintsWhatWasAsked == kind = "printer" => Printer!PrintsWhatWasAsked

(* Every core and device sees one flat memory (Bus). *)
AccessesAreHonest == [][kind = "bus" => Memory!IsHonest]_storageVars

(* What is put into an image is found there again (Images). *)
ImagesInv == kind = "images" => Files!ImagesInv
=============================================================================
