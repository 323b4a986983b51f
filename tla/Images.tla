--------------------------------- MODULE Images ---------------------------------
(***************************************************************************)
(* The images of disks and flash devices: the program that makes them      *)
(* (uriscv/mkdev.cc), the header a device reads from them, and the blocks  *)
(* it reads and writes at an offset of 32 bits (uriscv/blockdev.cc and the *)
(* two devices of device.cc).                                              *)
(*                                                                         *)
(* Offsets are counted in blocks: the few words of the header shift all of *)
(* them alike.  A file of the host is longer than the header by its blocks *)
(* and, when it could not be written to its end, has fewer than the header *)
(* says.                                                                   *)
(***************************************************************************)
EXTENDS Integers, Sequences

CONSTANTS
    MAXCYL, MAXHEAD, MAXSECT, MAXBLOCKS,
    Word,        \* the words: numbers below this one
    Reach,       \* the blocks with an offset that is not negative in 32 bits
    Contents,    \* what a block holds
    DiskArgs, FlashArgs, \* bound: the numbers on the command line
    Data,        \* bound: the files a flash image is made from, block by block;
                 \* the tag of a core file comes first
    NoFile, NoDevice

VARIABLES
    file,        \* the image
    made,        \* the last image made: its kind and parameters, or NoFile
    device,      \* the device that has it open: its kind and its parameters
    held         \* what the guest wrote, by block number, since the image was made

vars == <<file, made, device, held>>

Empty == 0       \* the contents of a block of zeros
BlockFile(magic, parms, blocks) == [magic |-> magic, parms |-> parms, blocks |-> blocks]

-----------------------------------------------------------------------------
(* mkdev *)

MINRPM      == 360
MAXRPM      == 10800
MAXSEEKTIME == 10000
MINDATAS    == 10
MAXDATAS    == 90
MAXWTIME    == MAXSEEKTIME * 10

(* Smaller than those of blockdev_params.h, in proportion to the bounds. *)
DiskDefaults  == <<2, 1, 2, 16666, 100, 80>>
FlashDefaults == <<3, 1000>>

(* A number too large for a word is cut to one. *)
StrToWord(n) == n % Word

DiskLimits == <<1..MAXCYL, 1..MAXHEAD, 1..MAXSECT, MINRPM..MAXRPM, 1..MAXSEEKTIME,
                MINDATAS..MAXDATAS>>
FlashLimits == <<1..MAXBLOCKS, 1..MAXWTIME>>

(* An argument is decoded by its position; the rotations per minute become
   the microseconds of a rotation. *)
Decodes(args, limits) ==
    Len(args) <= Len(limits) /\ \A i \in DOMAIN args : StrToWord(args[i]) \in limits[i]
decodeDiskP(args) ==
    [i \in DOMAIN DiskDefaults |->
        IF i \notin DOMAIN args THEN DiskDefaults[i]
        ELSE IF i = 4 THEN 60000000 \div StrToWord(args[i]) ELSE StrToWord(args[i])]
decodeFlashP(args) ==
    [i \in DOMAIN FlashDefaults |->
        IF i \in DOMAIN args THEN StrToWord(args[i]) ELSE FlashDefaults[i]]

BlocksOf(kind, parms) ==
    IF kind = "disk" THEN parms[1] * parms[2] * parms[3] ELSE parms[1]

Written(n, data) == [i \in 1..n |-> IF i <= Len(data) THEN data[i] ELSE Empty]

(* The image is written to its end, or a write fails: at the header, or
   after any number of blocks, and what was written stays.  The device is
   closed: this is another program. *)
WriteImage(kind, parms, data) ==
    LET blocks == Written(BlocksOf(kind, parms), data) IN
    /\ \/ file' = BlockFile(kind, parms, blocks) /\ made' = [kind |-> kind, parms |-> parms]
       \/ /\ \E n \in 0..(Len(blocks) - 1) :
                file' = BlockFile(kind, parms, SubSeq(blocks, 1, n))
          /\ made' = NoFile
       \/ file' \in {file, NoFile} /\ made' = NoFile
    /\ held' = <<>>

Refuse == UNCHANGED <<file, made, held>>

mkDisk(args) ==
    /\ device = NoDevice
    /\ IF Decodes(args, DiskLimits) THEN WriteImage("disk", decodeDiskP(args), <<>>)
       ELSE Refuse
    /\ UNCHANGED device

(* The tag of a core file is left out; what does not fit is, too. *)
testForCore(data) == IF data.core THEN Tail(data.blocks) ELSE data.blocks
mkFlash(args, data) ==
    /\ device = NoDevice
    /\ IF Decodes(args, FlashLimits)
       THEN WriteImage("flash", decodeFlashP(args), testForCore(data))
       ELSE Refuse
    /\ UNCHANGED device

-----------------------------------------------------------------------------
(* The device *)

(* The constructors: a file with another tag, or shorter than a block, ends
   the program. *)
Open(kind) ==
    /\ device = NoDevice /\ file # NoFile
    /\ file.magic = kind /\ file.blocks # <<>>
    /\ device' = [kind |-> kind, parms |-> file.parms]
    /\ UNCHANGED <<file, made, held>>

Close == device # NoDevice /\ device' = NoDevice /\ UNCHANGED <<file, made, held>>

Addresses ==
    IF device.kind = "disk"
    THEN (0..(device.parms[1] - 1)) \X (0..(device.parms[2] - 1)) \X (0..(device.parms[3] - 1))
    ELSE {<<b>> : b \in 0..(device.parms[1] - 1)}

(* A plausible bug: the cylinders are counted where the heads should be. *)
NumberByCylinder(a) ==
    IF Len(a) = 3 THEN a[1] * device.parms[1] * device.parms[3] + a[2] * device.parms[3] + a[3]
    ELSE a[1]
Number(a) ==
    IF Len(a) = 3 THEN a[1] * device.parms[2] * device.parms[3] + a[2] * device.parms[3] + a[3]
    ELSE a[1]

(* The offset is a signed word: it wraps, and a negative one is refused. *)
Place(a) == Number(a) % (2 * Reach)
Seeks(a) == Place(a) < Reach

ReadWorks(a) == Seeks(a) /\ Place(a) < Len(file.blocks)
ReadBlock(a) == file.blocks[Place(a) + 1]

(* A write beyond the end makes the file longer. *)
WriteBlock(a, c) ==
    /\ Seeks(a)
    /\ file' = [file EXCEPT !.blocks =
           [i \in 1..(IF Place(a) < Len(@) THEN Len(@) ELSE Place(a) + 1) |->
               IF i = Place(a) + 1 THEN c ELSE IF i <= Len(@) THEN @[i] ELSE Empty]]
    /\ held' = [b \in DOMAIN held \cup {a} |-> IF b = a THEN c ELSE held[b]]
    /\ UNCHANGED <<made, device>>

Init == file = NoFile /\ made = NoFile /\ device = NoDevice /\ held = <<>>

Next ==
    \/ \E args \in DiskArgs : mkDisk(args)
    \/ \E args \in FlashArgs, data \in Data : mkFlash(args, data)
    \/ \E kind \in {"disk", "flash"} : Open(kind)
    \/ Close
    \/ device # NoDevice /\ \E a \in Addresses, c \in Contents : WriteBlock(a, c)

Spec == Init /\ [][Next]_vars

-----------------------------------------------------------------------------
(* An image that mkdev reports as made has the parameters that were asked
   for, within their limits, and each block they promise, in an order in
   which the device finds it (writeDisk, writeFlash, DiskParams,
   FlashParams). *)
MadeIsWhole ==
    made # NoFile =>
        /\ file.magic = made.kind /\ file.parms = made.parms
        /\ Len(file.blocks) = BlocksOf(made.kind, made.parms)
        /\ device # NoDevice => device.kind = made.kind /\ device.parms = made.parms
        /\ device # NoDevice /\ BlocksOf(made.kind, made.parms) <= Reach =>
               \A a \in Addresses : ReadWorks(a)

(* A block that was written is read back as it was, however many others were
   written since, in an image of at most as many blocks as a word can tell
   apart; a larger one, which mkdev accepts, has blocks in the place of
   others (Block::ReadBlock, WriteBlock, CompleteDevOp). *)
KeepsWhatWasWritten ==
    device # NoDevice /\ BlocksOf(device.kind, device.parms) <= 2 * Reach =>
        \A a \in DOMAIN held : ReadWorks(a) /\ ReadBlock(a) = held[a]

(* What is put into an image is found there again. *)
ImagesInv == MadeIsWhole /\ KeepsWhatWasWritten
=============================================================================
