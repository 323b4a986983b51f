----------------------------- MODULE StorageProofs -----------------------------
(***************************************************************************)
(* Proofs about what devices store, for every geometry, memory, contents   *)
(* and layout of the areas: the block buffer of the flash device and of    *)
(* the disk, the paper of the printer, the images, and the bus that blocks *)
(* are copied over.                                                        *)
(*                                                                         *)
(* What makes the buffer trustworthy is not inductive by itself: a copy    *)
(* that is in progress may only be for the block of the command, and a     *)
(* buffer that is being written must hold what the command found in        *)
(* memory.  TransferInv adds both.  What makes an image trustworthy is     *)
(* that no two blocks have the same number, and that what was written is   *)
(* there while the device is closed, too (FilesInv).  A copy over the bus  *)
(* is an induction over its words (Moved, Fetched).                        *)
(***************************************************************************)
EXTENDS MCStorage, Recursion, TLAPS

(* A transfer in progress with a valid buffer is for the buffered block; a
   write whose copy from memory did not fail has what it is to write. *)
TransferInv ==
    /\ InProgress("READ") /\ tag # Invalid => tag = op.block
    /\ InProgress("WRITE") =>
         /\ tag # Invalid => tag = op.block
         /\ source # NoCopy => tag = op.block /\ buffer = source

BlockInv == TypeOK /\ BufferIsTruthful /\ TransferInv

LEMMA BlockInitInv ==
    ASSUME BlockInit
    PROVE  BlockInv
BY DEF BlockInit, BlockInv, TypeOK, BufferIsTruthful, TransferInv, InProgress, Busy

-----------------------------------------------------------------------------
(* Commands *)

LEMMA ResetStep ==
    ASSUME BlockInv, Reset
    PROVE  BlockInv'
BY DEF BlockInv, TypeOK, BufferIsTruthful, TransferInv, InProgress, Busy,
       Reset, Command, Begin, Accepts

LEMMA AcknowledgeStep ==
    ASSUME BlockInv, Acknowledge
    PROVE  BlockInv'
BY DEF BlockInv, TypeOK, BufferIsTruthful, TransferInv, InProgress, Busy,
       Acknowledge, Command, Accepts

LEMMA RefuseStep ==
    ASSUME BlockInv,
           NEW c \in {"READ", "WRITE", "SEEK", "unknown"},
           NEW s \in {"ILOPERR", "ERROR"}, Refuse(c, s)
    PROVE  BlockInv'
BY DEF BlockInv, TypeOK, BufferIsTruthful, TransferInv, InProgress, Busy,
       Refuse, Command, Accepts

LEMMA StartReadStep ==
    ASSUME BlockInv, NEW b \in Blocks, StartRead(b)
    PROVE  BlockInv'
<1>1. /\ Accepts /\ status' = "BUSY" /\ request' = FALSE
      /\ op' = [command |-> "READ", block |-> b]
      /\ tag' = IF tag = b THEN tag ELSE Invalid
      /\ UNCHANGED <<data0, buffer, store, memory, isWorking, source>>
  BY DEF StartRead, Command, Begin, Cached
<1>2. TypeOK'
  BY <1>1 DEF BlockInv, TypeOK, Busy
<1>3. BufferIsTruthful'
  BY <1>1 DEF BlockInv, BufferIsTruthful, InProgress, Busy, Accepts
<1>4. TransferInv'
  BY <1>1 DEF TransferInv, InProgress, Busy
<1> QED
  BY <1>2, <1>3, <1>4 DEF BlockInv

LEMMA StartWriteStep ==
    ASSUME BlockInv, NEW b \in Blocks, StartWrite(b)
    PROVE  BlockInv'
<1>1. /\ status' = "BUSY" /\ request' = FALSE
      /\ op' = [command |-> "WRITE", block |-> b]
      /\ UNCHANGED <<data0, store, memory, isWorking>>
  BY DEF StartWrite, Command, Begin
<1>2. \/ /\ data0 \in Pages
         /\ buffer' = memory[data0] /\ tag' = b /\ source' = memory[data0]
      \/ /\ data0 \in BadPages
         /\ buffer' \in {buffer, Mixed} /\ tag' = Invalid /\ source' = NoCopy
  BY DEF StartWrite, FromMemory
<1>3. TypeOK'
  BY <1>1, <1>2 DEF BlockInv, TypeOK, Busy
<1>4. BufferIsTruthful'
  BY <1>1 DEF BufferIsTruthful, InProgress, Busy
<1>5. TransferInv'
  BY <1>1, <1>2 DEF TransferInv, InProgress, Busy
<1> QED
  BY <1>3, <1>4, <1>5 DEF BlockInv

-----------------------------------------------------------------------------
(* Completions *)

LEMMA CompleteReadStep ==
    ASSUME BlockInv, CompleteRead(op.block)
    PROVE  /\ BlockInv'
           /\ status' = "READY" => memory'[data0] = store[op.block]
<1>1. /\ InProgress("READ") /\ op.block \in Blocks
      /\ buffer' = IF tag # Invalid THEN buffer ELSE store[op.block]
      /\ tag' = op.block /\ status' \in {"READY", "DMAERR"} /\ request' = TRUE
      /\ UNCHANGED <<op, data0, store, isWorking, source>>
  BY DEF CompleteRead, Finish, BlockInv, TypeOK, InProgress
<1>2. buffer' = store[op.block]
  BY <1>1 DEF BlockInv, BufferIsTruthful, TransferInv, InProgress
<1>3. \/ data0 \in Pages /\ memory' = [memory EXCEPT ![data0] = buffer']
      \/ /\ status' = "DMAERR"
         /\ \E p \in Pages : memory' \in {memory, [memory EXCEPT ![p] = Mixed]}
  BY DEF CompleteRead, Finish
<1>4. TypeOK'
  BY <1>1, <1>2, <1>3 DEF BlockInv, TypeOK, Busy
<1>5. BufferIsTruthful' /\ TransferInv'
  BY <1>1, <1>2 DEF BufferIsTruthful, TransferInv, InProgress, Busy
<1>6. status' = "READY" => memory'[data0] = store[op.block]
  BY <1>2, <1>3 DEF BlockInv, TypeOK
<1> QED
  BY <1>4, <1>5, <1>6 DEF BlockInv

LEMMA CompleteWriteStep ==
    ASSUME BlockInv, CompleteWrite(op.block)
    PROVE  /\ BlockInv'
           /\ source # NoCopy => store'[op.block] = source
<1>1. /\ InProgress("WRITE") /\ op.block \in Blocks
      /\ status' = "READY" /\ request' = TRUE
      /\ store' = [store EXCEPT ![op.block] = buffer]
      /\ UNCHANGED <<op, data0, tag, buffer, memory, isWorking, source>>
  BY DEF CompleteWrite, Finish, BlockInv, TypeOK, InProgress
<1>2. TypeOK'
  BY <1>1 DEF BlockInv, TypeOK, Busy
<1>3. BufferIsTruthful'
  BY <1>1 DEF BlockInv, TypeOK, BufferIsTruthful, TransferInv, InProgress
<1>4. TransferInv'
  BY <1>1 DEF TransferInv, InProgress, Busy
<1>5. source # NoCopy => store'[op.block] = source
  BY <1>1 DEF BlockInv, TypeOK, TransferInv
<1> QED
  BY <1>2, <1>3, <1>4, <1>5 DEF BlockInv

LEMMA OtherCompletionStep ==
    ASSUME BlockInv, CompleteReset \/ Fail
    PROVE  BlockInv'
BY DEF BlockInv, TypeOK, BufferIsTruthful, TransferInv, InProgress, Busy,
       CompleteReset, Fail, Finish, DropTag

LEMMA QuietStep ==
    ASSUME BlockInv,
           \/ \E p \in Pages \cup BadPages : WriteData0(p)
           \/ \E working \in BOOLEAN : SetCondition(working)
           \/ \E p \in Pages, c \in Contents : GuestStore(p, c)
    PROVE  BlockInv'
<1>1. CASE \E p \in Pages \cup BadPages : WriteData0(p)
  BY <1>1 DEF WriteData0, BlockInv, TypeOK, BufferIsTruthful, TransferInv,
              InProgress, Busy
<1>2. CASE \E working \in BOOLEAN : SetCondition(working)
  BY <1>2 DEF SetCondition, BlockInv, TypeOK, BufferIsTruthful, TransferInv,
              InProgress, Busy
<1>3. CASE \E p \in Pages, c \in Contents : GuestStore(p, c)
  BY <1>3 DEF GuestStore, BlockInv, TypeOK, BufferIsTruthful, TransferInv,
              InProgress, Busy
<1> QED
  BY <1>1, <1>2, <1>3

LEMMA UnchangedStep ==
    ASSUME BlockInv, UNCHANGED blockVars
    PROVE  BlockInv'
BY DEF BlockInv, TypeOK, BufferIsTruthful, TransferInv, InProgress, Busy, blockVars

LEMMA BlockStep ==
    ASSUME BlockInv, BlockNext
    PROVE  BlockInv'
BY ResetStep, AcknowledgeStep, RefuseStep, OtherCompletionStep, QuietStep
DEF BlockNext

LEMMA TransferStep ==
    ASSUME BlockInv, NEW b, Read(b) \/ Write(b)
    PROVE  BlockInv'
BY StartReadStep, StartWriteStep, RefuseStep DEF Read, Write, InRange

(* No other step reports success for a transfer. *)
LEMMA OnlyCompletionsSucceed ==
    ASSUME BlockNext \/ (\E b : Read(b) \/ Write(b)), Busy, status' = "READY"
    PROVE  ~InProgress("READ") /\ ~InProgress("WRITE")
<1>1. ~Accepts
  BY DEF Accepts
<1>2. ~Reset /\ ~Acknowledge /\ \A c, s : ~Refuse(c, s)
  BY <1>1 DEF Reset, Acknowledge, Refuse, Command
<1>3. /\ \A p : ~WriteData0(p)
      /\ \A b : ~Read(b) /\ ~Write(b)
  BY <1>1 DEF WriteData0, Read, Write, StartRead, StartWrite, Refuse, Command
<1>4. \A working, p, c : ~SetCondition(working) /\ ~GuestStore(p, c)
  BY DEF SetCondition, GuestStore, Busy
<1>5. CASE CompleteReset \/ Fail
  BY <1>5 DEF CompleteReset, Fail, Finish, InProgress
<1> QED
  BY <1>2, <1>3, <1>4, <1>5 DEF BlockNext

LEMMA CompleteWriteNotRead ==
    ASSUME NEW b
    PROVE  /\ CompleteWrite(b) => ~InProgress("READ")
           /\ CompleteRead(b) => ~InProgress("WRITE")
BY DEF CompleteRead, CompleteWrite, InProgress

-----------------------------------------------------------------------------
(* The flash device *)

THEOREM FlashInvariant == FlashSpec => []BlockInv
<1>1. BlockInit => BlockInv
  BY BlockInitInv
<1>2. BlockInv /\ [FlashNext]_blockVars => BlockInv'
  BY BlockStep, TransferStep, CompleteReadStep, CompleteWriteStep, UnchangedStep
  DEF FlashNext
<1> QED
  BY <1>1, <1>2, PTL DEF FlashSpec

(* The buffer of a flash device can be trusted in every state. *)
THEOREM FlashBufferIsTruthful == FlashSpec => []BufferIsTruthful
<1>1. BlockInv => BufferIsTruthful
  BY DEF BlockInv
<1> QED
  BY <1>1, FlashInvariant, PTL

(* Every read that a flash device reports as done was done. *)
THEOREM FlashReadDelivers == FlashSpec => ReadDelivers
<1>1. BlockInv /\ [FlashNext]_blockVars
        => [InProgress("READ") /\ status' = "READY"
              => memory'[data0] = store[op.block]]_blockVars
  BY CompleteReadStep, OnlyCompletionsSucceed, CompleteWriteNotRead
  DEF FlashNext, InProgress
<1> QED
  BY <1>1, FlashInvariant, PTL DEF FlashSpec, ReadDelivers

(* Every write that a flash device reports as done was done, unless
   its copy from memory had failed. *)
THEOREM FlashWriteLands == FlashSpec => WriteLands
<1>1. BlockInv /\ [FlashNext]_blockVars
        => [InProgress("WRITE") /\ source # NoCopy /\ status' = "READY"
              => store'[op.block] = source]_blockVars
  BY CompleteWriteStep, OnlyCompletionsSucceed, CompleteWriteNotRead
  DEF FlashNext, InProgress
<1> QED
  BY <1>1, FlashInvariant, PTL DEF FlashSpec, WriteLands
-----------------------------------------------------------------------------
(* The disk *)

(* The operation in progress is for the cylinder the heads are at: the block
   that is located at its end is the one it was started for. *)
HeadsStayDuringTransfer ==
    Busy /\ op.command \in {"READ", "WRITE"} => op.block[1] = currCyl

DiskInv == BlockInv /\ DiskTypeOK /\ HeadsStayDuringTransfer

(* Any step but the end of a seek leaves the heads where they are. *)
LEMMA HeadsStayStep ==
    ASSUME DiskInv, BlockInv', UNCHANGED currCyl,
           \/ BlockNext
           \/ \E h, s : Read(<<currCyl, h, s>>) \/ Write(<<currCyl, h, s>>)
           \/ CompleteRead(op.block) \/ CompleteWrite(op.block)
           \/ UNCHANGED blockVars
    PROVE  DiskInv'
<1>1. TypeOK'
  BY DEF BlockInv
<1>2. \/ op' = op /\ (Busy' => Busy)
      \/ ~Busy'
      \/ op'.command = "RESET"
      \/ \E h, s : op'.block = <<currCyl, h, s>> /\ op'.command \in {"READ", "WRITE"}
  <2>1. CASE BlockNext
    <3>1. Reset => op'.command = "RESET"
      BY DEF Reset, Command
    <3>2. Acknowledge => ~Busy'
      BY DEF Acknowledge, Busy
    <3>3. Refuse("unknown", "ILOPERR") => ~Busy'
      BY DEF Refuse, Busy
    <3>4. CompleteReset \/ Fail => ~Busy'
      BY DEF CompleteReset, Fail, Finish, Busy
    <3>5. \A p, c : WriteData0(p) \/ SetCondition(c) \/ GuestStore(p, c)
            => op' = op /\ (Busy' => Busy)
      BY DEF WriteData0, SetCondition, GuestStore, Busy
    <3> QED
      BY <2>1, <3>1, <3>2, <3>3, <3>4, <3>5 DEF BlockNext
  <2>2. ASSUME NEW h, NEW s, Read(<<currCyl, h, s>>) \/ Write(<<currCyl, h, s>>)
        PROVE  ~Busy' \/ (/\ op'.block = <<currCyl, h, s>>
                          /\ op'.command \in {"READ", "WRITE"})
    BY <2>2 DEF Read, Write, StartRead, StartWrite, Refuse, Command, Busy
  <2>3. CASE UNCHANGED blockVars
    BY <2>3 DEF blockVars, Busy
  <2>4. CASE CompleteRead(op.block) \/ CompleteWrite(op.block)
    BY <2>4 DEF CompleteRead, CompleteWrite, Finish, Busy
  <2> QED
    BY <2>1, <2>2, <2>3, <2>4
<1>3. DiskTypeOK'
  BY <1>1, <1>2 DEF DiskInv, DiskTypeOK, InProgress, Busy
<1>4. HeadsStayDuringTransfer'
  BY <1>2 DEF DiskInv, HeadsStayDuringTransfer, Busy
<1> QED
  BY <1>3, <1>4 DEF DiskInv

LEMMA SeekStep ==
    ASSUME DiskInv, NEW cyl \in 0..NCyls, Seek(cyl)
    PROVE  DiskInv'
<1>1. CASE OnDisk(cyl)
  <2>1. /\ status' = "BUSY" /\ request' = FALSE
        /\ op' = [command |-> "SEEK", block |-> cyl]
        /\ UNCHANGED <<data0, tag, buffer, store, memory, isWorking, source, currCyl>>
        /\ ~Busy
    BY <1>1 DEF Seek, Command, Begin, Accepts
  <2>2. BlockInv'
    BY <2>1 DEF DiskInv, BlockInv, TypeOK, BufferIsTruthful, TransferInv,
                InProgress, Busy
  <2>3. cyl \in 0..(NCyls - 1)
    BY <1>1, GeometryAssumption DEF OnDisk, GeometryAssumption
  <2> QED
    BY <2>1, <2>2, <2>3 DEF DiskInv, BlockInv, DiskTypeOK, HeadsStayDuringTransfer,
                            InProgress, Busy
<1>2. CASE ~OnDisk(cyl)
  <2>1. Refuse("SEEK", "ERROR") /\ currCyl' = currCyl
    BY <1>2 DEF Seek
  <2>2. BlockInv'
    BY <2>1, RefuseStep DEF DiskInv
  <2>3. ~Busy'
    BY <2>1 DEF Refuse, Busy
  <2> QED
    BY <2>1, <2>2, <2>3 DEF DiskInv, BlockInv, DiskTypeOK, HeadsStayDuringTransfer,
                            InProgress
<1> QED
  BY <1>1, <1>2

(* Half way between two cylinders there is a cylinder. *)
LEMMA HalfWay ==
    ASSUME NEW n \in Nat \ {0}, NEW a \in 0..(n - 1), NEW b \in 0..(n - 1)
    PROVE  (a + b) \div 2 \in 0..(n - 1)
OBVIOUS

LEMMA CompleteSeekStep ==
    ASSUME DiskInv, CompleteSeek
    PROVE  DiskInv'
<1>1. /\ InProgress("SEEK") /\ ~Busy' /\ status' \in {"READY", "ERROR"}
      /\ request' = TRUE
      /\ UNCHANGED <<op, data0, tag, buffer, store, memory, isWorking, source>>
      /\ currCyl' \in {op.block, (op.block + currCyl) \div 2}
  BY DEF CompleteSeek, Finish, Busy
<1>2. BlockInv'
  BY <1>1 DEF DiskInv, BlockInv, TypeOK, BufferIsTruthful, TransferInv,
              InProgress, Busy
<1>3. currCyl' \in 0..(NCyls - 1)
  BY <1>1, HalfWay, GeometryAssumption DEF GeometryAssumption, DiskInv, DiskTypeOK
<1> QED
  BY <1>1, <1>2, <1>3 DEF DiskInv, BlockInv, DiskTypeOK, HeadsStayDuringTransfer,
                          InProgress

LEMMA LocatedIsCommanded ==
    ASSUME DiskInv, InProgress("READ") \/ InProgress("WRITE")
    PROVE  Located = op.block
<1>1. op.block \in Blocks /\ op.block[1] = currCyl
  BY DEF DiskInv, BlockInv, TypeOK, HeadsStayDuringTransfer, InProgress
<1> QED
  BY <1>1, GeometryAssumption DEF GeometryAssumption, Located

LEMMA DiskCompletionStep ==
    ASSUME DiskInv, UNCHANGED currCyl, CompleteRead(Located) \/ CompleteWrite(Located)
    PROVE  DiskInv' /\ (CompleteRead(op.block) \/ CompleteWrite(op.block))
<1>1. Located = op.block
  BY LocatedIsCommanded DEF CompleteRead, CompleteWrite
<1>2. CompleteRead(op.block) \/ CompleteWrite(op.block)
  BY <1>1
<1>3. BlockInv'
  BY <1>2, CompleteReadStep, CompleteWriteStep DEF DiskInv
<1> QED
  BY <1>2, <1>3, HeadsStayStep

THEOREM DiskInvariant == DiskSpec => []DiskInv
<1>1. DiskInit => DiskInv
  <2>1. 0 \in 0..(NCyls - 1)
    BY GeometryAssumption DEF GeometryAssumption
  <2>2. DiskInit => BlockInv /\ ~Busy /\ currCyl = 0
    BY BlockInitInv DEF DiskInit, BlockInit, Busy
  <2> QED
    BY <2>1, <2>2 DEF DiskInv, BlockInv, DiskTypeOK, HeadsStayDuringTransfer, InProgress
<1>2. DiskInv /\ [DiskNext]_diskVars => DiskInv'
  <2> SUFFICES ASSUME DiskInv, [DiskNext]_diskVars PROVE DiskInv'
    OBVIOUS
  <2>1. CASE BlockNext /\ UNCHANGED currCyl
    BY <2>1, BlockStep, HeadsStayStep DEF DiskInv
  <2>2. ASSUME NEW h, NEW s, UNCHANGED currCyl,
               Read(<<currCyl, h, s>>) \/ Write(<<currCyl, h, s>>)
        PROVE  DiskInv'
    BY <2>2, TransferStep, HeadsStayStep DEF DiskInv
  <2>3. CASE (CompleteRead(Located) \/ CompleteWrite(Located)) /\ UNCHANGED currCyl
    BY <2>3, DiskCompletionStep
  <2>4. CASE UNCHANGED diskVars
    BY <2>4, UnchangedStep, HeadsStayStep DEF DiskInv, diskVars
  <2> QED
    BY <2>1, <2>2, <2>3, <2>4, SeekStep, CompleteSeekStep DEF DiskNext
<1> QED
  BY <1>1, <1>2, PTL DEF DiskSpec

(* The heads are never outside of the disk, not even after a failed seek. *)
THEOREM DiskTypeCorrect == DiskSpec => []DiskTypeOK
<1>1. DiskInv => DiskTypeOK
  BY DEF DiskInv
<1> QED
  BY <1>1, DiskInvariant, PTL

(* A seek ends with an empty hand: it is no transfer. *)
LEMMA SeekIsNoTransfer ==
    ASSUME NEW cyl, Seek(cyl) \/ CompleteSeek
    PROVE  ~InProgress("READ") /\ ~InProgress("WRITE")
BY DEF Seek, CompleteSeek, Refuse, Command, Accepts, InProgress

(* Every read that a disk reports as done was done, whatever seeks, failures
   and resets came before. *)
THEOREM DiskReadDelivers == DiskSpec => ReadDelivers
<1>1. DiskInv /\ [DiskNext]_diskVars
        => [InProgress("READ") /\ status' = "READY"
              => memory'[data0] = store[op.block]]_blockVars
  BY CompleteReadStep, OnlyCompletionsSucceed, SeekIsNoTransfer, DiskCompletionStep,
     CompleteWriteNotRead DEF DiskInv, DiskNext, InProgress, diskVars
<1> QED
  BY <1>1, DiskInvariant, PTL DEF DiskSpec, ReadDelivers

(* Every write that a disk reports as done was done, unless its copy from
   memory had failed. *)
THEOREM DiskWriteLands == DiskSpec => WriteLands
<1>1. DiskInv /\ [DiskNext]_diskVars
        => [InProgress("WRITE") /\ source # NoCopy /\ status' = "READY"
              => store'[op.block] = source]_blockVars
  BY CompleteWriteStep, OnlyCompletionsSucceed, SeekIsNoTransfer, DiskCompletionStep,
     CompleteWriteNotRead DEF DiskInv, DiskNext, InProgress, diskVars
<1> QED
  BY <1>1, DiskInvariant, PTL DEF DiskSpec, WriteLands

-----------------------------------------------------------------------------
(* The promises of every device *)

LEMMA BlockBegins ==
    ASSUME BlockInit
    PROVE  Driver!Init
BY DEF BlockInit, Driver!Init, Busy

(* What a step means to the driver: a command begins or is refused or
   acknowledged, an operation ends, or nothing it can see has happened. *)
LEMMA CommandView ==
    ASSUME \/ Reset \/ Acknowledge
           \/ \E c, s : s # "BUSY" /\ Refuse(c, s)
           \/ \E b : StartRead(b) \/ StartWrite(b)
    PROVE  [Driver!Next]_(Driver!vars)
<1> USE DEF Driver!Next, Driver!Accept, Driver!Acknowledge, Driver!Refuse
<1>1. ~Busy
  BY DEF Reset, Acknowledge, Refuse, StartRead, StartWrite, Command, Accepts
<1>2. CASE Reset \/ \E b : StartRead(b) \/ StartWrite(b)
  BY <1>1, <1>2 DEF Reset, StartRead, StartWrite, Begin, Busy
<1>3. CASE Acknowledge
  BY <1>1, <1>3 DEF Acknowledge, Busy
<1>4. CASE \E c, s : s # "BUSY" /\ Refuse(c, s)
  <2>1. ~Busy' /\ request' = TRUE
    BY <1>4 DEF Refuse, Busy
  <2> QED
    BY <1>1, <2>1
<1> QED
  BY <1>2, <1>3, <1>4

LEMMA EndView ==
    ASSUME Busy, NEW s, s # "BUSY", Finish(s)
    PROVE  Driver!Next
<1>1. ~Busy' /\ request' = TRUE
  BY DEF Finish, Busy
<1> QED
  BY <1>1 DEF Driver!Next, Driver!Complete

LEMMA CompletionView ==
    ASSUME \/ CompleteReset \/ Fail
           \/ \E b : CompleteRead(b) \/ CompleteWrite(b)
    PROVE  Driver!Next
BY EndView DEF CompleteReset, Fail, CompleteRead, CompleteWrite, InProgress

LEMMA BlockView ==
    ASSUME BlockNext \/ UNCHANGED blockVars
    PROVE  [Driver!Next]_(Driver!vars)
<1>1. ASSUME UNCHANGED <<status, request>>
      PROVE  [Driver!Next]_(Driver!vars)
  BY <1>1 DEF Driver!vars, Busy
<1>2. \A p, c : WriteData0(p) \/ SetCondition(c) \/ GuestStore(p, c)
               \/ UNCHANGED blockVars => UNCHANGED <<status, request>>
  BY DEF WriteData0, SetCondition, GuestStore, blockVars
<1> QED
  BY <1>1, <1>2, CommandView, CompletionView DEF BlockNext

LEMMA TransferView ==
    ASSUME NEW b, Read(b) \/ Write(b)
    PROVE  [Driver!Next]_(Driver!vars)
BY CommandView DEF Read, Write

(* A flash device behaves to its driver as every device does. *)
THEOREM FlashImplementsDevice == FlashSpec => ImplementsDeviceOperation
<1>1. BlockInit => Driver!Init
  BY BlockBegins
<1>2. [FlashNext]_blockVars => [Driver!Next]_(Driver!vars)
  BY BlockView, TransferView, CompletionView DEF FlashNext
<1> QED
  BY <1>1, <1>2, PTL DEF FlashSpec, ImplementsDeviceOperation, Driver!Spec

(* So does a disk, whose seeks are operations like any other. *)
THEOREM DiskImplementsDevice == DiskSpec => ImplementsDeviceOperation
<1>1. DiskInit => Driver!Init
  BY BlockBegins DEF DiskInit
<1>2. [DiskNext]_diskVars => [Driver!Next]_(Driver!vars)
  <2>1. ASSUME NEW cyl, Seek(cyl)
        PROVE  [Driver!Next]_(Driver!vars)
    <3>1. CASE OnDisk(cyl)
      <4>1. ~Busy /\ Busy' /\ request' = FALSE
        BY <2>1, <3>1 DEF Seek, Command, Accepts, Begin, Busy
      <4> QED
        BY <4>1 DEF Driver!Next, Driver!Accept
    <3>2. CASE ~OnDisk(cyl)
      BY <2>1, <3>2, CommandView DEF Seek
    <3> QED
      BY <3>1, <3>2
  <2>2. CompleteSeek => Driver!Next
    BY EndView DEF CompleteSeek, InProgress
  <2> QED
    BY <2>1, <2>2, BlockView, TransferView, CompletionView DEF DiskNext, diskVars
<1> QED
  BY <1>1, <1>2, PTL DEF DiskSpec, ImplementsDeviceOperation, Driver!Spec

-----------------------------------------------------------------------------
(* The printer *)

(* What is going to be printed is still what was asked for: the register
   cannot be written meanwhile. *)
CharacterIsKept ==
    Printer!Busy /\ op.command = "PRNTCHR" => data0 = asked

PrinterInv == CharacterIsKept /\ Printer!PrintsWhatWasAsked

PrinterCommands == {"RESET", "ACK", "PRNTCHR", "unknown"}

LEMMA PrinterCommandStep ==
    ASSUME PrinterInv, NEW c \in PrinterCommands, Printer!Command(c)
    PROVE  PrinterInv' /\ [Printer!Driver!Next]_(Printer!Driver!vars)
<1>1. /\ ~Printer!Busy /\ data0' = data0 /\ paper' = paper /\ reported' = reported
      /\ op'.command = c /\ (c = "PRNTCHR" => asked' = data0)
  BY DEF Printer!Command, Printer!Accepts
<1>2. PrinterInv'
  BY <1>1 DEF PrinterInv, CharacterIsKept, Printer!PrintsWhatWasAsked
<1>3. CASE c \in {"RESET", "PRNTCHR"}
  <2>1. status' = "BUSY" /\ request' = FALSE
    BY <1>3 DEF Printer!Command
  <2> QED
    BY <1>1, <1>2, <2>1 DEF Printer!Busy, Printer!Driver!Next, Printer!Driver!Accept
<1>4. CASE c = "ACK"
  <2>1. status' = "READY" /\ request' = FALSE
    BY <1>4 DEF Printer!Command
  <2> QED
    BY <1>1, <1>2, <2>1 DEF Printer!Busy, Printer!Driver!Next,
                            Printer!Driver!Acknowledge
<1>5. CASE c = "unknown"
  <2>1. status' = "ILOPERR" /\ request' = TRUE
    BY <1>5 DEF Printer!Command
  <2> QED
    BY <1>1, <1>2, <2>1 DEF Printer!Busy, Printer!Driver!Next, Printer!Driver!Refuse
<1> QED
  BY <1>3, <1>4, <1>5 DEF PrinterCommands

LEMMA PrinterCompletionStep ==
    ASSUME PrinterInv, Printer!CompleteReset \/ Printer!CompletePrint
    PROVE  PrinterInv' /\ [Printer!Driver!Next]_(Printer!Driver!vars)
<1>1. /\ Printer!Busy /\ status' \in {"READY", "PRNTERR"} /\ request' = TRUE
  BY DEF Printer!CompleteReset, Printer!CompletePrint, Printer!Complete
<1>2. ~Printer!Busy' /\ CharacterIsKept'
  BY <1>1 DEF Printer!Busy, CharacterIsKept
<1>3. Printer!PrintsWhatWasAsked'
  BY <1>1 DEF Printer!CompleteReset, Printer!CompletePrint, PrinterInv,
              CharacterIsKept, Printer!PrintsWhatWasAsked
<1> QED
  BY <1>1, <1>2, <1>3 DEF PrinterInv, Printer!Driver!Next, Printer!Driver!Complete

LEMMA PrinterStep ==
    ASSUME PrinterInv, [Printer!PrinterNext]_(Printer!printerVars)
    PROVE  PrinterInv' /\ [Printer!Driver!Next]_(Printer!Driver!vars)
<1>1. ASSUME NEW c \in Contents, Printer!WriteData0(c)
      PROVE  PrinterInv' /\ [Printer!Driver!Next]_(Printer!Driver!vars)
  BY <1>1 DEF Printer!WriteData0, Printer!Writable, Printer!Accepts, Printer!Busy,
              PrinterInv, CharacterIsKept, Printer!PrintsWhatWasAsked,
              Printer!Driver!vars
<1>2. ASSUME NEW working \in BOOLEAN, Printer!SetCondition(working)
      PROVE  PrinterInv' /\ [Printer!Driver!Next]_(Printer!Driver!vars)
  BY <1>2 DEF Printer!SetCondition, Printer!Busy, PrinterInv, CharacterIsKept,
              Printer!PrintsWhatWasAsked, Printer!Driver!vars
<1>3. CASE UNCHANGED Printer!printerVars
  BY <1>3 DEF Printer!printerVars, Printer!Busy, PrinterInv, CharacterIsKept,
              Printer!PrintsWhatWasAsked, Printer!Driver!vars
<1> QED
  BY <1>1, <1>2, <1>3, PrinterCommandStep, PrinterCompletionStep
  DEF Printer!PrinterNext, PrinterCommands

LEMMA PrinterStart == Printer!PrinterInit => PrinterInv /\ Printer!Driver!Init
BY DEF Printer!PrinterInit, PrinterInv, CharacterIsKept,
       Printer!PrintsWhatWasAsked, Printer!Busy, Printer!Driver!Init

(* Whatever the guest writes while a character is being printed, the paper
   holds what was in the register at each command that succeeded. *)
THEOREM AlwaysPrintsWhatWasAsked == StorageSpec => []PrintsWhatWasAsked
<1> DEFINE Inv == kind = "printer" => PrinterInv
<1>1. StorageInit => Inv
  BY PrinterStart DEF StorageInit
<1>2. Inv /\ [StorageNext]_storageVars => Inv'
  BY PrinterStep DEF StorageNext, storageVars, printVars, diskVars, blockVars,
                     Printer!printerVars
<1>3. Inv => PrintsWhatWasAsked
  BY DEF PrinterInv, PrintsWhatWasAsked
<1> QED
  BY <1>1, <1>2, <1>3, PTL DEF StorageSpec

(* Every step of the printer is one of the abstract device or none: a command
   is taken when no operation is in progress, and each one ends in a request. *)
THEOREM PrinterIsDevice == Printer!PrinterSpec => Printer!PrinterImplementsDevice
BY PrinterStart, PrinterStep, PTL
DEF Printer!PrinterSpec, Printer!PrinterImplementsDevice, Printer!Driver!Spec

-----------------------------------------------------------------------------
(* Images: the numbers of blocks *)

(* The numbers that mkdev has put into the header: sizes are positive. *)
Sized(magic, parms) ==
    \/ magic = "disk" /\ \A i \in 1..3 : parms[i] \in Nat \ {0}
    \/ magic = "flash" /\ parms[1] \in Nat \ {0}

IsFile(f) ==
    /\ f = Files!BlockFile(f.magic, f.parms, f.blocks)
    /\ f.blocks \in Seq({f.blocks[i] : i \in DOMAIN f.blocks})
    /\ Sized(f.magic, f.parms)

AddressesIn(f) ==
    IF f.magic = "disk"
    THEN (0..(f.parms[1] - 1)) \X (0..(f.parms[2] - 1)) \X (0..(f.parms[3] - 1))
    ELSE {<<b>> : b \in 0..(f.parms[1] - 1)}

BlocksIn(f) == Files!BlocksOf(f.magic, f.parms)

NumberIn(f, a) ==
    IF Len(a) = 3 THEN a[1] * f.parms[2] * f.parms[3] + a[2] * f.parms[3] + a[3]
    ELSE a[1]

(* A number is its quotient and its remainder. *)
LEMMA Quotient ==
    ASSUME NEW S \in Nat \ {0}, NEW A \in Nat, NEW B \in Nat,
           NEW s \in 0..(S - 1), NEW t \in 0..(S - 1), A * S + s = B * S + t
    PROVE  A = B /\ s = t
<1>1. ASSUME NEW x \in Nat, NEW y \in Nat, NEW u \in 0..(S - 1), NEW v \in 0..(S - 1),
             x < y
      PROVE  x * S + u < y * S + v
  <2>1. y - x - 1 \in Nat /\ y = x + 1 + (y - x - 1)
    BY <1>1
  <2>2. PICK d \in Nat : y = x + 1 + d
    BY <2>1
  <2>3. d * S \in Nat /\ x * S \in Nat
    OBVIOUS
  <2>4. y * S = x * S + S + d * S
    BY <2>2
  <2> QED
    BY <2>3, <2>4
<1>2. ~(A < B) /\ ~(B < A)
  BY <1>1
<1>3. A = B
  BY <1>2
<1> QED
  BY <1>3

(* A product of limits bounds the number of a block. *)
LEMMA Bounded ==
    ASSUME NEW P \in Nat \ {0}, NEW S \in Nat \ {0},
           NEW A \in 0..(P - 1), NEW s \in 0..(S - 1)
    PROVE  A * S + s \in 0..(P * S - 1)
<1>1. PICK d \in Nat : P = A + 1 + d
  <2>1. P - A - 1 \in Nat /\ P = A + 1 + (P - A - 1)
    OBVIOUS
  <2> QED
    BY <2>1
<1>2. d * S \in Nat /\ A * S \in Nat /\ P * S = A * S + S + d * S
  BY <1>1
<1> QED
  BY <1>2

LEMMA DiskNumber ==
    ASSUME NEW H \in Nat \ {0}, NEW S \in Nat \ {0}, NEW C \in Nat \ {0},
           NEW c \in 0..(C - 1), NEW h \in 0..(H - 1), NEW s \in 0..(S - 1)
    PROVE  /\ c * H + h \in 0..(C * H - 1)
           /\ c * H * S + h * S + s = (c * H + h) * S + s
           /\ c * H * S + h * S + s \in 0..(C * H * S - 1)
<1>1. c * H + h \in 0..(C * H - 1)
  BY Bounded
<1>2. C * H \in Nat \ {0}
  BY <1>1
<1>3. (c * H + h) * S + s \in 0..((C * H) * S - 1)
  BY <1>1, <1>2, Bounded
<1>4. c * H * S + h * S + s = (c * H + h) * S + s
  OBVIOUS
<1> QED
  BY <1>1, <1>3, <1>4

(* No two blocks of a file have the same number, and all are in the file. *)
LEMMA Numbers ==
    ASSUME NEW f, IsFile(f)
    PROVE  /\ BlocksIn(f) \in Nat
           /\ \A a \in AddressesIn(f) : NumberIn(f, a) \in 0..(BlocksIn(f) - 1)
           /\ \A a, b \in AddressesIn(f) : NumberIn(f, a) = NumberIn(f, b) => a = b
<1>1. CASE f.magic = "disk"
  <2> DEFINE C == f.parms[1]
             H == f.parms[2]
             S == f.parms[3]
  <2>1. C \in Nat \ {0} /\ H \in Nat \ {0} /\ S \in Nat \ {0}
    BY <1>1 DEF IsFile, Sized
  <2>2. AddressesIn(f) = (0..(C - 1)) \X (0..(H - 1)) \X (0..(S - 1))
    BY <1>1 DEF AddressesIn
  <2>3. BlocksIn(f) = C * H * S
    BY <1>1 DEF BlocksIn, Files!BlocksOf
  <2>4. \A a : Len(a) = 3 => NumberIn(f, a) = a[1] * H * S + a[2] * S + a[3]
    BY DEF NumberIn
  <2> HIDE DEF C, H, S
  <2>5. ASSUME NEW c \in 0..(C - 1), NEW h \in 0..(H - 1), NEW s \in 0..(S - 1)
        PROVE  /\ NumberIn(f, <<c, h, s>>) = (c * H + h) * S + s
               /\ NumberIn(f, <<c, h, s>>) \in 0..(C * H * S - 1)
               /\ c * H + h \in Nat
    <3>1. NumberIn(f, <<c, h, s>>) = c * H * S + h * S + s
      BY <2>4
    <3> QED
      BY <2>1, <3>1, DiskNumber
  <2>6. ASSUME NEW c \in 0..(C - 1), NEW h \in 0..(H - 1), NEW s \in 0..(S - 1),
               NEW d \in 0..(C - 1), NEW g \in 0..(H - 1), NEW r \in 0..(S - 1),
               NumberIn(f, <<c, h, s>>) = NumberIn(f, <<d, g, r>>)
        PROVE  c = d /\ h = g /\ s = r
    <3>1. (c * H + h) * S + s = (d * H + g) * S + r
      BY <2>5, <2>6
    <3>2. c * H + h \in Nat /\ d * H + g \in Nat
      BY <2>5
    <3>3. c * H + h = d * H + g /\ s = r
      BY <2>1, <3>1, <3>2, Quotient
    <3>4. c = d /\ h = g
      BY <2>1, <3>3, Quotient
    <3> QED
      BY <3>3, <3>4
  <2>7. ASSUME NEW a \in AddressesIn(f)
        PROVE  \E c \in 0..(C - 1), h \in 0..(H - 1), s \in 0..(S - 1) : a = <<c, h, s>>
    BY <2>2
  <2>8. C * H * S \in Nat
    BY <2>1
  <2> QED
    BY <2>3, <2>5, <2>6, <2>7, <2>8
<1>2. CASE f.magic = "flash"
  <2>1. f.parms[1] \in Nat \ {0}
    BY <1>2 DEF IsFile, Sized
  <2>2. AddressesIn(f) = {<<b>> : b \in 0..(f.parms[1] - 1)} /\ BlocksIn(f) = f.parms[1]
    BY <1>2 DEF AddressesIn, BlocksIn, Files!BlocksOf
  <2>3. \A b : Len(<<b>>) # 3 /\ NumberIn(f, <<b>>) = b
    BY DEF NumberIn
  <2> QED
    BY <2>1, <2>2, <2>3
<1> QED
  BY <1>1, <1>2 DEF IsFile, Sized
-----------------------------------------------------------------------------
(* Images: what is in a file *)

PlaceIn(f, a) == NumberIn(f, a) % (2 * Reach)

(* An image that was made has all of its blocks, and no write can make it
   longer. *)
MadeInv ==
    made # NoFile =>
        /\ IsFile(file)
        /\ file.magic = made.kind /\ file.parms = made.parms
        /\ Len(file.blocks) = BlocksIn(file)

(* A device has the parameters of its file, which nothing replaces meanwhile. *)
OpenInv ==
    device # NoDevice =>
        /\ IsFile(file)
        /\ device.kind = file.magic /\ device.parms = file.parms

(* What the guest wrote is in the file, whether or not the device is open. *)
Holds(f, a, c) ==
    LET p == PlaceIn(f, a) IN
    /\ p < Reach /\ p < Len(f.blocks) /\ f.blocks[p + 1] = c

HeldInv ==
    held # <<>> =>
        /\ IsFile(file)
        /\ DOMAIN held \subseteq AddressesIn(file)
        /\ BlocksIn(file) <= 2 * Reach =>
              \A a \in DOMAIN held : Holds(file, a, held[a])

FilesInv ==
    /\ file # NoFile => IsFile(file)
    /\ MadeInv /\ OpenInv /\ HeldInv

(* A function on 1..n is a sequence of its values. *)
LEMMA BlocksAreSequence ==
    ASSUME NEW n \in Nat, NEW g, g = [i \in 1..n |-> g[i]]
    PROVE  g \in Seq({g[i] : i \in DOMAIN g}) /\ Len(g) = n
<1> DEFINE V == {g[i] : i \in DOMAIN g}
<1>1. DOMAIN g = 1..n
  OBVIOUS
<1>2. \A i \in 1..n : g[i] \in V
  BY <1>1
<1> HIDE DEF V
<1>3. g \in [1..n -> V]
  BY <1>1, <1>2
<1>4. g \in Seq(V) /\ Len(g) = n
  BY <1>3
<1> QED
  BY <1>4 DEF V

LEMMA SequenceOfBlocks ==
    ASSUME NEW s, s \in Seq({s[i] : i \in DOMAIN s})
    PROVE  Len(s) \in Nat /\ DOMAIN s = 1..Len(s) /\ s = [i \in 1..Len(s) |-> s[i]]
OBVIOUS

LEMMA SizedBlocks ==
    ASSUME NEW magic, NEW parms, Sized(magic, parms)
    PROVE  Files!BlocksOf(magic, parms) \in Nat
<1>1. CASE magic = "disk" /\ \A i \in 1..3 : parms[i] \in Nat \ {0}
  <2>1. parms[1] \in Nat /\ parms[2] \in Nat /\ parms[3] \in Nat
    BY <1>1
  <2>2. Files!BlocksOf(magic, parms) = parms[1] * parms[2] * parms[3]
    BY <1>1 DEF Files!BlocksOf
  <2> QED
    BY <2>1, <2>2
<1>2. CASE magic = "flash" /\ parms[1] \in Nat \ {0}
  BY <1>2 DEF Files!BlocksOf
<1> QED
  BY <1>1, <1>2 DEF Sized

(* A file that has been written, to its end or not. *)
LEMMA WrittenFile ==
    ASSUME NEW magic, NEW parms, Sized(magic, parms), NEW data,
           NEW n \in 0..Files!BlocksOf(magic, parms)
    PROVE  LET blocks == Files!Written(Files!BlocksOf(magic, parms), data)
               f == Files!BlockFile(magic, parms, SubSeq(blocks, 1, n))
           IN  /\ Files!BlocksOf(magic, parms) \in Nat
               /\ Len(blocks) = Files!BlocksOf(magic, parms)
               /\ IsFile(f) /\ f.magic = magic /\ f.parms = parms
               /\ IsFile(Files!BlockFile(magic, parms, blocks))
               /\ Len(f.blocks) = n
<1> DEFINE N == Files!BlocksOf(magic, parms)
           blocks == Files!Written(N, data)
           g == SubSeq(blocks, 1, n)
<1>1. N \in Nat
  BY SizedBlocks
<1>2. n \in 0..N
  OBVIOUS
<1> HIDE DEF N
<1>3. blocks = [i \in 1..N |-> blocks[i]]
  BY DEF Files!Written
<1> HIDE DEF blocks
<1>4. blocks \in Seq({blocks[i] : i \in DOMAIN blocks}) /\ Len(blocks) = N
  BY <1>1, <1>3, BlocksAreSequence
<1>5. n \in Nat /\ g = [i \in 1..n |-> g[i]]
  BY <1>1, <1>2
<1> HIDE DEF g
<1>6. g \in Seq({g[i] : i \in DOMAIN g}) /\ Len(g) = n
  BY <1>5, BlocksAreSequence
<1>7. IsFile(Files!BlockFile(magic, parms, g)) /\ IsFile(Files!BlockFile(magic, parms, blocks))
  BY <1>4, <1>6 DEF IsFile, Files!BlockFile
<1> QED
  BY <1>1, <1>4, <1>6, <1>7 DEF N, blocks, g, Files!BlockFile

-----------------------------------------------------------------------------
(* Images: the steps *)

LEMMA WriteImageStep ==
    ASSUME FilesInv, NEW magic, NEW parms, Sized(magic, parms), NEW data,
           device = NoDevice, device' = NoDevice, Files!WriteImage(magic, parms, data)
    PROVE  FilesInv'
<1> DEFINE N == Files!BlocksOf(magic, parms)
           blocks == Files!Written(N, data)
           Part(n) == Files!BlockFile(magic, parms, SubSeq(blocks, 1, n))
           whole == Files!BlockFile(magic, parms, blocks)
<1>1. held' = <<>>
  BY DEF Files!WriteImage
<1>2. OpenInv' /\ HeldInv'
  BY <1>1 DEF OpenInv, HeldInv
<1>3. N \in Nat /\ Len(blocks) = N /\ IsFile(whole)
      /\ \A n \in 0..N : IsFile(Part(n))
  <2>1. N \in Nat
    BY SizedBlocks
  <2>2. 0 \in 0..N
    BY <2>1
  <2> QED
    BY <2>1, <2>2, WrittenFile
<1>4. \/ file' = whole /\ made' = [kind |-> magic, parms |-> parms]
      \/ made' = NoFile /\ \E n \in 0..(N - 1) : file' = Part(n)
      \/ file' \in {file, NoFile} /\ made' = NoFile
  BY <1>3 DEF Files!WriteImage
<1>5. whole.magic = magic /\ whole.parms = parms /\ whole.blocks = blocks
  BY DEF Files!BlockFile
<1> HIDE DEF Part
<1>6. (file # NoFile => IsFile(file))'
  <2>1. IsFile(file') \/ file' \in {file, NoFile}
    BY <1>3, <1>4
  <2> QED
    BY <2>1 DEF FilesInv, IsFile
<1>7. MadeInv'
  <2> SUFFICES ASSUME made' # NoFile PROVE MadeInv'
    BY DEF MadeInv
  <2>1. file' = whole /\ made' = [kind |-> magic, parms |-> parms]
    BY <1>4
  <2>2. Len(whole.blocks) = BlocksIn(whole)
    BY <1>3, <1>5 DEF BlocksIn
  <2> HIDE DEF whole
  <2>3. IsFile(file') /\ Len(file'.blocks) = BlocksIn(file')
    BY <1>3, <2>1, <2>2
  <2> QED
    BY <1>5, <2>1, <2>3 DEF MadeInv, IsFile, BlocksIn
<1> QED
  BY <1>2, <1>6, <1>7 DEF FilesInv

LEMMA DiskSized ==
    ASSUME NEW args, Files!Decodes(args, Files!DiskLimits)
    PROVE  Sized("disk", Files!decodeDiskP(args))
<1> DEFINE parms == Files!decodeDiskP(args)
<1>1. \A i \in DOMAIN args : Files!StrToWord(args[i]) \in Files!DiskLimits[i]
  BY DEF Files!Decodes
<1>2. {MAXCYL, MAXHEAD, MAXSECT} \subseteq Nat
  BY ImagesAssumption DEF ImagesAssumption
<1>3. /\ 1 \in DOMAIN args => Files!StrToWord(args[1]) \in 1..MAXCYL
      /\ 2 \in DOMAIN args => Files!StrToWord(args[2]) \in 1..MAXHEAD
      /\ 3 \in DOMAIN args => Files!StrToWord(args[3]) \in 1..MAXSECT
  BY <1>1 DEF Files!DiskLimits
<1>4. /\ parms[1] = IF 1 \in DOMAIN args THEN Files!StrToWord(args[1]) ELSE 2
      /\ parms[2] = IF 2 \in DOMAIN args THEN Files!StrToWord(args[2]) ELSE 1
      /\ parms[3] = IF 3 \in DOMAIN args THEN Files!StrToWord(args[3]) ELSE 2
  BY DEF Files!decodeDiskP, Files!DiskDefaults
<1> HIDE DEF parms
<1>5. parms[1] \in Nat \ {0} /\ parms[2] \in Nat \ {0} /\ parms[3] \in Nat \ {0}
  BY <1>2, <1>3, <1>4
<1>6. \A i \in 1..3 : parms[i] \in Nat \ {0}
  BY <1>5
<1> QED
  BY <1>6 DEF Sized, parms

LEMMA FlashSized ==
    ASSUME NEW args, Files!Decodes(args, Files!FlashLimits)
    PROVE  Sized("flash", Files!decodeFlashP(args))
<1>1. 1 \in DOMAIN args => Files!StrToWord(args[1]) \in 1..MAXBLOCKS
  BY DEF Files!Decodes, Files!FlashLimits
<1>2. Files!decodeFlashP(args)[1] =
        IF 1 \in DOMAIN args THEN Files!StrToWord(args[1]) ELSE 3
  BY DEF Files!decodeFlashP, Files!FlashDefaults
<1>3. MAXBLOCKS \in Nat
  BY ImagesAssumption DEF ImagesAssumption
<1> QED
  BY <1>1, <1>2, <1>3 DEF Sized

LEMMA MakeStep ==
    ASSUME FilesInv,
           \/ \E args \in DiskArgs : Files!mkDisk(args)
           \/ \E args \in FlashArgs, data \in Data : Files!mkFlash(args, data)
    PROVE  FilesInv'
<1>1. ASSUME Files!Refuse, UNCHANGED device
      PROVE  FilesInv'
  BY <1>1 DEF Files!Refuse, FilesInv, IsFile, MadeInv, OpenInv, HeldInv, Holds,
              PlaceIn, NumberIn, AddressesIn, BlocksIn
<1>2. ASSUME NEW args \in DiskArgs, Files!mkDisk(args)
      PROVE  FilesInv'
  <2>1. device = NoDevice /\ device' = device
    BY <1>2 DEF Files!mkDisk
  <2>2. CASE Files!Decodes(args, Files!DiskLimits)
    BY <1>2, <2>1, <2>2, DiskSized, WriteImageStep DEF Files!mkDisk
  <2>3. CASE ~Files!Decodes(args, Files!DiskLimits)
    BY <1>1, <1>2, <2>1, <2>3 DEF Files!mkDisk
  <2> QED
    BY <2>2, <2>3
<1>3. ASSUME NEW args \in FlashArgs, NEW data \in Data, Files!mkFlash(args, data)
      PROVE  FilesInv'
  <2>1. device = NoDevice /\ device' = device
    BY <1>3 DEF Files!mkFlash
  <2>2. CASE Files!Decodes(args, Files!FlashLimits)
    BY <1>3, <2>1, <2>2, FlashSized, WriteImageStep DEF Files!mkFlash
  <2>3. CASE ~Files!Decodes(args, Files!FlashLimits)
    BY <1>1, <1>3, <2>1, <2>3 DEF Files!mkFlash
  <2> QED
    BY <2>2, <2>3
<1> QED
  BY <1>2, <1>3

LEMMA OpenStep ==
    ASSUME FilesInv, NEW magic, Files!Open(magic)
    PROVE  FilesInv'
BY DEF Files!Open, FilesInv, IsFile, MadeInv, OpenInv, HeldInv, Holds,
       PlaceIn, NumberIn, AddressesIn, BlocksIn

LEMMA CloseStep ==
    ASSUME FilesInv, Files!Close
    PROVE  FilesInv'
BY DEF Files!Close, FilesInv, IsFile, MadeInv, OpenInv, HeldInv, Holds,
       PlaceIn, NumberIn, AddressesIn, BlocksIn

(* A write of block a leaves every other block where it is, in a file whose
   blocks a word can tell apart. *)
LEMMA OthersKept ==
    ASSUME NEW f, IsFile(f), BlocksIn(f) <= 2 * Reach,
           NEW a \in AddressesIn(f), NEW b \in AddressesIn(f), a # b
    PROVE  PlaceIn(f, a) # PlaceIn(f, b)
<1>1. BlocksIn(f) \in Nat /\ NumberIn(f, a) # NumberIn(f, b)
      /\ NumberIn(f, a) \in 0..(BlocksIn(f) - 1) /\ NumberIn(f, b) \in 0..(BlocksIn(f) - 1)
  BY Numbers
<1>2. Reach \in Nat \ {0}
  BY ImagesAssumption DEF ImagesAssumption
<1>3. \A x \in 0..(2 * Reach - 1) : x % (2 * Reach) = x
  BY <1>2
<1>4. NumberIn(f, a) \in 0..(2 * Reach - 1) /\ NumberIn(f, b) \in 0..(2 * Reach - 1)
  BY <1>1, <1>2
<1> QED
  BY <1>1, <1>3, <1>4 DEF PlaceIn

LEMMA PlaceBounds ==
    ASSUME NEW f, IsFile(f), NEW a \in AddressesIn(f)
    PROVE  /\ PlaceIn(f, a) \in Nat
           /\ PlaceIn(f, a) <= NumberIn(f, a)
           /\ PlaceIn(f, a) < BlocksIn(f)
<1>1. NumberIn(f, a) \in 0..(BlocksIn(f) - 1) /\ BlocksIn(f) \in Nat
  BY Numbers
<1>2. Reach \in Nat \ {0}
  BY ImagesAssumption DEF ImagesAssumption
<1>3. \A x \in Nat, m \in Nat \ {0} : x % m \in 0..(m - 1) /\ x % m <= x
  <2> TAKE x \in Nat, m \in Nat \ {0}
  <2>1. x % m \in 0..(m - 1) /\ (x < m => x % m = x)
    OBVIOUS
  <2> QED
    BY <2>1
<1>4. 2 * Reach \in Nat \ {0}
  BY <1>2
<1>5. NumberIn(f, a) \in Nat
  BY <1>1
<1> HIDE DEF PlaceIn
<1>6. PlaceIn(f, a) \in 0..(2 * Reach - 1) /\ PlaceIn(f, a) <= NumberIn(f, a)
  BY <1>3, <1>4, <1>5 DEF PlaceIn
<1> QED
  BY <1>1, <1>2, <1>6

LEMMA WriteStep ==
    ASSUME FilesInv, device # NoDevice, NEW a \in Files!Addresses,
           NEW c, Files!WriteBlock(a, c)
    PROVE  FilesInv'
<1> DEFINE f == file
           p == PlaceIn(f, a)
           L == IF p < Len(f.blocks) THEN Len(f.blocks) ELSE p + 1
           blocks == [i \in 1..L |->
                        IF i = p + 1 THEN c
                        ELSE IF i <= Len(f.blocks) THEN f.blocks[i] ELSE Files!Empty]
           g == Files!BlockFile(f.magic, f.parms, blocks)
<1>1. IsFile(f) /\ a \in AddressesIn(f) /\ Files!Place(a) = p
  BY DEF FilesInv, OpenInv, Files!Addresses, AddressesIn, Files!Place, PlaceIn,
         Files!Number, NumberIn
<1>2. p < Reach /\ file' = g
      /\ held' = [b \in DOMAIN held \cup {a} |-> IF b = a THEN c ELSE held[b]]
      /\ UNCHANGED <<made, device>>
  <2>1. f = Files!BlockFile(f.magic, f.parms, f.blocks)
    BY <1>1 DEF IsFile
  <2>2. Files!Seeks(a) /\ UNCHANGED <<made, device>>
        /\ held' = [b \in DOMAIN held \cup {a} |-> IF b = a THEN c ELSE held[b]]
    BY DEF Files!WriteBlock
  <2>3. file' = [file EXCEPT !.blocks = blocks]
    BY <1>1 DEF Files!WriteBlock
  <2> HIDE DEF blocks
  <2> QED
    BY <1>1, <2>1, <2>2, <2>3 DEF Files!BlockFile, Files!Seeks
<1>3. p \in Nat /\ p < BlocksIn(f) /\ BlocksIn(f) \in Nat /\ Len(f.blocks) \in Nat
  BY <1>1, PlaceBounds, Numbers, SequenceOfBlocks DEF IsFile
<1>4. L \in Nat /\ p < L /\ Len(f.blocks) <= L
  BY <1>3
<1>5. blocks \in Seq({blocks[i] : i \in DOMAIN blocks}) /\ Len(blocks) = L
  <2>1. blocks = [i \in 1..L |-> blocks[i]]
    OBVIOUS
  <2> HIDE DEF blocks, L
  <2> QED
    BY <1>4, <2>1, BlocksAreSequence
<1>6. /\ blocks[p + 1] = c
      /\ \A q \in Nat : q # p /\ q < Len(f.blocks) => blocks[q + 1] = f.blocks[q + 1]
  <2>1. p + 1 \in 1..L /\ \A q \in Nat : q < Len(f.blocks) => q + 1 \in 1..L
    BY <1>3, <1>4
  <2> QED
    BY <1>3, <2>1
<1> HIDE DEF blocks, L
<1>7. /\ IsFile(g) /\ g.magic = f.magic /\ g.parms = f.parms /\ g.blocks = blocks
      /\ AddressesIn(g) = AddressesIn(f) /\ BlocksIn(g) = BlocksIn(f)
      /\ \A b : PlaceIn(g, b) = PlaceIn(f, b)
  BY <1>1, <1>5 DEF IsFile, Files!BlockFile, AddressesIn, BlocksIn, PlaceIn, NumberIn
<1> HIDE DEF g
<1>8. file' = g /\ IsFile(file')
  BY <1>2, <1>7
<1>9. OpenInv'
  BY <1>2, <1>7 DEF FilesInv, OpenInv, IsFile, Sized
<1>10. MadeInv'
  <2> SUFFICES ASSUME made # NoFile
               PROVE  g.magic = made.kind /\ g.parms = made.parms /\ Len(g.blocks) = BlocksIn(g)
    BY <1>2, <1>7 DEF MadeInv, IsFile, BlocksIn, Sized
  <2>1. f.magic = made.kind /\ f.parms = made.parms /\ Len(f.blocks) = BlocksIn(f)
    BY DEF FilesInv, MadeInv
  <2>2. L = Len(f.blocks)
    BY <1>3, <2>1 DEF L
  <2> QED
    BY <1>5, <1>7, <2>1, <2>2
<1>11. HeldInv'
  <2>1. DOMAIN held \subseteq AddressesIn(f)
    BY DEF FilesInv, HeldInv
  <2>2. DOMAIN held' = DOMAIN held \cup {a}
    BY <1>2
  <2>3. DOMAIN held' \subseteq AddressesIn(g)
    BY <1>1, <1>7, <2>1, <2>2
  <2>4. ASSUME BlocksIn(g) <= 2 * Reach, NEW b \in DOMAIN held'
        PROVE  Holds(g, b, held'[b])
    <3>1. CASE b = a
      <4>1. held'[b] = c
        BY <1>2, <3>1
      <4> QED
        BY <1>2, <1>4, <1>5, <1>6, <1>7, <3>1, <4>1 DEF Holds
    <3>2. CASE b # a
      <4>1. b \in DOMAIN held /\ b \in AddressesIn(f) /\ held'[b] = held[b]
        BY <1>2, <2>1, <2>4, <3>2
      <4>2. held # <<>>
        BY <4>1
      <4>3. Holds(f, b, held[b])
        BY <1>7, <2>4, <4>1, <4>2 DEF FilesInv, HeldInv
      <4>4. PlaceIn(f, b) # p /\ PlaceIn(f, b) \in Nat
        BY <1>1, <1>7, <2>4, <3>2, <4>1, OthersKept, PlaceBounds
      <4> QED
        BY <1>3, <1>4, <1>5, <1>6, <1>7, <4>1, <4>3, <4>4 DEF Holds
    <3> QED
      BY <3>1, <3>2
  <2> QED
    BY <1>8, <2>3, <2>4 DEF HeldInv, IsFile, AddressesIn, BlocksIn, Holds, PlaceIn,
                            NumberIn, Sized
<1> QED
  BY <1>2, <1>8, <1>9, <1>10, <1>11 DEF FilesInv, IsFile

LEMMA FilesAreRight ==
    ASSUME FilesInv
    PROVE  Files!ImagesInv
<1>1. ASSUME device # NoDevice
      PROVE  /\ IsFile(file) /\ Files!Addresses = AddressesIn(file)
             /\ Files!BlocksOf(device.kind, device.parms) = BlocksIn(file)
             /\ \A a : Files!Place(a) = PlaceIn(file, a)
  BY <1>1 DEF FilesInv, OpenInv, Files!Addresses, AddressesIn, BlocksIn, Files!Place,
              PlaceIn, Files!Number, NumberIn
<1>2. Files!MadeIsWhole
  <2> SUFFICES ASSUME made # NoFile PROVE Files!MadeIsWhole
    BY DEF Files!MadeIsWhole
  <2>1. IsFile(file) /\ file.magic = made.kind /\ file.parms = made.parms
        /\ Len(file.blocks) = BlocksIn(file)
    BY DEF FilesInv, MadeInv
  <2>2. device # NoDevice => device.kind = made.kind /\ device.parms = made.parms
    BY <2>1 DEF FilesInv, OpenInv
  <2>3. ASSUME device # NoDevice, BlocksIn(file) <= Reach, NEW a \in AddressesIn(file)
        PROVE  Files!ReadWorks(a)
    <3>1. /\ PlaceIn(file, a) \in Nat /\ PlaceIn(file, a) < BlocksIn(file)
          /\ BlocksIn(file) \in Nat /\ Reach \in Nat
      BY <2>1, PlaceBounds, Numbers, ImagesAssumption DEF ImagesAssumption
    <3>2. PlaceIn(file, a) < Reach
      BY <2>3, <3>1
    <3> QED
      BY <1>1, <2>1, <2>3, <3>1, <3>2 DEF Files!ReadWorks, Files!Seeks
  <2> QED
    BY <1>1, <2>1, <2>2, <2>3 DEF Files!MadeIsWhole, BlocksIn
<1>3. Files!KeepsWhatWasWritten
  <2> SUFFICES ASSUME device # NoDevice, BlocksIn(file) <= 2 * Reach,
                      NEW a \in DOMAIN held
               PROVE  Files!ReadWorks(a) /\ Files!ReadBlock(a) = held[a]
    BY <1>1 DEF Files!KeepsWhatWasWritten
  <2>1. held # <<>>
    OBVIOUS
  <2>2. Holds(file, a, held[a])
    BY <2>1 DEF FilesInv, HeldInv
  <2> QED
    BY <1>1, <2>2 DEF Holds, Files!ReadWorks, Files!Seeks, Files!ReadBlock
<1> QED
  BY <1>2, <1>3 DEF Files!ImagesInv

(* What mkdev reports as made is whole, and what was written to a block is
   found there, for images of any size and whatever happens in between. *)
THEOREM ImagesAlwaysRight == StorageSpec => []ImagesInv
<1> DEFINE Inv == kind = "images" => FilesInv
<1>1. StorageInit => Inv
  BY DEF StorageInit, Files!Init, FilesInv, MadeInv, OpenInv, HeldInv
<1>2. Inv /\ [StorageNext]_storageVars => Inv'
  <2> SUFFICES ASSUME kind = "images", FilesInv, [StorageNext]_storageVars
               PROVE  FilesInv'
    BY DEF StorageNext, storageVars
  <2>1. Files!Next \/ UNCHANGED imageVars
    BY DEF StorageNext, storageVars
  <2>2. CASE UNCHANGED imageVars
    BY <2>2 DEF imageVars, FilesInv, IsFile, MadeInv, OpenInv, HeldInv, Holds,
                PlaceIn, NumberIn, AddressesIn, BlocksIn
  <2>3. CASE Files!Next
    BY <2>3, MakeStep, OpenStep, CloseStep, WriteStep DEF Files!Next
  <2> QED
    BY <2>1, <2>2, <2>3
<1>3. Inv => ImagesInv
  BY FilesAreRight DEF ImagesInv
<1> QED
  BY <1>1, <1>2, <1>3, PTL DEF StorageSpec

-----------------------------------------------------------------------------
(* The bus: one word *)

InWords == Words \cup {0, 1, MAXWORDVAL}

Memories == [ram      : [0..(RamSize - 1) -> InWords],
             biosdata : [0..(Memory!BiosDataSize - 1) -> InWords],
             rom      : [bios : [0..(BiosSize - 1) -> InWords],
                         boot : [0..(BootSize - 1) -> InWords]],
             regs     : [{"timer", "device"} -> InWords],
             tpr      : [Cpus -> InWords]]

(* No address belongs to two areas, and each has its place in its own. *)
LEMMA Areas ==
    ASSUME NEW a \in Nat
    PROVE  /\ Memory!InRam(a) => /\ Memory!CONVERT(a, RAMBASE) \in 0..(RamSize - 1)
                                 /\ ~Memory!InBiosData(a) /\ ~Memory!InBios(a)
                                 /\ ~Memory!InBoot(a) /\ ~Memory!InMmio(a)
           /\ Memory!InBiosData(a) =>
                 /\ Memory!CONVERT(a, BIOSDATABASE) \in 0..(Memory!BiosDataSize - 1)
                 /\ ~Memory!InBios(a) /\ ~Memory!InBoot(a) /\ ~Memory!InMmio(a)
           /\ Memory!InBios(a) => /\ a \in 0..(BiosSize - 1)
                                  /\ ~Memory!InBoot(a) /\ ~Memory!InMmio(a)
           /\ Memory!InBoot(a) => /\ Memory!CONVERT(a, BOOTBASE) \in 0..(BootSize - 1)
                                  /\ ~Memory!InMmio(a)
           /\ Memory!InMmio(a) =>
                 Memory!Register(a) \in {"size", "timer", "cdev", "device", "cpuctl"}
<1>1. Len(Memory!Registers) = 5
  BY DEF Memory!Registers
<1>2. {BiosSize, BootSize, RamSize, BlockSize} \subseteq Nat \ {0}
      /\ {BIOSDATABASE, MMIO_BASE, BOOTBASE, RAMBASE} \subseteq Nat
      /\ BiosSize <= BIOSDATABASE /\ BIOSDATABASE < MMIO_BASE
      /\ MMIO_BASE + 5 <= BOOTBASE /\ BOOTBASE + BootSize <= RAMBASE
  BY AreasAssumption DEF AreasAssumption
<1>3. ASSUME Memory!InMmio(a)
      PROVE  Memory!Register(a) \in {"size", "timer", "cdev", "device", "cpuctl"}
  <2>1. a >= MMIO_BASE /\ a < MMIO_BASE + 5
    BY <1>1, <1>3 DEF Memory!InMmio, Memory!INBOUNDS, Memory!MMIO_END
  <2>2. a - MMIO_BASE + 1 \in 1..5
    BY <1>2, <2>1
  <2>3. \A i \in 1..5 : Memory!Registers[i] \in {"size", "timer", "cdev", "device", "cpuctl"}
    BY DEF Memory!Registers
  <2> QED
    BY <2>2, <2>3 DEF Memory!Register, Memory!CONVERT
<1> QED
  BY <1>1, <1>2, <1>3
  DEF Memory!InRam, Memory!InBiosData, Memory!InBios, Memory!InBoot, Memory!InMmio,
      Memory!INBOUNDS, Memory!CONVERT, Memory!MMIO_END, Memory!BiosDataSize

LEMMA WordRead ==
    ASSUME NEW m \in Memories, NEW a \in Nat, NEW cpu
    PROVE  LET w == Memory!busRead(m, a, cpu)
           IN  /\ Memory!InRam(a) => w = m.ram[Memory!CONVERT(a, RAMBASE)]
               /\ Memory!InBiosData(a) => w = m.biosdata[Memory!CONVERT(a, BIOSDATABASE)]
               /\ Memory!InBios(a) => w = m.rom["bios"][a]
               /\ Memory!InBoot(a) => w = m.rom["boot"][Memory!CONVERT(a, BOOTBASE)]
               /\ ~Memory!NeedsCpu(a) => w \in InWords
<1>1. CASE Memory!InRam(a)
  BY <1>1, Areas DEF Memory!busRead, Memories
<1>2. CASE Memory!InBiosData(a)
  BY <1>2, Areas DEF Memory!busRead, Memories
<1>3. CASE Memory!InBios(a)
  BY <1>3, Areas DEF Memory!busRead, Memories
<1>4. CASE Memory!InBoot(a)
  BY <1>4, Areas DEF Memory!busRead, Memories
<1>5. CASE Memory!InMmio(a)
  <2>1. Memory!busRead(m, a, cpu) = Memory!busRegRead(m, Memory!Register(a), cpu)
        /\ ~Memory!InRam(a) /\ ~Memory!InBiosData(a) /\ ~Memory!InBios(a) /\ ~Memory!InBoot(a)
    BY <1>5, Areas DEF Memory!busRead
  <2>2. CASE Memory!Register(a) \in {"timer", "device"}
    <3>1. Memory!busRegRead(m, Memory!Register(a), cpu) = m.regs[Memory!Register(a)]
      BY <2>2 DEF Memory!busRegRead, Memories
    <3> QED
      BY <2>1, <2>2, <3>1 DEF Memories
  <2>3. CASE Memory!Register(a) = "size"
    <3>1. Memory!busRegRead(m, Memory!Register(a), cpu) = 0
      BY <2>3 DEF Memory!busRegRead, Memories
    <3> QED
      BY <2>1, <3>1 DEF InWords
  <2>4. CASE Memory!Register(a) \in {"cdev", "cpuctl"}
    BY <1>5, <2>1, <2>4 DEF Memory!NeedsCpu
  <2> QED
    BY <1>5, <2>2, <2>3, <2>4, Areas
<1>6. CASE ~(Memory!InRam(a) \/ Memory!InBiosData(a) \/ Memory!InBios(a)
             \/ Memory!InBoot(a) \/ Memory!InMmio(a))
  BY <1>6 DEF Memory!busRead, InWords
<1> QED
  BY <1>1, <1>2, <1>3, <1>4, <1>5, <1>6

LEMMA RegisterWritten ==
    ASSUME NEW m \in Memories, NEW r \in {"size", "timer", "cdev", "device", "cpuctl"},
           NEW w \in InWords, NEW cpu
    PROVE  LET n == Memory!busRegWrite(m, r, w, cpu)
           IN  /\ n \in Memories
               /\ n.ram = m.ram /\ n.biosdata = m.biosdata /\ n.rom = m.rom
<1>1. CASE r \in {"timer", "device"}
  <2>1. Memory!busRegWrite(m, r, w, cpu) = [m EXCEPT !.regs[r] = w]
    BY <1>1 DEF Memory!busRegWrite, Memories
  <2> QED
    BY <2>1 DEF Memories
<1>2. CASE r = "cpuctl"
  <2>1. Memory!busRegWrite(m, r, w, cpu) = [m EXCEPT !.tpr[cpu] = w]
    BY <1>2 DEF Memory!busRegWrite, Memories
  <2> QED
    BY <2>1 DEF Memories
<1>3. CASE r \in {"size", "cdev"}
  <2>1. Memory!busRegWrite(m, r, w, cpu) = m
    BY <1>3 DEF Memory!busRegWrite, Memories
  <2> QED
    BY <2>1
<1> QED
  BY <1>1, <1>2, <1>3

LEMMA WordWritten ==
    ASSUME NEW m \in Memories, NEW a \in Nat, NEW w \in InWords, NEW cpu
    PROVE  LET n == Memory!busWrite(m, a, w, cpu)
           IN  /\ n \in Memories
               /\ \A b \in Memory!Plain :
                     Memory!busRead(n, b, NoCpu) =
                        IF b = a /\ ~Memory!BadWrite(a) THEN w
                        ELSE Memory!busRead(m, b, NoCpu)
<1> DEFINE n == Memory!busWrite(m, a, w, cpu)
<1>0. \A b \in Memory!Plain :
         /\ b \in Nat
         /\ Memory!InRam(b) \/ Memory!InBiosData(b) \/ Memory!InBios(b) \/ Memory!InBoot(b)
  <2>1. RAMBASE \in Nat /\ RamSize \in Nat
    BY AreasAssumption DEF AreasAssumption
  <2> QED
    BY <2>1 DEF Memory!Plain, Memory!Addresses
<1>1. CASE Memory!InRam(a)
  <2>1. n = [m EXCEPT !.ram[Memory!CONVERT(a, RAMBASE)] = w]
    BY <1>1, Areas DEF Memory!busWrite
  <2> HIDE DEF n
  <2>2. n \in Memories
    BY <2>1 DEF Memories
  <2>3. ~Memory!BadWrite(a)
    BY <1>1 DEF Memory!BadWrite
  <2>4. \A b \in Memory!Plain : Memory!InRam(b) /\ b # a =>
           Memory!CONVERT(b, RAMBASE) # Memory!CONVERT(a, RAMBASE)
    BY <1>0, AreasAssumption DEF Memory!CONVERT, AreasAssumption
  <2>5. ASSUME NEW b \in Memory!Plain
        PROVE  Memory!busRead(n, b, NoCpu) = IF b = a THEN w ELSE Memory!busRead(m, b, NoCpu)
    <3>1. CASE Memory!InRam(b)
      <4>1. Memory!busRead(n, b, NoCpu) = n.ram[Memory!CONVERT(b, RAMBASE)]
            /\ Memory!busRead(m, b, NoCpu) = m.ram[Memory!CONVERT(b, RAMBASE)]
            /\ Memory!CONVERT(b, RAMBASE) \in 0..(RamSize - 1)
        BY <1>0, <2>2, <3>1, WordRead, Areas
      <4> QED
        BY <2>1, <2>4, <3>1, <4>1 DEF Memories
    <3>2. CASE ~Memory!InRam(b)
      <4>1. b # a /\ n.biosdata = m.biosdata /\ n.rom = m.rom
        BY <1>1, <2>1, <3>2 DEF Memories
      <4> QED
        BY <1>0, <2>2, <3>2, <4>1, WordRead
    <3> QED
      BY <3>1, <3>2
  <2> QED
    BY <2>2, <2>3, <2>5 DEF n
<1>2. CASE Memory!InBiosData(a)
  <2>1. n = [m EXCEPT !.biosdata[Memory!CONVERT(a, BIOSDATABASE)] = w]
    BY <1>2, Areas DEF Memory!busWrite
  <2> HIDE DEF n
  <2>2. n \in Memories
    BY <2>1 DEF Memories
  <2>3. ~Memory!BadWrite(a)
    BY <1>2 DEF Memory!BadWrite
  <2>4. \A b \in Memory!Plain : Memory!InBiosData(b) /\ b # a =>
           Memory!CONVERT(b, BIOSDATABASE) # Memory!CONVERT(a, BIOSDATABASE)
    BY <1>0, AreasAssumption DEF Memory!CONVERT, AreasAssumption
  <2>5. ASSUME NEW b \in Memory!Plain
        PROVE  Memory!busRead(n, b, NoCpu) = IF b = a THEN w ELSE Memory!busRead(m, b, NoCpu)
    <3>1. CASE Memory!InBiosData(b)
      <4>1. Memory!busRead(n, b, NoCpu) = n.biosdata[Memory!CONVERT(b, BIOSDATABASE)]
            /\ Memory!busRead(m, b, NoCpu) = m.biosdata[Memory!CONVERT(b, BIOSDATABASE)]
            /\ Memory!CONVERT(b, BIOSDATABASE) \in 0..(Memory!BiosDataSize - 1)
        BY <1>0, <2>2, <3>1, WordRead, Areas
      <4> QED
        BY <2>1, <2>4, <3>1, <4>1 DEF Memories
    <3>2. CASE ~Memory!InBiosData(b)
      <4>1. b # a /\ n.ram = m.ram /\ n.rom = m.rom
        BY <1>2, <2>1, <3>2 DEF Memories
      <4> QED
        BY <1>0, <2>2, <3>2, <4>1, WordRead
    <3> QED
      BY <3>1, <3>2
  <2> QED
    BY <2>2, <2>3, <2>5 DEF n
<1>3. CASE Memory!InMmio(a)
  <2>1. n = Memory!busRegWrite(m, Memory!Register(a), w, cpu)
    BY <1>3, Areas DEF Memory!busWrite
  <2>2. n \in Memories /\ n.ram = m.ram /\ n.biosdata = m.biosdata /\ n.rom = m.rom
    BY <1>3, <2>1, Areas, RegisterWritten
  <2>3. a \notin Memory!Plain
    BY <1>0, <1>3, Areas
  <2> HIDE DEF n
  <2>4. ASSUME NEW b \in Memory!Plain
        PROVE  Memory!busRead(n, b, NoCpu) = Memory!busRead(m, b, NoCpu)
    BY <1>0, <2>2, WordRead
  <2> QED
    BY <2>2, <2>3, <2>4 DEF n
<1>4. CASE ~(Memory!InRam(a) \/ Memory!InBiosData(a) \/ Memory!InMmio(a))
  <2>1. n = m /\ Memory!BadWrite(a)
    BY <1>4 DEF Memory!busWrite, Memory!BadWrite
  <2> HIDE DEF n
  <2> QED
    BY <2>1 DEF n
<1> QED
  BY <1>1, <1>2, <1>3, <1>4

-----------------------------------------------------------------------------
(* The bus: blocks *)

Transfers == [m : Memories, error : BOOLEAN, null : BOOLEAN]

(* After k words of a transfer to memory, those before the first bad address
   have been moved, and no other word has changed. *)
Moved(t, start, k) ==
    ~t.null =>
        \E n \in 0..k :
            /\ \A j \in 0..(n - 1) : ~Memory!BadWrite(start + j)
            /\ IF t.error THEN n < k /\ Memory!BadWrite(start + n) ELSE n = k
            /\ \A b \in Memory!Plain :
                  Memory!busRead(t.m, b, NoCpu) =
                     IF b \in start..(start + n - 1) THEN block[b - start + 1]
                     ELSE Memory!busRead(Memory!State, b, NoCpu)

LEMMA PlainIsNat == Memory!Plain \subseteq Nat
<1>1. RAMBASE \in Nat /\ RamSize \in Nat
  BY AreasAssumption DEF AreasAssumption
<1> QED
  BY <1>1 DEF Memory!Plain, Memory!Addresses

LEMMA WordInStep ==
    ASSUME NEW t \in Transfers, NEW start \in Nat, NEW k \in Nat, Moved(t, start, k),
           block[k + 1] \in InWords
    PROVE  LET u == Memory!WordIn(t, start + k, block[k + 1])
           IN  u \in Transfers /\ Moved(u, start, k + 1)
<1> DEFINE a == start + k
           w == block[k + 1]
           u == Memory!WordIn(t, a, w)
<1>0. a \in Nat /\ t.error \in BOOLEAN /\ t.null \in BOOLEAN /\ t.m \in Memories
      /\ k + 1 \in Nat /\ t = [m |-> t.m, error |-> t.error, null |-> t.null]
  BY DEF Transfers
<1>1. CASE t.null
  <2>1. u = t
    BY <1>1 DEF Memory!WordIn
  <2> HIDE DEF u
  <2> QED
    BY <1>1, <2>1 DEF Moved, u
<1>2. CASE ~t.null /\ t.error
  <2>1. u = t
    BY <1>2 DEF Memory!WordIn, Memory!Ended
  <2>2. PICK n \in 0..k :
            /\ \A j \in 0..(n - 1) : ~Memory!BadWrite(start + j)
            /\ n < k /\ Memory!BadWrite(start + n)
            /\ \A b \in Memory!Plain :
                  Memory!busRead(t.m, b, NoCpu) =
                     IF b \in start..(start + n - 1) THEN block[b - start + 1]
                     ELSE Memory!busRead(Memory!State, b, NoCpu)
    BY <1>2 DEF Moved
  <2>3. n \in 0..(k + 1) /\ n < k + 1
    BY <2>2
  <2>4. Moved(t, start, k + 1)
    BY <1>2, <2>2, <2>3 DEF Moved
  <2> HIDE DEF u
  <2> QED
    BY <2>1, <2>4 DEF u
<1>3. CASE ~t.null /\ ~t.error
  <2>1. /\ \A j \in 0..(k - 1) : ~Memory!BadWrite(start + j)
        /\ \A b \in Memory!Plain :
              Memory!busRead(t.m, b, NoCpu) =
                 IF b \in start..(a - 1) THEN block[b - start + 1]
                 ELSE Memory!busRead(Memory!State, b, NoCpu)
    BY <1>3 DEF Moved
  <2>2. CASE Memory!InMmio(a) /\ Memory!Register(a) = "cpuctl"
    <3>1. u = [t EXCEPT !.null = TRUE]
      BY <1>3, <2>2 DEF Memory!WordIn, Memory!Ended
    <3>2. u \in Transfers /\ u.null
      BY <3>1 DEF Transfers
    <3> HIDE DEF u
    <3> QED
      BY <3>2 DEF Moved, u
  <2>3. CASE ~(Memory!InMmio(a) /\ Memory!Register(a) = "cpuctl")
    <3> DEFINE x == Memory!busWrite(t.m, a, w, NoCpu)
               bad == Memory!BadWrite(a)
    <3>1. u = [t EXCEPT !.m = x, !.error = bad]
      BY <1>3, <2>3 DEF Memory!WordIn, Memory!Ended
    <3>2. x \in Memories /\ \A b \in Memory!Plain :
              Memory!busRead(x, b, NoCpu) =
                 IF b = a /\ ~bad THEN w ELSE Memory!busRead(t.m, b, NoCpu)
      BY <1>0, WordWritten
    <3>3. bad \in BOOLEAN
      BY DEF Memory!BadWrite
    <3> HIDE DEF x, bad, u
    <3>4. u \in Transfers /\ ~u.null /\ u.m = x /\ (u.error <=> bad)
      BY <1>0, <1>3, <3>1, <3>2, <3>3 DEF Transfers
    <3>5. CASE bad
      <4>1. \A b \in Memory!Plain :
               Memory!busRead(u.m, b, NoCpu) =
                  IF b \in start..(start + k - 1) THEN block[b - start + 1]
                  ELSE Memory!busRead(Memory!State, b, NoCpu)
        BY <2>1, <3>2, <3>4, <3>5
      <4>2. k \in 0..(k + 1) /\ k < k + 1 /\ Memory!BadWrite(start + k)
        BY <3>5 DEF bad
      <4> QED
        BY <2>1, <3>4, <3>5, <4>1, <4>2 DEF Moved, u
    <3>6. CASE ~bad
      <4>1. \A b \in Memory!Plain :
               Memory!busRead(u.m, b, NoCpu) =
                  IF b \in start..(start + (k + 1) - 1) THEN block[b - start + 1]
                  ELSE Memory!busRead(Memory!State, b, NoCpu)
        <5> TAKE b \in Memory!Plain
        <5>1. b \in Nat
          BY PlainIsNat
        <5>2. CASE b = a
          <6>1. Memory!busRead(u.m, b, NoCpu) = w /\ b - start + 1 = k + 1
            BY <3>2, <3>4, <3>6, <5>2
          <6> QED
            BY <5>2, <6>1
        <5>3. CASE b # a
          <6>1. Memory!busRead(u.m, b, NoCpu) = Memory!busRead(t.m, b, NoCpu)
            BY <3>2, <3>4, <5>3
          <6>2. b \in start..(start + (k + 1) - 1) <=> b \in start..(a - 1)
            BY <5>1, <5>3
          <6> QED
            BY <2>1, <6>1, <6>2
        <5> QED
          BY <5>2, <5>3
      <4>2. k + 1 \in 0..(k + 1) /\ \A j \in 0..k : ~Memory!BadWrite(start + j)
        <5>1. \A j \in 0..k : j = k \/ j \in 0..(k - 1)
          OBVIOUS
        <5> QED
          BY <2>1, <3>6, <5>1 DEF bad
      <4>3. (k + 1) - 1 = k
        OBVIOUS
      <4> QED
        BY <3>4, <3>6, <4>1, <4>2, <4>3 DEF Moved, u
    <3> QED
      BY <3>5, <3>6
  <2> QED
    BY <2>2, <2>3
<1> QED
  BY <1>0, <1>1, <1>2, <1>3

LEMMA WordInCloses ==
    ASSUME NEW t \in Transfers, NEW a \in Nat, NEW w \in InWords
    PROVE  Memory!WordIn(t, a, w) \in Transfers
<1> DEFINE x == Memory!busWrite(t.m, a, w, NoCpu)
           bad == Memory!BadWrite(a)
<1>1. t.m \in Memories
  BY DEF Transfers
<1>2. x \in Memories /\ bad \in BOOLEAN
  BY <1>1, WordWritten DEF Memory!BadWrite
<1>3. Memory!WordIn(t, a, w) \in {t, [t EXCEPT !.null = TRUE], [t EXCEPT !.m = x, !.error = bad]}
  BY DEF Memory!WordIn
<1> HIDE DEF x, bad
<1> QED
  BY <1>2, <1>3 DEF Transfers

LEMMA CopiedInRight ==
    ASSUME Memory!State \in Memories, block \in [1..BlockSize -> InWords],
           NEW start \in Nat, NEW length \in Nat, length <= BlockSize
    PROVE  /\ Memory!CopiedIn(start, length) \in Transfers
           /\ Moved(Memory!CopiedIn(start, length), start, length)
<1> DEFINE first == [m |-> Memory!State, error |-> FALSE, null |-> FALSE]
<1>0. /\ length \in Nat /\ first \in Transfers
      /\ \A k \in 1..length : block[k] \in InWords /\ start + k - 1 \in Nat
      /\ \A k \in Nat : k + 1 <= length =>
            block[k + 1] \in InWords /\ start + (k + 1) - 1 = start + k
  <2>1. BlockSize \in Nat
    BY AreasAssumption DEF AreasAssumption
  <2>2. length \in Nat /\ \A k \in 1..length : k \in 1..BlockSize /\ start + k - 1 \in Nat
    BY <2>1
  <2>3. first \in Transfers
    BY DEF Transfers
  <2>4. \A k \in Nat : k + 1 <= length => k + 1 \in 1..BlockSize /\ start + (k + 1) - 1 = start + k
    BY <2>1
  <2> QED
    BY <2>2, <2>3, <2>4
<1> HIDE DEF first
<1>1. PICK F \in [1..length -> [Transfers -> Transfers]] :
          \A k \in 1..length, t \in Transfers :
              F[k][t] = Memory!WordIn(t, start + k - 1, block[k])
  <2>1. \A k \in 1..length, t \in Transfers :
           Memory!WordIn(t, start + k - 1, block[k]) \in Transfers
    BY <1>0, WordInCloses
  <2> DEFINE G == [k \in 1..length |->
                     [t \in Transfers |-> Memory!WordIn(t, start + k - 1, block[k])]]
  <2>2. /\ G \in [1..length -> [Transfers -> Transfers]]
        /\ \A k \in 1..length, t \in Transfers :
              G[k][t] = Memory!WordIn(t, start + k - 1, block[k])
    BY <2>1
  <2> HIDE DEF G
  <2> QED
    BY <2>2
<1>2. PICK f \in [0..length -> Transfers] :
          f[0] = first /\ \A k \in 1..length : f[k] = F[k][f[k - 1]]
  <2>1. PICK t \in Transfers : t = first
    BY <1>0
  <2>2. \E f \in [0..length -> Transfers] :
            f[0] = t /\ \A k \in 1..length : f[k] = F[k][f[k - 1]]
    BY RecursionExists
  <2> QED
    BY <2>1, <2>2
<1>3. \A k \in 0..length :
          f[k] = IF k = 0 THEN first ELSE Memory!WordIn(f[k - 1], start + k - 1, block[k])
  <2>1. \A k \in 0..length : k # 0 =>
           /\ k \in 1..length /\ k - 1 \in 0..length /\ f[k - 1] \in Transfers
           /\ F[k][f[k - 1]] = Memory!WordIn(f[k - 1], start + k - 1, block[k])
    BY <1>0, <1>1
  <2> QED
    BY <1>2, <2>1
<1> DEFINE copied == CHOOSE g : g = [k \in 0..length |->
                        IF k = 0 THEN first
                        ELSE Memory!WordIn(g[k - 1], start + k - 1, block[k])]
<1>4. f = [k \in 0..length |->
              IF k = 0 THEN first ELSE Memory!WordIn(f[k - 1], start + k - 1, block[k])]
  BY <1>2, <1>3
<1>5. copied = [k \in 0..length |->
              IF k = 0 THEN first ELSE Memory!WordIn(copied[k - 1], start + k - 1, block[k])]
  BY <1>4
<1>6. Memory!CopiedIn(start, length) = copied[length]
  BY DEF Memory!CopiedIn, first
<1> HIDE DEF copied
<1> DEFINE S == {k \in Nat : k <= length =>
                    copied[k] \in Transfers /\ Moved(copied[k], start, k)}
<1>7. 0 \in S
  <2>1. copied[0] = first
    BY <1>0, <1>5
  <2>2. Moved(first, start, 0)
    <3>1. \A b \in Memory!Plain : b \notin start..(start + 0 - 1)
      BY PlainIsNat
    <3> QED
      BY <3>1 DEF Moved, first
  <2> QED
    BY <1>0, <2>1, <2>2
<1>8. ASSUME NEW k \in Nat, k \in S
      PROVE  k + 1 \in S
  <2> SUFFICES ASSUME k + 1 <= length
               PROVE  copied[k + 1] \in Transfers /\ Moved(copied[k + 1], start, k + 1)
    OBVIOUS
  <2>1. copied[k] \in Transfers /\ Moved(copied[k], start, k)
    BY <1>0, <1>8
  <2>2. k + 1 \in 0..length /\ k + 1 # 0 /\ (k + 1) - 1 = k
    BY <1>0
  <2>3. copied[k + 1] = Memory!WordIn(copied[k], start + (k + 1) - 1, block[k + 1])
    BY <1>5, <2>2
  <2>4. copied[k + 1] = Memory!WordIn(copied[k], start + k, block[k + 1])
        /\ block[k + 1] \in InWords
    BY <1>0, <2>3
  <2> QED
    BY <2>1, <2>4, WordInStep
<1> HIDE DEF S
<1>9. Nat \subseteq S
  BY <1>7, <1>8, Induction
<1> QED
  BY <1>0, <1>6, <1>9 DEF S

(* A transfer that has come back from CopiedIn, seen as the property does. *)
LEMMA TransferInIsHonest ==
    ASSUME Memory!State \in Memories, block \in [1..BlockSize -> InWords],
           NEW start \in Nat, NEW length \in Nat, length <= BlockSize,
           Memory!TransferIn(start, length), alive'
    PROVE  Memory!MovedIn(start, length, failed')
<1> DEFINE t == Memory!CopiedIn(start, length)
           bad == {k \in 0..(length - 1) : Memory!BadWrite(start + k)}
<1>1. t \in Transfers /\ Moved(t, start, length)
  BY CopiedInRight
<1>2. ~t.null /\ (failed' <=> t.error) /\ failed' = t.error /\ Memory!NewState = t.m
  <2>1. Memory!Become(t.m) /\ failed' = t.error /\ alive' = ~t.null
    BY DEF Memory!TransferIn
  <2> HIDE DEF t
  <2>2. t.m \in Memories
    BY <1>1 DEF Transfers
  <2>3. Memory!NewState = t.m
    BY <2>1, <2>2 DEF Memory!Become, Memory!NewState, Memories
  <2> QED
    BY <2>1, <2>3
<1> HIDE DEF t
<1>3. PICK n \in 0..length :
            /\ \A j \in 0..(n - 1) : ~Memory!BadWrite(start + j)
            /\ IF t.error THEN n < length /\ Memory!BadWrite(start + n) ELSE n = length
            /\ \A b \in Memory!Plain :
                  Memory!busRead(t.m, b, NoCpu) =
                     IF b \in start..(start + n - 1) THEN block[b - start + 1]
                     ELSE Memory!busRead(Memory!State, b, NoCpu)
  BY <1>1, <1>2 DEF Moved
<1>4. length \in Nat
  BY AreasAssumption DEF AreasAssumption
<1> DEFINE upto == IF failed' THEN CHOOSE k \in bad : \A j \in bad : k <= j ELSE length
<1>5. (failed' <=> bad # {}) /\ upto = n
  <2>1. CASE failed'
    <3>1. n \in bad /\ \A j \in bad : n <= j
      <4>1. n \in 0..(length - 1) /\ Memory!BadWrite(start + n)
        BY <1>2, <1>3, <1>4, <2>1
      <4>2. \A j \in 0..(length - 1) : j < n => j \in 0..(n - 1)
        BY <1>4
      <4>3. \A j \in bad : n <= j
        BY <1>3, <1>4, <4>2
      <4> QED
        BY <4>1, <4>3
    <3>2. \A k \in bad : (\A j \in bad : k <= j) => k = n
      BY <3>1
    <3>3. (CHOOSE k \in bad : \A j \in bad : k <= j) = n
      BY <3>1, <3>2
    <3> QED
      BY <2>1, <3>1, <3>3
  <2>2. CASE ~failed'
    BY <1>2, <1>3, <1>4, <2>2
  <2> QED
    BY <2>1, <2>2
<1>6. \A b \in Memory!Plain :
        Memory!Flat(Memory!NewState)[b] =
            IF b \in start..(start + n - 1) THEN block[b - start + 1]
            ELSE Memory!Flat(Memory!State)[b]
  BY <1>2, <1>3 DEF Memory!Flat
<1> QED
  BY <1>5, <1>6 DEF Memory!MovedIn

FetchedBlocks == [block : [1..BlockSize -> InWords], error : BOOLEAN, null : BOOLEAN]

(* After k words of a transfer from memory, an address out of bounds has been
   met and reported, or all of them have been read. *)
Fetched(t, start, k) ==
    ~t.null =>
        /\ t.error <=> \E j \in 0..(k - 1) : Memory!BadRead(start + j)
        /\ ~t.error => \A j \in 0..(k - 1) :
              t.block[j + 1] = Memory!busRead(Memory!State, start + j, NoCpu)

LEMMA WordOutCloses ==
    ASSUME Memory!State \in Memories, NEW t \in FetchedBlocks, NEW a \in Nat,
           NEW k \in 1..BlockSize
    PROVE  Memory!WordOut(t, a, k) \in FetchedBlocks
<1> DEFINE w == Memory!busRead(Memory!State, a, NoCpu)
           bad == Memory!BadRead(a)
<1>1. CASE Memory!NeedsCpu(a)
  BY <1>1 DEF Memory!WordOut, FetchedBlocks
<1>2. CASE ~Memory!NeedsCpu(a)
  <2>1. w \in InWords /\ bad \in BOOLEAN
    BY <1>2, WordRead DEF Memory!BadRead
  <2>2. Memory!WordOut(t, a, k) \in {t, [t EXCEPT !.block[k] = w, !.error = bad]}
    BY <1>2 DEF Memory!WordOut
  <2> HIDE DEF w, bad
  <2>3. t.block \in [1..BlockSize -> InWords]
    BY DEF FetchedBlocks
  <2>4. [t.block EXCEPT ![k] = w] \in [1..BlockSize -> InWords]
    BY <2>1, <2>3
  <2>5. [t EXCEPT !.block[k] = w, !.error = bad]
           = [t EXCEPT !.block = [t.block EXCEPT ![k] = w], !.error = bad]
    BY DEF FetchedBlocks
  <2> QED
    BY <2>1, <2>2, <2>4, <2>5 DEF FetchedBlocks
<1> QED
  BY <1>1, <1>2

LEMMA WordOutStep ==
    ASSUME Memory!State \in Memories, NEW t \in FetchedBlocks, NEW start \in Nat,
           NEW k \in Nat, k + 1 \in 1..BlockSize, Fetched(t, start, k)
    PROVE  Fetched(Memory!WordOut(t, start + k, k + 1), start, k + 1)
<1> DEFINE a == start + k
           u == Memory!WordOut(t, a, k + 1)
<1>0. a \in Nat /\ t.error \in BOOLEAN /\ t.null \in BOOLEAN
      /\ t = [block |-> t.block, error |-> t.error, null |-> t.null]
      /\ t.block \in [1..BlockSize -> InWords]
      /\ (k + 1) - 1 = k /\ (\A j \in 0..k : j = k \/ j \in 0..(k - 1))
      /\ \A j \in 0..(k - 1) : j \in 0..k /\ j + 1 # k + 1 /\ j + 1 \in 1..BlockSize
  <2>1. BlockSize \in Nat
    BY AreasAssumption DEF AreasAssumption
  <2> QED
    BY <2>1 DEF FetchedBlocks
<1>1. CASE t.null
  <2>1. u = t
    BY <1>1 DEF Memory!WordOut
  <2> HIDE DEF u
  <2> QED
    BY <1>1, <2>1 DEF Fetched, u
<1>2. CASE ~t.null /\ t.error
  <2>1. u = t
    BY <1>2 DEF Memory!WordOut, Memory!Ended
  <2>2. PICK j \in 0..(k - 1) : Memory!BadRead(start + j)
    BY <1>2 DEF Fetched
  <2>3. j \in 0..((k + 1) - 1)
    OBVIOUS
  <2> HIDE DEF u
  <2> QED
    BY <1>2, <2>1, <2>2, <2>3 DEF Fetched, u
<1>3. CASE ~t.null /\ ~t.error
  <2>1. \A j \in 0..(k - 1) :
            /\ ~Memory!BadRead(start + j)
            /\ t.block[j + 1] = Memory!busRead(Memory!State, start + j, NoCpu)
    BY <1>3 DEF Fetched
  <2>2. CASE Memory!NeedsCpu(a)
    <3>1. u = [t EXCEPT !.null = TRUE]
      BY <1>3, <2>2 DEF Memory!WordOut, Memory!Ended
    <3>2. u.null
      BY <1>0, <3>1
    <3> HIDE DEF u
    <3> QED
      BY <3>2 DEF Fetched, u
  <2>3. CASE ~Memory!NeedsCpu(a)
    <3> DEFINE w == Memory!busRead(Memory!State, a, NoCpu)
               bad == Memory!BadRead(a)
    <3>1. u = [t EXCEPT !.block[k + 1] = w, !.error = bad]
      BY <1>3, <2>3 DEF Memory!WordOut, Memory!Ended
    <3>2. bad \in BOOLEAN
      BY DEF Memory!BadRead
    <3> HIDE DEF w, bad, u
    <3>3. /\ (u.error <=> bad) /\ u.block[k + 1] = w
          /\ \A j \in 0..(k - 1) : u.block[j + 1] = t.block[j + 1]
      <4>1. u.block = [t.block EXCEPT ![k + 1] = w] /\ u.error = bad
        BY <1>0, <3>1
      <4>2. k + 1 \in 1..BlockSize
        OBVIOUS
      <4> DEFINE d == t.block
      <4>3. d \in [1..BlockSize -> InWords] /\ u.block = [d EXCEPT ![k + 1] = w]
        BY <1>0, <4>1
      <4>4. \A j \in 0..(k - 1) : j + 1 # k + 1 /\ j + 1 \in 1..BlockSize
        BY <1>0
      <4> HIDE DEF d
      <4>5. u.block[k + 1] = w /\ \A j \in 0..(k - 1) : u.block[j + 1] = d[j + 1]
        BY <4>2, <4>3, <4>4
      <4> QED
        BY <3>2, <4>1, <4>5 DEF d
    <3>4. u.error <=> \E j \in 0..((k + 1) - 1) : Memory!BadRead(start + j)
      BY <1>0, <2>1, <3>3 DEF bad
    <3>5. ~u.error => \A j \in 0..((k + 1) - 1) :
              u.block[j + 1] = Memory!busRead(Memory!State, start + j, NoCpu)
      BY <1>0, <2>1, <3>3 DEF w
    <3> QED
      BY <3>4, <3>5 DEF Fetched, u
  <2> QED
    BY <2>2, <2>3
<1> QED
  BY <1>0, <1>1, <1>2, <1>3

LEMMA CopiedOutRight ==
    ASSUME Memory!State \in Memories, block \in [1..BlockSize -> InWords],
           NEW start \in Nat, NEW length \in Nat, length <= BlockSize
    PROVE  /\ Memory!CopiedOut(start, length) \in FetchedBlocks
           /\ Fetched(Memory!CopiedOut(start, length), start, length)
<1> DEFINE first == [block |-> block, error |-> FALSE, null |-> FALSE]
<1>0. /\ first \in FetchedBlocks
      /\ \A k \in 1..length : k \in 1..BlockSize /\ start + k - 1 \in Nat
      /\ \A k \in Nat : k + 1 <= length =>
            k + 1 \in 1..BlockSize /\ start + (k + 1) - 1 = start + k
  <2>1. BlockSize \in Nat
    BY AreasAssumption DEF AreasAssumption
  <2>2. first \in FetchedBlocks
    BY DEF FetchedBlocks
  <2> QED
    BY <2>1, <2>2
<1> HIDE DEF first
<1>1. PICK F \in [1..length -> [FetchedBlocks -> FetchedBlocks]] :
          \A k \in 1..length, t \in FetchedBlocks :
              F[k][t] = Memory!WordOut(t, start + k - 1, k)
  <2>1. \A k \in 1..length, t \in FetchedBlocks :
           Memory!WordOut(t, start + k - 1, k) \in FetchedBlocks
    BY <1>0, WordOutCloses
  <2> DEFINE G == [k \in 1..length |->
                     [t \in FetchedBlocks |-> Memory!WordOut(t, start + k - 1, k)]]
  <2>2. /\ G \in [1..length -> [FetchedBlocks -> FetchedBlocks]]
        /\ \A k \in 1..length, t \in FetchedBlocks :
              G[k][t] = Memory!WordOut(t, start + k - 1, k)
    BY <2>1
  <2> HIDE DEF G
  <2> QED
    BY <2>2
<1>2. PICK f \in [0..length -> FetchedBlocks] :
          f[0] = first /\ \A k \in 1..length : f[k] = F[k][f[k - 1]]
  <2>1. PICK t \in FetchedBlocks : t = first
    BY <1>0
  <2>2. \E f \in [0..length -> FetchedBlocks] :
            f[0] = t /\ \A k \in 1..length : f[k] = F[k][f[k - 1]]
    BY RecursionExists
  <2> QED
    BY <2>1, <2>2
<1>3. \A k \in 0..length :
          f[k] = IF k = 0 THEN first ELSE Memory!WordOut(f[k - 1], start + k - 1, k)
  <2>1. \A k \in 0..length : k # 0 =>
           /\ k \in 1..length /\ k - 1 \in 0..length /\ f[k - 1] \in FetchedBlocks
           /\ F[k][f[k - 1]] = Memory!WordOut(f[k - 1], start + k - 1, k)
    BY <1>0, <1>1
  <2> QED
    BY <1>2, <2>1
<1> DEFINE copied == CHOOSE g : g = [k \in 0..length |->
                        IF k = 0 THEN first
                        ELSE Memory!WordOut(g[k - 1], start + k - 1, k)]
<1>4. f = [k \in 0..length |->
              IF k = 0 THEN first ELSE Memory!WordOut(f[k - 1], start + k - 1, k)]
  BY <1>2, <1>3
<1>5. copied = [k \in 0..length |->
              IF k = 0 THEN first ELSE Memory!WordOut(copied[k - 1], start + k - 1, k)]
  BY <1>4
<1>6. Memory!CopiedOut(start, length) = copied[length]
  BY DEF Memory!CopiedOut, first
<1> HIDE DEF copied
<1> DEFINE S == {k \in Nat : k <= length =>
                    copied[k] \in FetchedBlocks /\ Fetched(copied[k], start, k)}
<1>7. 0 \in S
  <2>1. copied[0] = first
    BY <1>5
  <2>2. Fetched(first, start, 0)
    BY DEF Fetched, first
  <2> QED
    BY <1>0, <2>1, <2>2
<1>8. ASSUME NEW k \in Nat, k \in S
      PROVE  k + 1 \in S
  <2> SUFFICES ASSUME k + 1 <= length
               PROVE  copied[k + 1] \in FetchedBlocks /\ Fetched(copied[k + 1], start, k + 1)
    OBVIOUS
  <2>1. copied[k] \in FetchedBlocks /\ Fetched(copied[k], start, k)
    BY <1>8
  <2>2. k + 1 \in 0..length /\ k + 1 # 0 /\ (k + 1) - 1 = k
    OBVIOUS
  <2>3. copied[k + 1] = Memory!WordOut(copied[k], start + (k + 1) - 1, k + 1)
    BY <1>5, <2>2
  <2>4. copied[k + 1] = Memory!WordOut(copied[k], start + k, k + 1) /\ k + 1 \in 1..BlockSize
        /\ start + k \in Nat
    BY <1>0, <2>3
  <2> QED
    BY <2>1, <2>4, WordOutStep, WordOutCloses
<1> HIDE DEF S
<1>9. Nat \subseteq S
  BY <1>7, <1>8, Induction
<1> QED
  BY <1>6, <1>9 DEF S

LEMMA TransferOutIsHonest ==
    ASSUME Memory!State \in Memories, block \in [1..BlockSize -> InWords],
           NEW start \in Nat, NEW length \in Nat, length <= BlockSize,
           Memory!TransferOut(start, length), alive'
    PROVE  Memory!MovedOut(start, length, failed')
<1> DEFINE t == Memory!CopiedOut(start, length)
<1>1. t \in FetchedBlocks /\ Fetched(t, start, length)
  BY CopiedOutRight
<1>2. ~t.null /\ failed' = t.error /\ block' = t.block
  BY DEF Memory!TransferOut
<1> HIDE DEF t
<1>3. /\ t.error <=> \E j \in 0..(length - 1) : Memory!BadRead(start + j)
      /\ ~t.error => \A j \in 0..(length - 1) :
            t.block[j + 1] = Memory!busRead(Memory!State, start + j, NoCpu)
  BY <1>1, <1>2 DEF Fetched
<1>4. ASSUME ~t.error, NEW b \in Memory!Plain \cap start..(start + length - 1)
      PROVE  block'[b - start + 1] = Memory!Flat(Memory!State)[b]
  <2>1. b - start \in 0..(length - 1) /\ start + (b - start) = b
    OBVIOUS
  <2> QED
    BY <1>2, <1>3, <1>4, <2>1 DEF Memory!Flat
<1> QED
  BY <1>2, <1>3, <1>4 DEF Memory!MovedOut

BusInv == Memory!State \in Memories /\ block \in [1..BlockSize -> InWords]

LEMMA BusStart ==
    ASSUME Memory!Init
    PROVE  BusInv
BY DEF Memory!Init, BusInv, Memory!State, Memories, InWords

LEMMA Became ==
    ASSUME NEW m \in Memories, Memory!Become(m)
    PROVE  Memory!State' = m /\ Memory!NewState = m
BY DEF Memory!Become, Memory!State, Memory!NewState, Memories

LEMMA BusStep ==
    ASSUME BusInv, [Memory!Next]_busVars
    PROVE  BusInv'
<1>1. Memory!Addresses \subseteq Nat /\ \A length \in 1..BlockSize : length \in Nat /\ length <= BlockSize
  <2>1. RAMBASE \in Nat /\ RamSize \in Nat /\ BlockSize \in Nat
    BY AreasAssumption DEF AreasAssumption
  <2> QED
    BY <2>1 DEF Memory!Addresses
<1>2. ASSUME NEW a \in Nat, NEW w \in Words, NEW cpu, Memory!DataWrite(a, w, cpu)
      PROVE  BusInv'
  <2>1. w \in InWords /\ block' = block
    BY <1>2 DEF InWords, Memory!DataWrite
  <2> QED
    BY <1>2, <2>1, WordWritten, Became DEF Memory!DataWrite, BusInv
<1>3. ASSUME UNCHANGED Memory!memories, block' \in [1..BlockSize -> InWords]
      PROVE  BusInv'
  BY <1>3 DEF Memory!memories, BusInv, Memory!State
<1>4. ASSUME NEW a, Memory!InstrRead(a)
      PROVE  BusInv'
  BY <1>3, <1>4 DEF Memory!InstrRead, BusInv
<1>5. ASSUME NEW a \in Nat, NEW length \in Nat, length <= BlockSize,
             Memory!TransferIn(a, length)
      PROVE  BusInv'
  <2> DEFINE t == Memory!CopiedIn(a, length)
  <2>1. t \in Transfers
    BY <1>5, CopiedInRight DEF BusInv
  <2>2. Memory!Become(t.m) /\ block' = block
    BY <1>5 DEF Memory!TransferIn
  <2> HIDE DEF t
  <2>3. t.m \in Memories
    BY <2>1 DEF Transfers
  <2> QED
    BY <2>2, <2>3, Became DEF BusInv
<1>6. ASSUME NEW a \in Nat, NEW length \in Nat, length <= BlockSize,
             Memory!TransferOut(a, length)
      PROVE  BusInv'
  <2> DEFINE t == Memory!CopiedOut(a, length)
  <2>1. t \in FetchedBlocks
    BY <1>6, CopiedOutRight DEF BusInv
  <2>2. block' = t.block /\ UNCHANGED Memory!memories
    BY <1>6 DEF Memory!TransferOut
  <2> HIDE DEF t
  <2> QED
    BY <1>3, <2>1, <2>2 DEF FetchedBlocks
<1>7. ASSUME NEW words \in [1..BlockSize -> Words], Memory!Fill(words)
      PROVE  BusInv'
  BY <1>3, <1>7 DEF Memory!Fill, InWords
<1>8. CASE UNCHANGED busVars
  BY <1>3, <1>8 DEF busVars, Memory!memories, BusInv
<1> QED
  BY <1>1, <1>2, <1>4, <1>5, <1>6, <1>7, <1>8 DEF Memory!Next

LEMMA WriteIsHonest ==
    ASSUME BusInv, NEW a \in Nat, NEW w \in Words, NEW cpu, Memory!DataWrite(a, w, cpu),
           NEW b \in Memory!Plain
    PROVE  Memory!Flat(Memory!NewState)[b] =
              IF b = a /\ ~failed' THEN w ELSE Memory!Flat(Memory!State)[b]
<1> DEFINE m == Memory!busWrite(Memory!State, a, w, cpu)
<1>1. w \in InWords
  BY DEF InWords
<1>2. m \in Memories /\ Memory!busRead(m, b, NoCpu) =
            IF b = a /\ ~Memory!BadWrite(a) THEN w ELSE Memory!busRead(Memory!State, b, NoCpu)
  BY <1>1, WordWritten DEF BusInv
<1>3. Memory!Become(m) /\ failed' = Memory!BadWrite(a)
  BY DEF Memory!DataWrite
<1> HIDE DEF m
<1> QED
  BY <1>2, <1>3, Became DEF Memory!Flat

LEMMA BusIsHonest ==
    ASSUME BusInv
    PROVE  Memory!IsHonest
<1>1. Memory!Addresses \subseteq Nat /\ \A length \in 1..BlockSize : length \in Nat /\ length <= BlockSize
  <2>1. RAMBASE \in Nat /\ RamSize \in Nat /\ BlockSize \in Nat
    BY AreasAssumption DEF AreasAssumption
  <2> QED
    BY <2>1 DEF Memory!Addresses
<1>2. ASSUME alive', NEW a \in Nat, NEW length \in Nat, length <= BlockSize
      PROVE  /\ Memory!TransferIn(a, length) => Memory!MovedIn(a, length, failed')
             /\ Memory!TransferOut(a, length) => Memory!MovedOut(a, length, failed')
  BY <1>2, TransferInIsHonest, TransferOutIsHonest DEF BusInv
<1> QED
  BY <1>1, <1>2, WriteIsHonest DEF Memory!IsHonest

(* Whatever area an address belongs to and whoever accesses it, a core, the
   debugger or a device that copies a block of any size, there is one memory,
   and a failure is reported exactly when a word could not be moved. *)
THEOREM AccessesAlwaysHonest == StorageSpec => AccessesAreHonest
<1>1. StorageInit => BusInv
  BY BusStart DEF StorageInit
<1>2. BusInv /\ [StorageNext]_storageVars => BusInv'
  BY BusStep DEF StorageNext, storageVars
<1>3. BusInv /\ [StorageNext]_storageVars
        => [kind = "bus" => Memory!IsHonest]_storageVars
  BY BusIsHonest
<1> QED
  BY <1>1, <1>2, <1>3, PTL DEF StorageSpec, AccessesAreHonest
=============================================================================
