------------------------------ MODULE BlockBuffer ------------------------------
(***************************************************************************)
(* What the disk and the flash device have in common (uriscv/device.cc): a *)
(* one-block buffer between the blocks of the image file and the memory of *)
(* the guest.  A read fetches the block into the buffer, unless it is      *)
(* there, and copies the buffer to memory when it completes; a write       *)
(* copies memory to the buffer at once and the buffer to the file when it  *)
(* completes.  The guest runs in between.                                  *)
(*                                                                         *)
(* Completion times only order a command before its completion here: a     *)
(* completion is any later step.                                           *)
(***************************************************************************)

CONSTANTS
    Blocks,      \* the blocks of the device
    Pages,       \* the places in memory a block may be copied from or to
    BadPages,    \* addresses of no page: unaligned, or running out of memory
    Contents,    \* what a block can hold
    Faults,      \* whether the device may be set to not working
    Invalid,     \* MAXWORDVAL, the tag of a buffer that holds no block
    NoBlock      \* a block number outside of the device

ASSUME BlocksAssumption == Invalid \notin Blocks /\ NoBlock \notin Blocks

VARIABLES
    status,      \* the status register
    op,          \* the command register: the operation and its block
    data0,       \* the address register
    tag,         \* the block the buffer holds, or Invalid
    buffer,
    store,       \* the image file
    memory,
    isWorking,
    request,     \* the interrupt request of the device is pending
    source       \* history: what the last write command was to write

blockVars == <<status, op, data0, tag, buffer, store, memory, isWorking, request, source>>

Mixed   == "mixed"        \* what a failed copy partly overwrote
NoCopy  == "no copy"      \* the copy from memory has failed
Busy    == status = "BUSY"

TypeOK ==
    /\ status \in {"READY", "BUSY", "ILOPERR", "ERROR", "DMAERR"}
    /\ op.command \in {"RESET", "ACK", "READ", "WRITE", "SEEK", "unknown"}
    /\ Busy /\ op.command \in {"READ", "WRITE"} => op.block \in Blocks
    /\ data0 \in Pages \cup BadPages
    /\ tag \in Blocks \cup {Invalid}
    /\ buffer \in Contents \cup {Mixed}
    /\ store \in [Blocks -> Contents \cup {Mixed}]
    /\ memory \in [Pages -> Contents \cup {Mixed}]
    /\ isWorking \in BOOLEAN
    /\ request \in BOOLEAN
    /\ source \in Contents \cup {Mixed, NoCopy}

(* A driver has written the address register before its first transfer. *)
BlockInit ==
    /\ status = "READY"
    /\ op = [command |-> "RESET", block |-> NoBlock]
    /\ data0 \in Pages
    /\ tag = Invalid
    /\ buffer \in Contents
    /\ store \in [Blocks -> Contents]
    /\ memory \in [Pages -> Contents]
    /\ isWorking = TRUE
    /\ request = FALSE
    /\ source = buffer

-----------------------------------------------------------------------------
(* Commands.  Each one takes a pending request back. *)

(* A plausible bug: commands are taken while an operation is in progress. *)
AlwaysAccepts == TRUE
Accepts == ~Busy

Command(c, b) ==
    /\ Accepts
    /\ op' = [command |-> c, block |-> b]
    /\ UNCHANGED <<data0, store, memory, isWorking>>

Begin == status' = "BUSY" /\ request' = FALSE

Reset ==
    /\ Command("RESET", NoBlock)
    /\ Begin
    /\ UNCHANGED <<tag, buffer, source>>

Acknowledge ==
    /\ Command("ACK", NoBlock)
    /\ status' = "READY" /\ request' = FALSE
    /\ UNCHANGED <<tag, buffer, source>>

(* An unknown command, or one with coordinates that do not exist. *)
Refuse(c, s) ==
    /\ Command(c, NoBlock)
    /\ status' = s /\ request' = TRUE
    /\ UNCHANGED <<tag, buffer, source>>

(* A plausible bug: whatever is buffered is taken for the block. *)
AnythingCached(b) == tag # Invalid
Cached(b) == tag = b

StartRead(b) ==
    /\ Command("READ", b)
    /\ Begin
    /\ tag' = IF Cached(b) THEN tag ELSE Invalid
    /\ UNCHANGED <<buffer, source>>

(* A plausible bug: a block that is buffered is not copied again. *)
UnlessCached(b) == IF tag = b THEN buffer ELSE memory[data0]
FromMemory(b) == memory[data0]

StartWrite(b) ==
    /\ Command("WRITE", b)
    /\ Begin
    /\ \/ /\ data0 \in Pages
          /\ buffer' = FromMemory(b)
          /\ tag' = b
          /\ source' = memory[data0]
       \/ /\ data0 \in BadPages
          /\ buffer' \in {buffer, Mixed}
          /\ tag' = Invalid
          /\ source' = NoCopy

InRange(b) == b \in Blocks

Read(b)  == IF InRange(b) THEN StartRead(b) ELSE Refuse("READ", "ERROR")
Write(b) == IF InRange(b) THEN StartWrite(b) ELSE Refuse("WRITE", "ERROR")

WriteData0(p) ==
    /\ Accepts
    /\ data0' = p
    /\ UNCHANGED <<status, op, tag, buffer, store, memory, isWorking, request, source>>

-----------------------------------------------------------------------------
(* Completion *)

InProgress(c) == Busy /\ op.command = c

Finish(s) ==
    /\ status' = s
    /\ request' = TRUE
    /\ UNCHANGED <<op, data0, isWorking, source>>

CompleteReset ==
    /\ InProgress("RESET")
    /\ Finish("READY")
    /\ tag' = Invalid
    /\ UNCHANGED <<buffer, store, memory>>

(* The block a transfer completes on is located anew at the end. *)
CompleteRead(b) ==
    /\ InProgress("READ") /\ isWorking
    /\ buffer' = IF tag # Invalid THEN buffer ELSE store[b]
    /\ tag' = b
    /\ \/ /\ data0 \in Pages
          /\ Finish("READY")
          /\ memory' = [memory EXCEPT ![data0] = buffer']
       \/ /\ data0 \in BadPages
          /\ Finish("DMAERR")
          /\ \E p \in Pages : memory' \in {memory, [memory EXCEPT ![p] = Mixed]}
    /\ UNCHANGED store

CompleteWrite(b) ==
    /\ InProgress("WRITE") /\ isWorking
    /\ Finish("READY")
    /\ store' = [store EXCEPT ![b] = buffer]
    /\ UNCHANGED <<tag, buffer, memory>>

(* A plausible bug: a failure leaves the buffer valid. *)
KeepTag == tag
DropTag == Invalid

Fail ==
    /\ InProgress("READ") \/ InProgress("WRITE")
    /\ ~isWorking
    /\ Finish("ERROR")
    /\ tag' = DropTag
    /\ UNCHANGED <<buffer, store, memory>>

-----------------------------------------------------------------------------
(* The user and the guest *)

SetCondition(working) ==
    /\ Faults
    /\ isWorking' = working
    /\ UNCHANGED <<status, op, data0, tag, buffer, store, memory, request, source>>

GuestStore(p, c) ==
    /\ memory' = [memory EXCEPT ![p] = c]
    /\ UNCHANGED <<status, op, data0, tag, buffer, store, isWorking, request, source>>

BlockNext ==
    \/ Reset
    \/ Acknowledge
    \/ Refuse("unknown", "ILOPERR")
    \/ \E p \in Pages \cup BadPages : WriteData0(p)
    \/ CompleteReset
    \/ Fail
    \/ \E working \in BOOLEAN : SetCondition(working)
    \/ \E p \in Pages, c \in Contents : GuestStore(p, c)

-----------------------------------------------------------------------------
(* Properties *)

(* A valid buffer holds what the file holds, except for a write that is not
   over: a read that finds its block in the buffer can trust it, after any
   sequence of failures, resets and refused copies. *)
BufferIsTruthful ==
    tag # Invalid /\ ~InProgress("WRITE") => buffer = store[tag]

(* A read that reports success has copied the block that was asked for to
   the address that was given (CompleteDevOp). *)
ReadDelivers ==
    [][InProgress("READ") /\ status' = "READY"
         => memory'[data0] = store[op.block]]_blockVars

(* A write that reports success, and whose copy from memory did, has put into
   the file what the memory held when the command was given (CompleteDevOp). *)
WriteLands ==
    [][InProgress("WRITE") /\ source # NoCopy /\ status' = "READY"
         => store'[op.block] = source]_blockVars

(* A write that reports success leaves its block in the buffer: "all is ok:
   buffer is still valid" (CompleteDevOp). *)
BufferStaysValid ==
    [][InProgress("WRITE") /\ status' = "READY" => tag' = op.block]_blockVars

(* The device keeps the promises every device makes to its driver. *)
Driver == INSTANCE DeviceOperation WITH busy <- Busy, request <- request
ImplementsDeviceOperation == Driver!Spec
=============================================================================
