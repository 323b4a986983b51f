----------------------------- MODULE PrinterDevice -----------------------------
(***************************************************************************)
(* A printer (uriscv/device.cc, PrinterDevice): the driver writes a        *)
(* character to DATA0 and PRNTCHR to COMMAND; the character is read from   *)
(* the register again when the operation completes, and put on the paper.  *)
(***************************************************************************)
EXTENDS Sequences, Naturals

CONSTANTS
    Characters,
    Faults,      \* whether the device may be set to not working
    MaxPaper     \* bound: characters printed in a behaviour

VARIABLES
    status,      \* the status register
    op,          \* the command register
    data0,       \* the character register
    isWorking,
    request,     \* the interrupt request of the device is pending
    paper,       \* the log file
    asked,       \* history: the character register when PRNTCHR was accepted
    reported     \* history: the characters whose operation reported success

printerVars == <<status, op, data0, isWorking, request, paper, asked, reported>>

Busy == status = "BUSY"

PrinterInit ==
    /\ status = "READY"
    /\ op = [command |-> "RESET"]
    /\ data0 \in Characters
    /\ isWorking = TRUE
    /\ request = FALSE
    /\ paper = <<>>
    /\ asked = data0
    /\ reported = <<>>

(* WriteDevReg: nothing is writable while an operation is in progress. *)
Accepts == ~Busy

(* A plausible bug: only commands wait for the operation in progress. *)
AlwaysWritable(c) == TRUE
Writable(c) == Accepts

WriteData0(c) ==
    /\ Writable(c)
    /\ data0' = c
    /\ UNCHANGED <<status, op, isWorking, request, paper, asked, reported>>

Command(c) ==
    /\ Accepts
    /\ op' = [command |-> c]
    /\ asked' = IF c = "PRNTCHR" THEN data0 ELSE asked
    /\ CASE c \in {"RESET", "PRNTCHR"} -> status' = "BUSY" /\ request' = FALSE
         [] c = "ACK"                  -> status' = "READY" /\ request' = FALSE
         [] OTHER                      -> status' = "ILOPERR" /\ request' = TRUE
    /\ UNCHANGED <<data0, isWorking, paper, reported>>

(* CompleteDevOp.  A reset works in a broken printer too. *)
Complete(s) ==
    /\ Busy
    /\ status' = s
    /\ request' = TRUE
    /\ UNCHANGED <<op, data0, isWorking, asked>>

CompleteReset ==
    /\ op.command = "RESET"
    /\ Complete("READY")
    /\ UNCHANGED <<paper, reported>>

CompletePrint ==
    /\ op.command = "PRNTCHR"
    /\ Len(paper) < MaxPaper
    /\ \/ /\ isWorking
          /\ Complete("READY")
          /\ paper' = Append(paper, data0)
          /\ reported' = Append(reported, asked)
       \/ /\ ~isWorking
          /\ Complete("PRNTERR")
          /\ UNCHANGED <<paper, reported>>

SetCondition(working) ==
    /\ Faults
    /\ isWorking' = working
    /\ UNCHANGED <<status, op, data0, request, paper, asked, reported>>

PrinterNext ==
    \/ \E c \in Characters : WriteData0(c)
    \/ \E c \in {"RESET", "ACK", "PRNTCHR", "unknown"} : Command(c)
    \/ CompleteReset
    \/ CompletePrint
    \/ \E working \in BOOLEAN : SetCondition(working)

PrinterSpec == PrinterInit /\ [][PrinterNext]_printerVars

(* The paper holds the characters whose printing was reported as a success,
   in the order of the commands and as they were at each command, whatever
   the guest writes and the user breaks in between (CompleteDevOp reads the
   register long after WriteDevReg has accepted the command). *)
PrintsWhatWasAsked == paper = reported

(* A printer takes one operation at a time and ends it with a request. *)
Driver == INSTANCE DeviceOperation WITH busy <- Busy
PrinterImplementsDevice == Driver!Spec
=============================================================================
