------------------------------- MODULE FrontEnds -------------------------------
(***************************************************************************)
(* What is around the machine and can be reasoned about together: the stop *)
(* points (StopPoints), the GDB server (GDBServer) and the configuration   *)
(* (MachineConfig).  They share no state.                                  *)
(***************************************************************************)
EXTENDS StopPoints

CONSTANTS
    Addrs, MaxList, MaxInbox,                       \* see GDBServer
    NoConfig, Off, Fields, Slots, Nets, Names,      \* see MachineConfig
    Quoted, Macs, FilesByHand, Chosen

VARIABLES
    pc, breakpoints, stopped, stepper, s, server, inbox, debugger,
    disturbed, wanted, fresh,
    config, file, built, editable, alive

gdbVars    == <<pc, breakpoints, stopped, stepper, s, server, inbox, debugger,
                disturbed, wanted, fresh>>
configVars == <<config, file, built, editable, alive>>

Gdb    == INSTANCE GDBServer
Config == INSTANCE MachineConfig WITH machine <- built

ASSUME SessionAssumption ==
    Addrs \in Nat \ {0} /\ MaxList \in Nat /\ MaxInbox \in Nat

(* What a file may contain that somebody has edited, and what the dialog and
   the options of mkconfig let the user choose (MachineConfig). *)
Readable(j) == j.damage = "none" =>
    /\ \A f \in DOMAIN j.numbers : j.numbers[f] \in Int
    /\ j.floor \subseteq Nat
    /\ \A r \in DOMAIN j.roms : j.roms[r] \in Names \cup {Config!NoName}
    /\ \A d \in DOMAIN j.dev : j.dev[d] \in Config!Slot
    /\ \A n \in DOMAIN j.mac : j.mac[n] \in Macs \cup {Config!NoMac}
Choice(w) ==
    /\ w.num \in [Fields -> Int] /\ w.floor \in Config!FloorChoices
    /\ w.roms \in [Config!Roms -> Names \cup {Config!NoName}]
    /\ w.dev \in [Slots -> Config!Slot]
    /\ w.mac \in [Nets -> Macs \cup {Config!NoMac}]

ASSUME ConfigAssumption ==
    /\ Fields \subseteq DOMAIN Config!Limits /\ "num-ram-frames" \in Fields
    /\ Nets \subseteq Slots
    /\ Names \ Quoted # {}
    /\ NoConfig \notin Config!Config
    /\ Off \notin [num : [Fields -> Nat], devices : SUBSET Slots]
    /\ \A j \in FilesByHand : Readable(j)
    /\ \A w \in Chosen : Choice(w)

(* The properties of each: see there. *)
SessionInv == Gdb!SessionInv
StopsAtBreakpoints == Gdb!StopsAtBreakpoints
HitIsReported == Gdb!HitIsReported
ConfigInv == Config!ConfigInv
DialogKeeps == Config!DialogKeeps
=============================================================================
