------------------------------ MODULE MachineConfig ------------------------------
(***************************************************************************)
(* The configuration of the machine: the object (uriscv/machine_config.cc, *)
(* MachineConfig), the JSON file that keeps it, the dialog that edits it   *)
(* (qriscv/machine_config_dialog.cc), the command that makes such a file   *)
(* (uriscv/mkconfig.cc), and the machine that is built from it and whose   *)
(* views go on reading it (qriscv/application.cc, monitor_window.cc,       *)
(* debug_session.cc).                                                      *)
(*                                                                         *)
(* Addresses are counted in frames of 4 KB.  A file may be edited by hand  *)
(* in any way; the properties look at what the program makes of it.        *)
(***************************************************************************)
EXTENDS Integers

CONSTANTS
    Fields,      \* the numbers a behaviour looks at, of those of Limits
    Slots,       \* device slots
    Nets,        \* those of them that are network adapters
    Names,       \* file names but the empty one
    Quoted,      \* those of them that contain a quote
    Macs,        \* MAC addresses, as ParseMACId accepts them
    NoConfig,    \* there is no configuration
    Off,         \* the machine is off
    FilesByHand, \* bound: what hand-edited files contain
    Chosen       \* bound: what the user and the options of mkconfig ask for

VARIABLES
    config,      \* the current configuration, NoConfig at first
    file,        \* the file it is saved to
    machine,     \* of the machine that is on: what it was built with
    editable,    \* the action that edits the configuration is enabled
    alive        \* the program has not been ended by an exception

vars == <<config, file, machine, editable, alive>>

NoName == "no name"
NoMac  == "no address"

Limits == [f \in {"num-processors", "clock-rate", "tlb-size", "num-ram-frames", "asid"} |->
    CASE f = "num-processors" -> [min |-> 1, default |-> 1,  max |-> 16]
      [] f = "clock-rate"     -> [min |-> 1, default |-> 1,  max |-> 99]
      [] f = "tlb-size"       -> [min |-> 4, default |-> 16, max |-> 64]
      [] f = "num-ram-frames" -> [min |-> 8, default |-> 64, max |-> 512]
      [] f = "asid"           -> [min |-> 0, default |-> 64, max |-> 64]]

RAMBASE    == 131072                  \* 0x20000000
MINWORDVAL == 0
MAXWORDVAL == 1048575                 \* the frame of 0xFFFFFFFF
FloorChoices == {MINWORDVAL, 262144, 524288, MAXWORDVAL}

Roms  == {"boot", "bios", "stab"}
Slot  == [file : Names \cup {NoName}, enabled : BOOLEAN]
Config == [num   : [Fields -> Nat], floor : Nat,
           roms  : [Roms -> Names \cup {NoName}],
           dev   : [Slots -> Slot], mac : [Nets -> Macs \cup {NoMac}]]

-----------------------------------------------------------------------------
(* MachineConfig *)

(* The argument of the setters is unsigned: a number that is negative, after
   it did not fit in an int, is a large one. *)
bumpProperty(f, v) ==
    IF v < 0 \/ v > Limits[f].max THEN Limits[f].max
    ELSE IF v < Limits[f].min THEN Limits[f].min ELSE v

SetNumbers(c, values) ==
    [c EXCEPT !.num = [f \in Fields |-> IF f \in DOMAIN values
                                        THEN bumpProperty(f, values[f]) ELSE @[f]]]

RamTop(c) == RAMBASE + c.num["num-ram-frames"]

setTLBFloorAddress(c, addr) ==
    [c EXCEPT !.floor = IF addr = MINWORDVAL THEN RamTop(c) ELSE addr]

FactorySettings ==
    [num   |-> [f \in Fields |-> Limits[f].default],
     floor |-> MAXWORDVAL,
     roms  |-> [r \in Roms |-> CHOOSE n \in Names \ Quoted : TRUE],
     dev   |-> [s \in Slots |-> [file |-> NoName, enabled |-> FALSE]],
     mac   |-> [n \in Nets |-> NoMac]]

Validate(c) == \A r \in Roms : c.roms[r] # NoName

(* A file: what is wrong with it, if anything, and the members it has. *)
Broken == [damage |-> "syntax"]
Good(numbers, floor, roms, dev, mac) ==
    [damage |-> "none", numbers |-> numbers, floor |-> floor, roms |-> roms,
     dev |-> dev, mac |-> mac]

(* Save.  Strings are not escaped; a slot without a file is left out, with
   all that belongs to it. *)
KeptSlots(c) == {s \in Slots : c.dev[s].file # NoName}
NamesIn(c) == {c.roms[r] : r \in Roms} \cup {c.dev[s].file : s \in Slots}

Saved(c) ==
    IF NamesIn(c) \cap Quoted # {} THEN Broken
    ELSE Good(c.num, {c.floor}, c.roms, [s \in KeptSlots(c) |-> c.dev[s]],
              [n \in {m \in KeptSlots(c) \cap Nets : c.mac[m] # NoMac} |-> c.mac[n]])

Overridden(old, new) ==
    [x \in DOMAIN old |-> IF x \in DOMAIN new THEN new[x] ELSE old[x]]

(* The members are read in the order of the code: the floor before the size
   of the memory. *)
NumbersAndFloor(c, j) ==
    LET before == [f \in DOMAIN j.numbers \ {"num-ram-frames"} |-> j.numbers[f]]
        c1 == SetNumbers(c, before)
        c2 == IF j.floor = {} THEN c1
              ELSE setTLBFloorAddress(c1, CHOOSE a \in j.floor : TRUE)
    IN  SetNumbers(c2, j.numbers)

(* LoadFromFile, of a file without damage. *)
Loaded(j) ==
    LET c == NumbersAndFloor(FactorySettings, j)
    IN  [c EXCEPT !.roms = Overridden(@, j.roms),
                  !.dev  = Overridden(@, j.dev),
                  !.mac  = Overridden(@, j.mac)]

-----------------------------------------------------------------------------
(* The dialog: what its widgets show of a configuration, and what is saved
   from them. *)

(* The sizes of the list are powers of two; another one is shown as the
   first. *)
TlbSizes == {4, 8, 16, 32, 64}
ShownNumbers(c) ==
    [f \in Fields |-> IF f = "tlb-size" /\ c.num[f] \notin TlbSizes
                      THEN Limits[f].min ELSE c.num[f]]
ShownFloor(c) == IF c.floor \in FloorChoices THEN c.floor ELSE MINWORDVAL
ShownSlots(c) == c.dev
ShownMacs(c)  == c.mac
Shown(c) ==
    [num |-> ShownNumbers(c), floor |-> ShownFloor(c), roms |-> c.roms,
     dev |-> ShownSlots(c), mac |-> ShownMacs(c)]

(* A plausible bug: the floor is set before the size of the memory. *)
FloorFirst(c, w) == SetNumbers(setTLBFloorAddress(c, w.floor), w.num)
saveNumbers(c, w) == setTLBFloorAddress(SetNumbers(c, w.num), w.floor)

saveDevices(c, w) == [c EXCEPT !.dev = w.dev]
saveNetwork(c, w) == [c EXCEPT !.mac = w.mac]

(* All of them, when the dialog is accepted. *)
saveConfigChanges(c, w) ==
    saveNetwork(saveDevices([saveNumbers(c, w) EXCEPT !.roms = w.roms], w), w)

(* mkconfig: an empty answer leaves a device as it was. *)
askForDevice(c, answers) ==
    [c EXCEPT !.dev = [s \in Slots |-> IF answers[s].file = NoName THEN @[s] ELSE answers[s]]]

(* Of a new file, with the numbers of its options and the devices
   it asks for. *)
Made(opts) ==
    LET c1 == SetNumbers(FactorySettings,
                  [f \in Fields \ {"num-ram-frames"} |-> opts.num[f]])
        c2 == setTLBFloorAddress(c1, opts.floor)
        c3 == SetNumbers(c2, opts.num)
    IN  askForDevice([c3 EXCEPT !.roms = opts.roms], opts.dev)

-----------------------------------------------------------------------------
(* The program *)

Init ==
    /\ config = NoConfig
    /\ file \in {Saved(Made(opts)) : opts \in Chosen}
    /\ machine = Off
    /\ editable = FALSE
    /\ alive = TRUE

On == machine # Off

(* A plausible bug: the machine stays on. *)
KeepsMachine == UNCHANGED machine /\ editable' = TRUE
HaltsMachine == machine' = Off /\ editable' = TRUE
setCurrentConfig(c) == config' = c /\ HaltsMachine

(* LoadConfig.  A file that is refused leaves everything as it was, but a
   floor that is no number ends the program. *)
LoadConfig ==
    /\ \/ file.damage = "none" /\ setCurrentConfig(Loaded(file)) /\ UNCHANGED alive
       \/ file.damage \in {"syntax", "type"} /\ UNCHANGED <<config, machine, editable, alive>>
       \/ file.damage = "floor" /\ alive' = FALSE /\ UNCHANGED <<config, machine, editable>>
    /\ UNCHANGED file

(* A file that cannot be written may be empty afterwards. *)
CreateConfig ==
    LET c == FactorySettings IN
    \/ file' = Saved(c) /\ setCurrentConfig(c) /\ UNCHANGED alive
    \/ file' \in {file, Broken} /\ UNCHANGED <<config, machine, editable, alive>>

EditConfig(w) ==
    /\ editable
    /\ config' = saveConfigChanges(config, w)
    /\ file' \in {Saved(config'), file, Broken}
    /\ UNCHANGED <<machine, editable, alive>>

(* Another program, or the user, writes the file. *)
EditFile(j) == file' = j /\ UNCHANGED <<config, machine, editable, alive>>

(* initializeMachine, which may also fail for want of the files that the
   configuration names.  A device is there if it is enabled and has a file. *)
Installed(c) == {s \in Slots : c.dev[s].enabled /\ c.dev[s].file # NoName}
Built(c) == [num |-> c.num, devices |-> Installed(c)]
StartMachine ==
    /\ config # NoConfig /\ ~On
    /\ Validate(config)
    /\ machine' = Built(config) /\ editable' = FALSE
    /\ UNCHANGED <<config, file, alive>>

HaltMachine == On /\ HaltsMachine /\ UNCHANGED <<config, file, alive>>

ResetMachine ==
    /\ On
    /\ \/ Validate(config) /\ machine' = Built(config) /\ UNCHANGED editable
       \/ HaltsMachine
    /\ UNCHANGED <<config, file, alive>>

(* The widgets of the dialog: as they are, or with other choices. *)
Widgets == {Shown(config)} \cup Chosen

Next ==
    /\ alive
    /\ \/ LoadConfig \/ CreateConfig
       \/ editable /\ \E w \in Widgets : EditConfig(w)
       \/ \E j \in FilesByHand : EditFile(j)
       \/ StartMachine \/ HaltMachine \/ ResetMachine

Spec == Init /\ [][Next]_vars

-----------------------------------------------------------------------------

WithinLimits == config # NoConfig => \A f \in Fields :
    Limits[f].min <= config.num[f] /\ config.num[f] <= Limits[f].max

(* The views of a machine that is on count its cores, and the entries of its
   TLBs, in the configuration: it must be the one the machine was built from
   (processor_list_model.cc, cpu_status_map.cc, tlb_model.cc; the assertions
   of Machine::getStopCause). *)
MachineIsConfigured == On => config # NoConfig /\ machine = Built(config)

(* A configuration that is saved and loaded again is the same, except for a
   device without a file, of which nothing is kept; a name with a quote
   makes the file unreadable (MachineConfig::Save, LoadFromFile). *)
Essential(c) ==
    [c EXCEPT !.dev = [s \in Slots |-> IF @[s].file = NoName
                                       THEN FactorySettings.dev[s] ELSE @[s]],
              !.mac = [n \in Nets |-> IF c.dev[n].file = NoName THEN NoMac ELSE @[n]]]
SavedIsLoaded == config # NoConfig =>
    LET j == Saved(config) IN
    \/ j.damage = "none" /\ Loaded(j) = Essential(config)
    \/ j.damage # "none" /\ NamesIn(config) \cap Quoted # {}

(* The configuration is one that the rest of the program can rely on: within
   the limits, that of the machine that is on, and not lost when it is
   saved. *)
ConfigInv ==
    /\ config # NoConfig => config \in Config
    /\ WithinLimits /\ MachineIsConfigured /\ SavedIsLoaded
    /\ editable <=> config # NoConfig /\ ~On

(* After the dialog the floor is one of its choices or the top of memory,
   whichever sizes were chosen; and a dialog that is accepted as it was
   opened only replaces a TLB size and a floor that it cannot show. *)
DialogKeeps ==
    [][editable => \A w \in Widgets : EditConfig(w) =>
        /\ config'.floor \in FloorChoices \cup {RamTop(config')}
        /\ w = Shown(config) => \A f \in Fields :
              config'.num[f] = config.num[f]
                  \/ (f = "tlb-size" /\ config.num[f] \notin TlbSizes)
        /\ w = Shown(config) =>
              config'.floor = config.floor \/ config.floor \notin FloorChoices]_vars

(* The option of mkconfig: "TLB floor { 0x0(RAMTOP) ...". *)
FloorIsOutsideMemory ==
    config # NoConfig => config.floor \in FloorChoices \cup {RamTop(config)}
=============================================================================
