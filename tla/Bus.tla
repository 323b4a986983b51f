----------------------------------- MODULE Bus -----------------------------------
(***************************************************************************)
(* The bus as the map of memory (uriscv/systembus.cc, memspace.cc): which  *)
(* of the four memories or the registers an address belongs to, and the    *)
(* accesses of the cores, of the debugger, and of the devices, which copy  *)
(* whole blocks.                                                           *)
(*                                                                         *)
(* Addresses are counted in words.  The areas lie in the order of arch.h;  *)
(* the data of the BIOS ends where the registers begin.  There is one      *)
(* register of each kind: one that cannot be written, two that can, two of *)
(* each core.                                                              *)
(***************************************************************************)
EXTENDS Integers, Sequences

CONSTANTS
    Cpus,        \* the cores
    Words,       \* what a word of memory holds
    MAXWORDVAL,  \* what a read out of bounds gives
    BIOSDATABASE, MMIO_BASE, BOOTBASE, RAMBASE,
    BiosSize, BootSize, RamSize,
    BlockSize,   \* the words of a block
    NoCpu        \* NULL

VARIABLES
    ram, biosdata,  \* the two memories, by index
    rom,            \* the BIOS and the bootstrap ROM, by index
    regs,           \* registers that are kept
    tpr,            \* of each core, its task priority
    block,          \* the buffer of the device that transfers
    failed,         \* what the last transfer, or access, returned
    alive           \* the program has not followed a null pointer

vars == <<ram, biosdata, rom, regs, tpr, block, failed, alive>>
memories == <<ram, biosdata, rom, regs, tpr>>

INBOUNDS(a, b, c) == a >= b /\ a < c
CONVERT(a, base) == a - base

Registers == <<"size", "timer", "cdev", "device", "cpuctl">>
MMIO_END == MMIO_BASE + Len(Registers)
Register(a) == Registers[CONVERT(a, MMIO_BASE) + 1]
BiosDataSize == MMIO_BASE - BIOSDATABASE

InRam(a)      == INBOUNDS(a, RAMBASE, RAMBASE + RamSize)
InBiosData(a) == INBOUNDS(a, BIOSDATABASE, BIOSDATABASE + BiosDataSize)
InBios(a)     == INBOUNDS(a, 0, BiosSize)
InBoot(a)     == INBOUNDS(a, BOOTBASE, BOOTBASE + BootSize)
InMmio(a)     == INBOUNDS(a, MMIO_BASE, MMIO_END)

-----------------------------------------------------------------------------
(* One word: the state of all memories, changed or read at an address. *)

State == [ram |-> ram, biosdata |-> biosdata, rom |-> rom, regs |-> regs, tpr |-> tpr]

(* The registers of a core need to know the core. *)
NeedsCpu(a) == InMmio(a) /\ Register(a) \in {"cdev", "cpuctl"}

busRegRead(m, r, cpu) ==
    CASE r \in DOMAIN m.regs -> m.regs[r]
      [] r = "cpuctl"        -> m.tpr[cpu]
      [] OTHER               -> 0

BadRead(a) == ~(InRam(a) \/ InBiosData(a) \/ InBios(a) \/ InBoot(a) \/ InMmio(a))
busRead(m, a, cpu) ==
    CASE InRam(a)      -> m.ram[CONVERT(a, RAMBASE)]
      [] InBiosData(a) -> m.biosdata[CONVERT(a, BIOSDATABASE)]
      [] InBios(a)     -> m.rom["bios"][a]
      [] InBoot(a)     -> m.rom["boot"][CONVERT(a, BOOTBASE)]
      [] InMmio(a)     -> busRegRead(m, Register(a), cpu)
      [] OTHER         -> MAXWORDVAL

BadWrite(a) == ~(InRam(a) \/ InBiosData(a) \/ InMmio(a))

busRegWrite(m, r, w, cpu) ==
    CASE r \in DOMAIN m.regs -> [m EXCEPT !.regs[r] = w]
      [] r = "cpuctl"        -> [m EXCEPT !.tpr[cpu] = w]
      [] OTHER               -> m

busWrite(m, a, w, cpu) ==
    CASE InRam(a)      -> [m EXCEPT !.ram[CONVERT(a, RAMBASE)] = w]
      [] InBiosData(a) -> [m EXCEPT !.biosdata[CONVERT(a, BIOSDATABASE)] = w]
      [] InMmio(a)     -> busRegWrite(m, Register(a), w, cpu)
      [] OTHER         -> m

Become(m) ==
    /\ ram' = m.ram /\ biosdata' = m.biosdata /\ rom' = m.rom
    /\ regs' = m.regs /\ tpr' = m.tpr

-----------------------------------------------------------------------------
(* Transfers *)

(* A plausible bug: the loop goes on after an error. *)
Never(t) == FALSE
Ended(t) == t.error

(* One more word of a block that goes to memory: a transfer has changed the
   memories, has met an address out of bounds, or has followed NULL. *)
WordIn(t, a, w) ==
    IF Ended(t) \/ t.null THEN t
    ELSE IF InMmio(a) /\ Register(a) = "cpuctl" THEN [t EXCEPT !.null = TRUE]
    ELSE [t EXCEPT !.m = busWrite(t.m, a, w, NoCpu), !.error = BadWrite(a)]

CopiedIn(start, length) ==
    LET t[k \in 0..length] ==
        IF k = 0 THEN [m |-> State, error |-> FALSE, null |-> FALSE]
        ELSE WordIn(t[k - 1], start + k - 1, block[k])
    IN  t[length]

(* One more word of a block that comes from memory.  The word at fault is put
   into the block, too. *)
WordOut(t, a, k) ==
    IF Ended(t) \/ t.null THEN t
    ELSE IF NeedsCpu(a) THEN [t EXCEPT !.null = TRUE]
    ELSE [t EXCEPT !.block[k] = busRead(State, a, NoCpu), !.error = BadRead(a)]

CopiedOut(start, length) ==
    LET t[k \in 0..length] ==
        IF k = 0 THEN [block |-> block, error |-> FALSE, null |-> FALSE]
        ELSE WordOut(t[k - 1], start + k - 1, k)
    IN  t[length]

(* DMATransfer, of a block, and DMAVarTransfer, of a part of it; a start
   that is not a word address is refused before all this. *)
TransferIn(start, length) ==
    LET t == CopiedIn(start, length) IN
    /\ Become(t.m) /\ failed' = t.error /\ alive' = ~t.null
    /\ UNCHANGED block

TransferOut(start, length) ==
    LET t == CopiedOut(start, length) IN
    /\ block' = t.block /\ failed' = t.error /\ alive' = ~t.null
    /\ UNCHANGED memories

-----------------------------------------------------------------------------
(* DataWrite, and WatchWrite of the debugger, which acts as the first core. *)
DataWrite(a, w, cpu) ==
    /\ Become(busWrite(State, a, w, cpu))
    /\ failed' = BadWrite(a)
    /\ UNCHANGED <<block, alive>>

(* InstrRead, which fails on an address that cannot be read, but passes no
   core: a fetch from the registers of a core follows a null pointer. *)
InstrRead(a) ==
    /\ failed' = BadRead(a) /\ alive' = ~NeedsCpu(a)
    /\ UNCHANGED <<memories, block>>

(* The device fills its buffer with what it has read from its image. *)
Fill(words) == block' = words /\ UNCHANGED <<memories, failed, alive>>

Init ==
    /\ ram = [i \in 0..(RamSize - 1) |-> 0]
    /\ biosdata = [i \in 0..(BiosDataSize - 1) |-> 0]
    /\ rom = [bios |-> [i \in 0..(BiosSize - 1) |-> 1], boot |-> [i \in 0..(BootSize - 1) |-> 1]]
    /\ regs = [r \in {"timer", "device"} |-> 0]
    /\ tpr = [c \in Cpus |-> 0]
    /\ block = [k \in 1..BlockSize |-> 0]
    /\ failed = FALSE /\ alive = TRUE

Addresses == 0..(RAMBASE + RamSize)

Next ==
    /\ alive
    /\ \/ \E a \in Addresses :
            \/ \E w \in Words, cpu \in Cpus : DataWrite(a, w, cpu)
            \/ InstrRead(a)
            \/ \E length \in 1..BlockSize : TransferIn(a, length) \/ TransferOut(a, length)
       \/ \E words \in [1..BlockSize -> Words] : Fill(words)

Spec == Init /\ [][Next]_vars

-----------------------------------------------------------------------------
Plain == {a \in Addresses : InRam(a) \/ InBiosData(a) \/ InBios(a) \/ InBoot(a)}
Flat(m) == [a \in Plain |-> busRead(m, a, NoCpu)]
NewState == [ram |-> ram', biosdata |-> biosdata', rom |-> rom', regs |-> regs', tpr |-> tpr']

(* Of the words of memory at start and after it, those before the first bad
   address have been moved, and no other word has changed. *)
MovedIn(start, length, error) ==
    LET bad  == {k \in 0..(length - 1) : BadWrite(start + k)}
        upto == IF error THEN CHOOSE k \in bad : \A j \in bad : k <= j ELSE length
        new  == Flat(NewState)
        old  == Flat(State)
    IN  /\ error <=> bad # {}
        /\ \A b \in Plain : new[b] = IF b \in start..(start + upto - 1)
                                     THEN block[b - start + 1] ELSE old[b]

MovedOut(start, length, error) ==
    LET bad == {k \in 0..(length - 1) : BadRead(start + k)}
        old == Flat(State)
    IN  /\ error <=> bad # {}
        /\ ~error => \A b \in Plain \cap start..(start + length - 1) :
                        block'[b - start + 1] = old[b]

(* All accesses, whichever way they decode the address, see one flat memory:
   a word that is written, by a core or by a device, is the word read there
   next and no other one changes, ROM never does; a transfer that is not
   reported as failed has moved all its words, one that is reported those
   before the first bad address (SystemBus::busRead, busWrite, DMATransfer,
   DMAVarTransfer; the devices base their status on it). *)
IsHonest ==
    alive' => \A a \in Addresses :
        /\ \A length \in 1..BlockSize :
              /\ TransferIn(a, length) => MovedIn(a, length, failed')
              /\ TransferOut(a, length) => MovedOut(a, length, failed')
        /\ \A w \in Words, cpu \in Cpus : DataWrite(a, w, cpu) =>
              \A b \in Plain : Flat(NewState)[b] =
                  IF b = a /\ ~failed' THEN w ELSE Flat(State)[b]

AccessesAreHonest == [][IsHonest]_vars
=============================================================================
