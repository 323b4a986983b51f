---------------------------------- MODULE TLB ----------------------------------
(***************************************************************************)
(* The translation of virtual addresses (uriscv/processor.cc, TLBEntry and *)
(* mapVirtual).  Addresses below TlbFloor are physical.  The pages above   *)
(* are looked up in a table of TlbSize entries that the guest fills; the   *)
(* addresses below KUSEGBASE are refused to user mode.                     *)
(*                                                                         *)
(* An address is a number of bytes; its page is its VPN or, in the table,  *)
(* its PFN.  ENTRYHI is the record [vpn, asid] and an entry the record     *)
(* [vpn, asid, pfn, g, v, d]: the fields of the two words of the code.     *)
(***************************************************************************)
EXTENDS Integers, FiniteSetsExt

CONSTANTS
    PageSize,    \* bytes of a page (4096 in the code)
    Space,       \* number of addresses (2^32)
    TlbFloor,    \* the first address that is translated
    KUSEGBASE,   \* the first address open to user mode
    TlbSize      \* entries of the table

WORDLEN == 4

Addr  == 0..(Space - 1)
Pages == {a \div PageSize : a \in Addr}
Index == 0..(TlbSize - 1)

ASSUME TLBAssumption ==
    /\ PageSize \in Nat \ {0} /\ PageSize % WORDLEN = 0
    /\ Space \in Nat \ {0} /\ Space % PageSize = 0
    /\ TlbFloor \in Addr /\ KUSEGBASE \in Addr
    /\ TlbSize \in Nat /\ TlbSize > 1

VPN(a)      == a \div PageSize
PHADDR(a, pfn) == pfn * PageSize + (a % PageSize)
BADADDR(a)  == a % WORDLEN # 0
ALIGN(a)    == a - (a % WORDLEN)

Asids == 0..1      \* bound: address spaces (64 in the code)

EntryHi == [vpn : Pages, asid : Asids]
EntryLo == [pfn : Pages, g : BOOLEAN, v : BOOLEAN, d : BOOLEAN]
Entry   == [vpn : Pages, asid : Asids, pfn : Pages,
            g : BOOLEAN, v : BOOLEAN, d : BOOLEAN]

Blank == [vpn |-> 0, asid |-> 0, pfn |-> 0, g |-> FALSE, v |-> FALSE, d |-> FALSE]

(* An entry written from ENTRYHI and ENTRYLO, and the two parts read back. *)
EntryOf(hi, lo) == [vpn |-> hi.vpn, asid |-> hi.asid, pfn |-> lo.pfn,
                    g |-> lo.g, v |-> lo.v, d |-> lo.d]
HiOf(e) == [vpn |-> e.vpn, asid |-> e.asid]
LoOf(e) == [pfn |-> e.pfn, g |-> e.g, v |-> e.v, d |-> e.d]

(* The entries of a page in an address space. *)
Matches(tlb, asid, vpn) ==
    {i \in Index : tlb[i].vpn = vpn /\ (tlb[i].g \/ tlb[i].asid = asid)}

(* The scan keeps the last entry it finds. *)
ProbeTLB(tlb, asid, vpn) == Max(Matches(tlb, asid, vpn))

(* The exceptions of an access: acc is "EXEC", "READ" or "WRITE".  Those of
   the table leave the page in ENTRYHI. *)
NOEXCEPTION == 0
EXC_LAF     == 5
EXC_SAF     == 7
EXC_MOD     == 24
EXC_TLBL    == 25
EXC_TLBS    == 26
EXC_UTLBL   == 27
EXC_UTLBS   == 28

AddressFaults == {EXC_LAF, EXC_SAF}
TableFaults   == {EXC_MOD, EXC_TLBL, EXC_TLBS, EXC_UTLBL, EXC_UTLBS}

Refused(user, a) == BADADDR(a) \/ (user /\ a < KUSEGBASE)
Direct(a) == a < TlbFloor

TableFault(tlb, asid, a, acc) ==
    LET found == Matches(tlb, asid, VPN(a))
        e     == tlb[ProbeTLB(tlb, asid, VPN(a))]
    IN  CASE found = {} -> IF acc = "WRITE" THEN EXC_UTLBS ELSE EXC_UTLBL
          [] found # {} /\ ~e.v -> IF acc = "WRITE" THEN EXC_TLBS ELSE EXC_TLBL
          [] found # {} /\ e.v /\ acc = "WRITE" /\ ~e.d -> EXC_MOD
          [] OTHER -> NOEXCEPTION

(* The exception of an access to address a, NOEXCEPTION if it goes through. *)
Fault(tlb, asid, user, a, acc) ==
    CASE Refused(user, a) -> IF acc = "WRITE" THEN EXC_SAF ELSE EXC_LAF
      [] ~Refused(user, a) /\ Direct(a) -> NOEXCEPTION
      [] OTHER -> TableFault(tlb, asid, a, acc)

(* Where an access that goes through ends up. *)
Physical(tlb, asid, a) ==
    IF Direct(a) THEN a
    ELSE PHADDR(a, tlb[ProbeTLB(tlb, asid, VPN(a))].pfn)

(* TLBCLR: the first entry is left alone. *)
Zapped(tlb) == [i \in Index |-> IF i = 0 THEN tlb[0] ELSE Blank]
=============================================================================
