------------------------------- MODULE GuestProofs -------------------------------
(***************************************************************************)
(* Proofs about Processor, for every table, address space, set of          *)
(* interrupt lines and set of inputs: PipelineInv is inductive, interrupts *)
(* are taken, and the pipeline implements Hart; about the firmware, for    *)
(* any number of cores: BiosInv; and about programs, for words of any size *)
(* and any instructions, registers and memory: ShowsWhatRuns and           *)
(* RunsTheManual.                                                          *)
(*                                                                         *)
(* The three about Processor go by the same argument.  Every instruction   *)
(* comes to the end of a cycle (Completes), but for a WFI that stalls; it  *)
(* starts from registers that are those of Hart after the instruction      *)
(* (Outcome).  What the end of a cycle does is then shown once, whatever   *)
(* the instruction: the fetch succeeds, or the core is about to enter a    *)
(* handler.                                                                *)
(*                                                                         *)
(* The two about programs go opcode by opcode: what the code does, what    *)
(* the manual says, and the arithmetic that makes them equal.  Fields are  *)
(* numbers of a fixed range; words are not, so that what is split by       *)
(* shifts is reasoned about by the uniqueness of a division and its        *)
(* remainder, and the bits of And by induction on their number.            *)
(***************************************************************************)
EXTENDS Guest, Recursion, TLAPS

(* A set of numbers below a bound has a greatest one. *)
LEMMA MaxIsElement ==
    ASSUME NEW n \in Nat, NEW S, S \subseteq 0..n, S # {}
    PROVE  Max(S) \in S
<1> DEFINE T == {n - x : x \in S}
<1> HIDE DEF T
<1>0. \A x \in S : n - x \in Nat
  OBVIOUS
<1>1. T \subseteq Nat /\ T # {}
  BY <1>0 DEF T
<1>2. PICK m \in T : \A y \in T : ~(<<y, m>> \in OpToRel(<, Nat))
  BY <1>1, NatLessThanWellFounded, WFMin
<1>3. \A y \in T : m <= y
  <2> SUFFICES ASSUME NEW y \in T, y < m
               PROVE  FALSE
    BY <1>1
  <2>1. <<y, m>> \in Nat \X Nat /\ <<y, m>>[1] < <<y, m>>[2]
    BY <1>1
  <2> QED
    BY <1>2, <2>1 DEF OpToRel
<1>4. PICK x \in S : m = n - x
  BY DEF T
<1>5. \A y \in S : x >= y
  BY <1>3, <1>4 DEF T
<1> QED
  BY <1>5 DEF Max

LEMMA PlusIsAddr ==
    ASSUME NEW a \in Addr, NEW n \in Nat
    PROVE  Plus(a, n) \in Addr
  BY TLBAssumption DEF TLBAssumption, Plus, Addr

LEMMA VectorIsAddr ==
    ASSUME NEW c \in Core
    PROVE  Vector(c) \in Addr
  BY ProcessorAssumption DEF ProcessorAssumption, Vector, Core

LEMMA FaultRange ==
    ASSUME NEW t, NEW asid, NEW user, NEW a, NEW acc
    PROVE  Fault(t, asid, user, a, acc) \in
               {NOEXCEPTION} \cup AddressFaults \cup TableFaults
<1>1. TableFault(t, asid, a, acc) \in {NOEXCEPTION} \cup TableFaults
  BY DEF TableFault, TableFaults
<1> QED
  BY <1>1 DEF Fault, AddressFaults

-----------------------------------------------------------------------------
(* The parts of a cycle lead from registers to registers. *)

LEMMA TickedIsCore ==
    ASSUME NEW c \in Core
    PROVE  /\ Ticked(c) \in Core
           /\ Ticked(c).status \in {c.status, Woken(c.status)}
<1>1. IL_CPUTIMER \in Lines /\ (c.time - 1) % W \in 0..(W - 1)
  BY ProcessorAssumption DEF ProcessorAssumption, Core
<1>2. Woken(c.status) \in {"RUNNING", "IDLE", "HALTED"}
  BY DEF Core, Woken
<1>3. Asserted(c, IL_CPUTIMER) \in Core
  BY <1>1, <1>2 DEF Core, Asserted
<1>4. Deasserted(c, IL_CPUTIMER) \in Core
  BY DEF Core, Deasserted
<1>5. \A r \in Core : [r EXCEPT !.time = (c.time - 1) % W] \in Core
  BY <1>1 DEF Core
<1>6. Ticked(c) \in Core
  BY <1>3, <1>4, <1>5 DEF Ticked, Core
<1> QED
  BY <1>6 DEF Ticked, Asserted, Deasserted, Core

LEMMA ExceptedIsCore ==
    ASSUME NEW c \in Core, NEW cause \in Causes
    PROVE  Excepted(c, cause) \in Core
<1>1. Vector(c) \in Addr /\ Plus(Vector(c), WORDLEN) \in Addr
  BY VectorIsAddr, PlusIsAddr DEF WORDLEN
<1>2. Pushed(c) \in Core
  BY DEF Pushed, Core
<1> QED
  BY <1>1, <1>2 DEF Excepted, Core

LEMMA TrapIsCore ==
    ASSUME NEW c \in Core, NEW cause \in Causes
    PROVE  TrapEntry(c, cause) \in Core
<1>1. /\ Vector(c) \in Addr /\ Plus(Vector(c), WORDLEN) \in Addr
      /\ Plus(Vector(c), 2 * WORDLEN) \in Addr
  BY VectorIsAddr, PlusIsAddr DEF WORDLEN
<1>2. Pushed(c) \in Core
  BY DEF Pushed, Core
<1> QED
  BY <1>1, <1>2 DEF TrapEntry, Core

LEMMA FaultedIsCore ==
    ASSUME NEW c \in Core, NEW a \in Addr, NEW cause \in Causes
    PROVE  Faulted(c, a, cause) \in Core
<1>1. VPN(a) \in Pages
  BY DEF VPN, Pages
<1>2. [c EXCEPT !.entryHi.vpn = VPN(a)] \in Core
  BY <1>1 DEF Core, EntryHi
<1> QED
  BY <1>2, ExceptedIsCore DEF Faulted

LEMMA AdvancedIsCore ==
    ASSUME NEW c \in Core
    PROVE  Advanced(c) \in Core
<1>1. Plus(c.succ, WORDLEN) \in Addr
  BY PlusIsAddr DEF Core, WORDLEN
<1>2. RandomTick(c.random) \in Index
  BY TLBAssumption DEF TLBAssumption, RandomTick, Core, Index
<1> QED
  BY <1>1, <1>2 DEF Advanced, Core

LEMMA CheckedIsCore ==
    ASSUME NEW c \in Core
    PROVE  Checked(c) \in Core
<1>1. CASE c.mie /\ Pending(c) # {}
  <2>1. Pending(c) \subseteq Lines /\ Pending(c) \subseteq 0..31
    <3>1. Pending(c) \subseteq Lines
      BY DEF Pending, Core
    <3>2. \A l \in Lines : l \in 0..31
      BY ProcessorAssumption DEF ProcessorAssumption
    <3> QED
      BY <3>1, <3>2
  <2>2. Max(Pending(c)) \in Lines
    BY <1>1, <2>1, MaxIsElement
  <2> QED
    BY <1>1, <2>2, TrapIsCore DEF Checked, Interrupted, Causes
<1> QED
  BY <1>1 DEF Checked

LEMMA OnIsCore ==
    ASSUME NEW c \in Core
    PROVE  On(c) \in Core
  BY PlusIsAddr DEF On, Core, WORDLEN

-----------------------------------------------------------------------------
(* A cycle *)

(* The fetch: it succeeds, or the core is about to enter a handler. *)
LEMMA FetchStep ==
    ASSUME NEW c \in Core, NEW t
    PROVE  /\ AfterFetch(c, t) \in Core
           /\ AfterFetch(c, t).status = c.status
           /\ \/ /\ FetchFault(c, t) = NOEXCEPTION
                 /\ AfterFetch(c, t) = [c EXCEPT !.skipCycle = FALSE]
              \/ /\ AfterFetch(c, t).skipCycle
                 /\ AfterFetch(c, t).next = Vector(AfterFetch(c, t))
                 /\ AfterFetch(c, t).mode = "M"
                 /\ AfterFetch(c, t).mie = FALSE
<1> DEFINE f == FetchFault(c, t)
           e == AfterFetch(c, t)
<1>1. f \in {NOEXCEPTION, EXC_IAF} \cup AddressFaults \cup TableFaults
  BY FaultRange DEF FetchFault
<1>2. CASE f = NOEXCEPTION
  <2>1. e = [c EXCEPT !.skipCycle = FALSE]
    BY <1>2 DEF AfterFetch, EXC_IAF, NOEXCEPTION
  <2> QED
    BY <1>2, <2>1 DEF Core
<1>3. ASSUME NEW d \in Core
      PROVE  /\ [d EXCEPT !.skipCycle = TRUE] \in Core
             /\ [d EXCEPT !.skipCycle = TRUE].status = d.status
             /\ [d EXCEPT !.skipCycle = TRUE].skipCycle
             /\ [d EXCEPT !.skipCycle = TRUE].next = d.next
             /\ [d EXCEPT !.skipCycle = TRUE].mode = d.mode
             /\ [d EXCEPT !.skipCycle = TRUE].mie = d.mie
             /\ [d EXCEPT !.skipCycle = TRUE].mtvec = d.mtvec
  <2>1. [d EXCEPT !.skipCycle = TRUE] \in Core
    BY DEF Core
  <2>2. /\ [d EXCEPT !.skipCycle = TRUE].status = d.status
        /\ [d EXCEPT !.skipCycle = TRUE].skipCycle
        /\ [d EXCEPT !.skipCycle = TRUE].next = d.next
    BY DEF Core
  <2>3. /\ [d EXCEPT !.skipCycle = TRUE].mode = d.mode
        /\ [d EXCEPT !.skipCycle = TRUE].mie = d.mie
        /\ [d EXCEPT !.skipCycle = TRUE].mtvec = d.mtvec
    BY DEF Core
  <2> QED
    BY <2>1, <2>2, <2>3
<1>4. \A cause : /\ Excepted(c, cause).status = c.status
                /\ Excepted(c, cause).next = Vector(c)
                /\ Excepted(c, cause).mode = "M"
                /\ Excepted(c, cause).mie = FALSE
                /\ Excepted(c, cause).mtvec = c.mtvec
  BY DEF Excepted, Pushed, Core
<1>5. CASE f = EXC_IAF
  <2>1. e = [Excepted(c, EXC_IAF) EXCEPT !.skipCycle = TRUE]
    BY <1>5 DEF AfterFetch, EXC_IAF, NOEXCEPTION
  <2>2. Excepted(c, EXC_IAF) \in Core
    BY ExceptedIsCore DEF Causes
  <2> QED
    BY <1>3, <1>4, <2>1, <2>2 DEF Vector
<1>6. CASE f \in AddressFaults \cup TableFaults
  <2>1. e = [Faulted(c, c.pc, f) EXCEPT !.skipCycle = TRUE]
    BY <1>6 DEF AfterFetch, EXC_IAF, NOEXCEPTION, AddressFaults, TableFaults,
         EXC_LAF, EXC_SAF, EXC_MOD, EXC_TLBL, EXC_TLBS, EXC_UTLBL, EXC_UTLBS
  <2>2. f \in Causes /\ c.pc \in Addr
    BY <1>6 DEF Causes, ExecFaults, Core
  <2>3. Faulted(c, c.pc, f) \in Core
    BY <2>2, FaultedIsCore
  <2>4. /\ Faulted(c, c.pc, f).status = c.status
        /\ Faulted(c, c.pc, f).next = Vector(c)
        /\ Faulted(c, c.pc, f).mode = "M"
        /\ Faulted(c, c.pc, f).mie = FALSE
        /\ Faulted(c, c.pc, f).mtvec = c.mtvec
    BY DEF Faulted, Excepted, Pushed, Core, Vector
  <2> QED
    BY <1>3, <2>1, <2>3, <2>4 DEF Vector
<1> QED
  BY <1>1, <1>2, <1>5, <1>6

LEMMA CompleteStep ==
    ASSUME fetched \in Fetched,
           NEW c \in Core, c.status = "RUNNING",
           NEW t \in [Index -> Entry],
           Complete(c, t)
    PROVE  PipelineInv'
<1> DEFINE d == Checked(Advanced(c))
           e == AfterFetch(d, t)
<1>1. cpu' = e /\ tlb' = t
      /\ fetched' = IF e.skipCycle THEN fetched ELSE Read(d, t)
  BY DEF Complete
<1>2. d \in Core
  BY AdvancedIsCore, CheckedIsCore
<1>3. d.status = "RUNNING"
  BY DEF Checked, Advanced, Interrupted, TrapEntry, Pushed, Core
<1> HIDE DEF d
<1>4. e \in Core /\ e.status = "RUNNING"
  BY <1>2, <1>3, FetchStep
<1>5. CASE /\ FetchFault(d, t) = NOEXCEPTION
           /\ e = [d EXCEPT !.skipCycle = FALSE]
  <2>1. /\ ~e.skipCycle
        /\ e.pc = d.pc /\ e.mode = d.mode /\ e.entryHi = d.entryHi
    BY <1>2, <1>5 DEF Core
  <2>2. fetched' = Read(d, t)
    BY <1>1, <2>1
  <2>3. Physical(t, d.entryHi.asid, d.pc) \in Addr
    BY <1>5, ProcessorAssumption
       DEF ProcessorAssumption, FetchFault, NOEXCEPTION, EXC_IAF
  <2>4. fetched' \in Fetched
    BY <1>2, <2>2, <2>3 DEF Read, Fetched, Core
  <2>5. FetchFault(e, t) = NOEXCEPTION
    BY <1>5, <2>1 DEF FetchFault
  <2> HIDE DEF e
  <2>6. FetchedHere'
    BY <1>1, <2>1, <2>2, <2>5 DEF FetchedHere, Read
  <2> QED
    BY <1>1, <1>4, <2>1, <2>4, <2>6
       DEF PipelineInv, TypeOK, NullifiedGoesToHandler, SleepsInWfi
<1>6. CASE /\ e.skipCycle /\ e.next = Vector(e)
           /\ e.mode = "M" /\ e.mie = FALSE
  <2> HIDE DEF e
  <2> QED
    BY <1>1, <1>4, <1>6
       DEF PipelineInv, TypeOK, FetchedHere, NullifiedGoesToHandler, SleepsInWfi
<1> QED
  BY <1>2, <1>5, <1>6, FetchStep

-----------------------------------------------------------------------------
(* What an instruction leaves, and what Hart makes of it *)

(* A core as Hart sees it, before the instruction at pc. *)
At(c, pc) == [pc   |-> pc, mode |-> c.mode, mie |-> c.mie, mpie |-> c.mpie,
              mpp  |-> c.mpp, mepc |-> c.mepc, mcause |-> c.mcause,
              vector |-> Vector(c)]
Here == At(cpu, IF cpu.skipCycle THEN cpu.next ELSE cpu.pc)

LEMMA TrapView ==
    ASSUME NEW c \in Core, NEW cause
    PROVE  /\ At(TrapEntry(c, cause), TrapEntry(c, cause).pc)
                = Architecture!Trapped(At(c, c.pc), cause)
           /\ At(Excepted(c, cause), Excepted(c, cause).next)
                = Architecture!Trapped(At(c, c.pc), cause)
<1>1. ASSUME NEW d \in {TrapEntry(c, cause), Excepted(c, cause)}
      PROVE  /\ d.mode = "M" /\ d.mie = FALSE /\ d.mpie = c.mie /\ d.mpp = c.mode
             /\ d.mepc = c.pc /\ d.mcause = cause /\ d.mtvec = c.mtvec
  BY ZenonT(40) DEF TrapEntry, Excepted, Pushed, Core
<1>2. TrapEntry(c, cause).pc = Vector(c) /\ Excepted(c, cause).next = Vector(c)
  BY DEF TrapEntry, Excepted, Pushed, Core
<1>3. \A d, pc : d.mode = "M" /\ d.mie = FALSE /\ d.mpie = c.mie /\ d.mpp = c.mode
                 /\ d.mepc = c.pc /\ d.mcause = cause /\ d.mtvec = c.mtvec
                 /\ pc = Vector(c)
              => At(d, pc) = Architecture!Trapped(At(c, c.pc), cause)
  BY DEF At, Vector, Architecture!Trapped
<1> QED
  BY <1>1, <1>2, <1>3

LEMMA FaultedView ==
    ASSUME NEW c \in Core, NEW a \in Addr, NEW cause
    PROVE  At(Faulted(c, a, cause), Faulted(c, a, cause).next)
                = Architecture!Trapped(At(c, c.pc), cause)
<1> DEFINE d == [c EXCEPT !.entryHi.vpn = VPN(a)]
<1>1. CASE cause \notin TableFaults
  BY <1>1, TrapView DEF Faulted
<1>2. CASE cause \in TableFaults
  <2>1. Faulted(c, a, cause) = Excepted(d, cause)
    BY <1>2 DEF Faulted
  <2>2. VPN(a) \in Pages
    BY DEF VPN, Pages
  <2>3. d \in Core /\ At(d, d.pc) = At(c, c.pc)
    BY <2>2 DEF At, Vector, Core, EntryHi
  <2> QED
    BY <2>1, <2>3, TrapView
<1> QED
  BY <1>1, <1>2

LEMMA TickedView ==
    ASSUME NEW c \in Core, NEW pc
    PROVE  /\ At(Ticked(c), pc) = At(c, pc)
           /\ Ticked(c).pc = c.pc /\ Ticked(c).next = c.next
           /\ Ticked(c).skipCycle = c.skipCycle
  BY DEF Ticked, Asserted, Deasserted, At, Vector, Core

LEMMA OnView ==
    ASSUME NEW c \in Core, At(c, c.pc) = Here
    PROVE  At(On(c), On(c).next) = Architecture!On(Here)
<1>1. On(c).next = (c.pc + 4) % Space /\ At(On(c), On(c).next) = At(c, On(c).next)
  BY DEF On, Plus, WORDLEN, At, Vector, Core
<1>2. Here.pc = c.pc
  BY DEF At
<1>3. \A q : [At(c, c.pc) EXCEPT !.pc = q] = At(c, q)
  BY DEF At
<1> QED
  BY <1>1, <1>2, <1>3 DEF Architecture!On

(* The outcomes of an instruction, before interrupts and the fetch. *)
Outcome(h) ==
    \/ h = Architecture!On(Here)
    \/ h = Here
    \/ h = Architecture!Returned(Here)
    \/ \E cause \in ExecFaults : h = Architecture!Trapped(Here, cause)
    \/ \E a \in Targets : h = [Here EXCEPT !.pc = a]
    \/ \E a \in Targets : h = [Architecture!On(Here) EXCEPT !.mepc = a]
    \/ \E v \in MtvecValues :
          h = [Architecture!On(Here) EXCEPT !.vector = Mtvec(v)]
    \/ \E s \in StatusValues :
          h = Architecture!Stacked(Architecture!On(Here), s)

(* Which registers an instruction may leave: any, of a core that runs. *)
LEMMA RunsTicks ==
    ASSUME cpu \in Core, Runs
    PROVE  /\ Ticked(cpu) \in Core /\ Ticked(cpu).status = "RUNNING"
           /\ On(Ticked(cpu)) \in Core /\ On(Ticked(cpu)).status = "RUNNING"
           /\ cpu.status # "HALTED"
           /\ ~cpu.skipCycle => /\ At(Ticked(cpu), Ticked(cpu).pc) = Here
                               /\ At(On(Ticked(cpu)), On(Ticked(cpu)).next)
                                    = Architecture!On(Here)
<1>1. Ticked(cpu) \in Core /\ Ticked(cpu).status = "RUNNING"
  BY TickedIsCore DEF Runs
<1>2. On(Ticked(cpu)) \in Core
  BY <1>1, OnIsCore
<1>3. On(Ticked(cpu)).status = "RUNNING"
  BY <1>1 DEF On, Core
<1>4. ~cpu.skipCycle => At(Ticked(cpu), Ticked(cpu).pc) = Here
  BY TickedView DEF Here
<1> QED
  BY <1>1, <1>2, <1>3, <1>4, OnView DEF Runs

(* What an instruction comes to: the end of a cycle that runs, from the
   registers and the table it has left. *)
Completes ==
    \E c \in Core, t \in [Index -> Entry] :
        /\ cpu.status # "HALTED" /\ c.status = "RUNNING"
        /\ Outcome(At(c, c.next))
        /\ Complete(c, t)

(* An exception of the instruction. *)
LEMMA ExceptionStep ==
    ASSUME TypeOK, Executes, NEW cause \in ExecFaults,
           Complete(Excepted(Ticked(cpu), cause), tlb)
    PROVE  Completes
<1>1. /\ Ticked(cpu) \in Core /\ Ticked(cpu).status = "RUNNING"
      /\ cpu.status # "HALTED" /\ At(Ticked(cpu), Ticked(cpu).pc) = Here
  BY RunsTicks DEF TypeOK, Executes
<1>2. Excepted(Ticked(cpu), cause) \in Core
  BY <1>1, ExceptedIsCore DEF Causes
<1>3. Excepted(Ticked(cpu), cause).status = "RUNNING"
  BY <1>1 DEF Excepted, Pushed, Core
<1>4. Outcome(At(Excepted(Ticked(cpu), cause), Excepted(Ticked(cpu), cause).next))
  BY <1>1, TrapView DEF Outcome
<1> QED
  BY <1>1, <1>2, <1>3, <1>4 DEF Completes, TypeOK

LEMMA AccessStep ==
    ASSUME TypeOK, NEW a \in Addr, NEW acc, NEW onTheBus \in ExecFaults,
           Access(a, acc, onTheBus)
    PROVE  Completes
<1> DEFINE c == Ticked(cpu)
           f == Fault(tlb, c.entryHi.asid, InUserMode, a, acc)
<1>1. /\ c \in Core /\ c.status = "RUNNING"
      /\ On(c) \in Core /\ On(c).status = "RUNNING"
      /\ cpu.status # "HALTED" /\ At(c, c.pc) = Here
      /\ At(On(c), On(c).next) = Architecture!On(Here)
  BY RunsTicks DEF TypeOK, Executes, Access
<1>2. CASE f # NOEXCEPTION
  <2>1. f \in ExecFaults /\ f \in Causes
    BY <1>2, FaultRange DEF Causes, ExecFaults
  <2>2. Faulted(c, a, f) \in Core
    BY <1>1, <2>1, FaultedIsCore
  <2>3. Faulted(c, a, f).status = "RUNNING"
    BY <1>1 DEF Faulted, Excepted, Pushed, Core
  <2>4. Complete(Faulted(c, a, f), tlb)
    BY <1>2 DEF Access
  <2> HIDE DEF c, f
  <2>5. At(Faulted(c, a, f), Faulted(c, a, f).next) = Architecture!Trapped(Here, f)
    BY <1>1, FaultedView
  <2>6. Outcome(At(Faulted(c, a, f), Faulted(c, a, f).next))
    BY <2>1, <2>5 DEF Outcome
  <2> QED
    BY <1>1, <2>2, <2>3, <2>4, <2>6 DEF Completes, TypeOK
<1>3. CASE f = NOEXCEPTION /\ Physical(tlb, c.entryHi.asid, a) \in Backed
  <2>1. Complete(On(c), tlb)
    BY <1>3 DEF Access
  <2> QED
    BY <1>1, <2>1 DEF Completes, TypeOK, Outcome
<1>4. CASE f = NOEXCEPTION /\ Physical(tlb, c.entryHi.asid, a) \notin Backed
  <2>1. Complete(Excepted(c, onTheBus), tlb) /\ Executes
    BY <1>4 DEF Access
  <2> QED
    BY <2>1, ExceptionStep
<1> QED
  BY <1>2, <1>3, <1>4

-----------------------------------------------------------------------------
(* The steps *)

LEMMA InitCoreIsCore == InitCore \in Core
<1>1. 0 \in Addr /\ 0 \in Index /\ 0 \in 0..(W - 1)
  BY TLBAssumption, ProcessorAssumption
     DEF TLBAssumption, ProcessorAssumption, Addr, Index
<1>2. 0 \in Pages
  <2>1. 0 \div PageSize = 0
    BY TLBAssumption DEF TLBAssumption
  <2> QED
    BY <1>1, <2>1 DEF Pages
<1> QED
  BY <1>1, <1>2 DEF InitCore, Core, EntryHi, EntryLo, Asids

LEMMA InitPipeline ==
    ASSUME Init
    PROVE  PipelineInv
<1>1. 0 \in Addr /\ InitCore.entryLo \in EntryLo /\ InitCore.entryHi \in EntryHi
  BY InitCoreIsCore, TLBAssumption DEF Core, TLBAssumption, Addr
<1>2. 0 \in Pages
  BY <1>1 DEF InitCore, EntryHi
<1>4. Blank \in Entry
  BY <1>2 DEF Blank, Entry, Asids
<1>5. TypeOK
  BY <1>1, <1>4, InitCoreIsCore DEF Init, TypeOK, Fetched
<1> QED
  BY <1>5 DEF Init, InitCore, PipelineInv, FetchedHere, NullifiedGoesToHandler,
              SleepsInWfi

(* A step of a core that does not run: it sleeps, or is woken or halted. *)
LEMMA OutsideStep ==
    ASSUME PipelineInv, UNCHANGED <<tlb, fetched>>,
           Sleeps \/ Halt \/ \E l \in Lines : AssertIRQ(l) \/ DeassertIRQ(l)
    PROVE  PipelineInv'
<1> USE DEF PipelineInv
<1> DEFINE Kept ==
      /\ cpu' \in Core
      /\ cpu'.pc = cpu.pc /\ cpu'.next = cpu.next /\ cpu'.mode = cpu.mode
      /\ cpu'.mie = cpu.mie /\ cpu'.mtvec = cpu.mtvec
      /\ cpu'.entryHi = cpu.entryHi /\ cpu'.skipCycle = cpu.skipCycle
      /\ cpu'.status # "HALTED" => cpu.status # "HALTED"
      /\ cpu'.status = "IDLE" => cpu.status = "IDLE" /\ cpu'.mip = {}
<1>1. Kept
  <2>1. CASE Sleeps
    <3>1. cpu' = Ticked(cpu) /\ Ticked(cpu) \in Core
      BY <2>1, TickedIsCore DEF Sleeps, TypeOK
    <3>2. cpu.status = "IDLE" /\ Ticked(cpu).status = "IDLE"
      BY <2>1, TickedIsCore DEF Sleeps, TypeOK, Woken
    <3>3. Ticked(cpu).mip = {}
      BY <3>2 DEF SleepsInWfi, Ticked, Asserted, Deasserted, Woken, TypeOK, Core
    <3> QED
      BY <3>1, <3>2, <3>3 DEF Ticked, Asserted, Deasserted, TypeOK, Core
  <2>2. CASE Halt
    BY <2>2 DEF Halt, TypeOK, Core
  <2>3. ASSUME NEW l \in Lines, AssertIRQ(l)
        PROVE  Kept
    BY <2>3 DEF AssertIRQ, Asserted, Woken, TypeOK, Core
  <2>4. ASSUME NEW l \in Lines, DeassertIRQ(l)
        PROVE  Kept
    BY <2>4 DEF DeassertIRQ, Deasserted, TypeOK, Core, SleepsInWfi
  <2> QED
    BY <2>1, <2>2, <2>3, <2>4
<1>2. TypeOK'
  BY <1>1 DEF TypeOK
<1>3. FetchedHere'
  BY <1>1 DEF FetchedHere, FetchFault
<1>4. NullifiedGoesToHandler' /\ SleepsInWfi'
  BY <1>1 DEF NullifiedGoesToHandler, SleepsInWfi, Vector
<1> QED
  BY <1>2, <1>3, <1>4

LEMMA ResetStep ==
    ASSUME PipelineInv, NEW pc \in BootPCs, Reset(pc)
    PROVE  PipelineInv'
<1>1. pc \in Addr /\ pc \in Backed /\ ~BADADDR(pc) /\ Direct(pc)
  BY ProcessorAssumption DEF ProcessorAssumption
<1>2. /\ Plus(pc, WORDLEN) \in Addr /\ Plus(pc, 2 * WORDLEN) \in Addr
      /\ (TlbSize - 2) % TlbSize \in Index /\ 0 \in 0..(W - 1)
  BY <1>1, PlusIsAddr, TLBAssumption, ProcessorAssumption
     DEF TLBAssumption, ProcessorAssumption, Index, WORDLEN
<1>3. InitCore.entryLo \in EntryLo /\ InitCore.entryHi \in EntryHi /\ 0 \in Index
  BY InitCoreIsCore, TLBAssumption DEF Core, TLBAssumption, Index
<1>4. cpu' \in Core
  BY <1>1, <1>2, <1>3, ZenonT(40) DEF Reset, Core, PipelineInv, TypeOK
<1>5. /\ cpu'.status = "RUNNING" /\ ~cpu'.skipCycle
      /\ cpu'.pc = pc /\ cpu'.mode = "M"
      /\ fetched' = Read(cpu', tlb) /\ tlb' = tlb
  BY DEF Reset, PipelineInv, TypeOK, Core
<1>6. /\ FetchFault(cpu', tlb) = NOEXCEPTION
      /\ Physical(tlb, cpu'.entryHi.asid, pc) = pc
  BY <1>1, <1>5 DEF FetchFault, Fault, Refused, Physical
<1>7. fetched' \in Fetched
  BY <1>1, <1>5, <1>6 DEF Read, Fetched
<1> QED
  BY <1>4, <1>5, <1>6, <1>7
     DEF PipelineInv, TypeOK, FetchedHere, NullifiedGoesToHandler, SleepsInWfi, Read

(* A WFI with no interrupt pending. *)
Stalls == Wfi /\ On(Ticked(cpu)).mip = {}

LEMMA WfiStep ==
    ASSUME TypeOK, Wfi
    PROVE  Completes \/ Stalls
<1> DEFINE c == On(Ticked(cpu))
<1>1. /\ c \in Core /\ c.status = "RUNNING" /\ cpu.status # "HALTED"
      /\ At(c, c.next) = Architecture!On(Here)
  BY RunsTicks DEF Wfi, TypeOK
<1>2. CASE c.mip # {}
  BY <1>1, <1>2 DEF Wfi, Completes, Outcome, TypeOK
<1>3. CASE c.mip = {}
  BY <1>3 DEF Stalls
<1> QED
  BY <1>2, <1>3

LEMMA StallStep ==
    ASSUME PipelineInv, Stalls
    PROVE  PipelineInv'
<1> DEFINE c == On(Ticked(cpu))
<1>1. c \in Core /\ c.status = "RUNNING" /\ c.mip = {}
  BY RunsTicks DEF Stalls, Wfi, PipelineInv, TypeOK
<1>2. /\ cpu' = [c EXCEPT !.status = "IDLE"] /\ tlb' = tlb
      /\ fetched' = [fetched EXCEPT !.wfi = TRUE]
      /\ ~cpu.skipCycle /\ cpu.status # "HALTED"
  BY <1>1 DEF Stalls, Wfi, Runs
<1>3. /\ c.pc = cpu.pc /\ c.mode = cpu.mode /\ c.entryHi = cpu.entryHi
      /\ c.skipCycle = cpu.skipCycle
  BY DEF On, Ticked, Asserted, Deasserted, PipelineInv, TypeOK, Core
<1> HIDE DEF c
<1>4. /\ cpu' \in Core /\ cpu'.pc = c.pc /\ cpu'.mode = c.mode
      /\ cpu'.entryHi = c.entryHi /\ cpu'.skipCycle = c.skipCycle
      /\ cpu'.mip = {}
  BY <1>1, <1>2 DEF Core
<1>5. /\ fetched' \in Fetched /\ fetched'.at = fetched.at /\ fetched'.wfi
      /\ fetched'.phys = fetched.phys /\ fetched'.mode = fetched.mode
  BY <1>2 DEF PipelineInv, TypeOK, Fetched
<1>6. FetchedHere'
  BY <1>2, <1>3, <1>4, <1>5 DEF PipelineInv, FetchedHere, FetchFault
<1> QED
  BY <1>2, <1>3, <1>4, <1>5, <1>6
     DEF PipelineInv, TypeOK, NullifiedGoesToHandler, SleepsInWfi

(* An instruction that leaves registers c and table t and goes on. *)
LEMMA OnStep ==
    ASSUME TypeOK, NEW c \in Core, c.status = "RUNNING",
           NEW t \in [Index -> Entry], Complete(On(c), t),
           cpu.status # "HALTED", Outcome(At(On(c), On(c).next))
    PROVE  Completes
<1>1. On(c) \in Core
  BY OnIsCore
<1>2. On(c).status = "RUNNING"
  BY DEF On, Core
<1> QED
  BY <1>1, <1>2 DEF Completes

(* One that Hart does not see, but for the program counter. *)
LEMMA QuietStep ==
    ASSUME TypeOK, NEW c \in Core, c.status = "RUNNING", At(c, c.pc) = Here,
           NEW t \in [Index -> Entry], Complete(On(c), t),
           cpu.status # "HALTED"
    PROVE  Completes
<1>1. Outcome(At(On(c), On(c).next))
  BY OnView DEF Outcome
<1> QED
  BY <1>1, OnStep

LEMMA ControlStep ==
    ASSUME TypeOK, ControlNext
    PROVE  Completes \/ Stalls
<1> DEFINE c == Ticked(cpu)
<1>1. CASE Nullified
  <2>1. cpu.skipCycle /\ Complete(c, tlb) /\ Runs
    BY <1>1 DEF Nullified
  <2>2. At(c, c.next) = Here
    BY <2>1, TickedView DEF Here, TypeOK
  <2> QED
    BY <2>1, <2>2, RunsTicks DEF Completes, Outcome, TypeOK
<1>2. CASE Compute
  BY <1>2, RunsTicks DEF Completes, Compute, Executes, Outcome, TypeOK
<1>3. CASE Illegal \/ Ecall \/ Ebreak
  BY <1>3, ExceptionStep DEF Illegal, Ecall, Ebreak, ExecFaults
<1>4. CASE Mret
  <2> DEFINE d == [Popped(c) EXCEPT !.next = Popped(c).mepc]
  <2>1. /\ c \in Core /\ c.status = "RUNNING" /\ cpu.status # "HALTED"
        /\ At(c, c.pc) = Here /\ Complete(d, tlb)
    BY <1>4, RunsTicks DEF Mret, Executes, TypeOK
  <2>2. Popped(c) \in Core /\ Popped(c).status = "RUNNING"
    BY <2>1 DEF Popped, Core
  <2>3. d \in Core /\ d.status = "RUNNING"
    BY <2>2 DEF Core
  <2>4. At(d, d.next) = Architecture!Returned(At(c, c.pc))
    <3>1. /\ d.next = c.mepc /\ d.mode = c.mpp /\ d.mpp = "U"
          /\ d.mie = c.mpie /\ d.mpie = FALSE /\ d.mepc = c.mepc
          /\ d.mcause = c.mcause /\ d.mtvec = c.mtvec
      BY <2>1 DEF Popped, Core
    <3> HIDE DEF d
    <3> QED
      BY <3>1 DEF At, Vector, Architecture!Returned
  <2> QED
    BY <2>1, <2>3, <2>4 DEF Completes, TypeOK, Outcome
<1>5. CASE Wfi
  BY <1>5, WfiStep
<1>6. ASSUME NEW a \in Targets,
             Jump(a) \/ Load(a) \/ Store(a) \/ LoadPart(a) \/ StorePart(a)
      PROVE  Completes
  <2>1. a \in Addr /\ ALIGN(a) \in Addr
    BY ProcessorAssumption, TLBAssumption
       DEF ProcessorAssumption, TLBAssumption, ALIGN, Addr, WORDLEN
  <2>2. CASE Jump(a)
    <3>1. /\ c \in Core /\ c.status = "RUNNING" /\ cpu.status # "HALTED"
          /\ At(c, c.pc) = Here /\ Complete([c EXCEPT !.next = a], tlb)
      BY <2>2, RunsTicks DEF Jump, Executes, TypeOK
    <3>2. [c EXCEPT !.next = a] \in Core /\ [c EXCEPT !.next = a].status = "RUNNING"
      BY <2>1, <3>1 DEF Core
    <3>3. At([c EXCEPT !.next = a], a) = [At(c, c.pc) EXCEPT !.pc = a]
      BY <3>1 DEF At, Vector, Core
    <3>4. [c EXCEPT !.next = a].next = a
      BY <3>1 DEF Core
    <3>5. Outcome(At([c EXCEPT !.next = a], [c EXCEPT !.next = a].next))
      BY <3>1, <3>3, <3>4 DEF Outcome
    <3> QED
      BY <3>1, <3>2, <3>5 DEF Completes, TypeOK
  <2>3. EXC_LAF \in ExecFaults /\ EXC_SAF \in ExecFaults
    BY DEF ExecFaults, AddressFaults
  <2>4. CASE Load(a) \/ Store(a) \/ LoadPart(a) \/ StorePart(a)
    BY <2>1, <2>3, <2>4, AccessStep DEF Load, Store, LoadPart, StorePart
  <2> QED
    BY <1>6, <2>2, <2>4
<1>7. ASSUME NEW s \in StatusValues, WriteStatus(s)
      PROVE  Completes
  <2> DEFINE d == [c EXCEPT !.mie = s[1], !.mpie = s[2], !.mpp = s[3]]
  <2>1. /\ c \in Core /\ c.status = "RUNNING" /\ cpu.status # "HALTED"
        /\ At(c, c.pc) = Here /\ Complete(On(d), tlb)
    BY <1>7, RunsTicks DEF WriteStatus, Csr, Executes, TypeOK
  <2>2. s[1] \in BOOLEAN /\ s[2] \in BOOLEAN /\ s[3] \in {"M", "U"}
    BY ProcessorAssumption DEF ProcessorAssumption
  <2>3. d \in Core /\ d.status = "RUNNING"
    BY <2>1, <2>2 DEF Core
  <2>4. At(On(d), On(d).next) = Architecture!Stacked(At(On(c), On(c).next), s)
    <3>1. /\ d.pc = c.pc /\ d.mode = c.mode /\ d.mepc = c.mepc
          /\ d.mcause = c.mcause /\ d.mtvec = c.mtvec
          /\ d.mie = s[1] /\ d.mpie = s[2] /\ d.mpp = s[3]
      BY <2>1 DEF Core
    <3>2. \A e \in Core : On(e).next = Plus(e.pc, WORDLEN)
                         /\ At(On(e), On(e).next) = At(e, On(e).next)
      BY DEF On, At, Vector, Core
    <3> HIDE DEF c, d
    <3>3. /\ At(On(d), On(d).next) = At(d, Plus(c.pc, WORDLEN))
          /\ At(On(c), On(c).next) = At(c, Plus(c.pc, WORDLEN))
      BY <2>1, <2>3, <3>1, <3>2
    <3>4. \A q : At(d, q) = Architecture!Stacked(At(c, q), s)
      BY <3>1 DEF At, Vector, Architecture!Stacked
    <3> QED
      BY <3>3, <3>4
  <2>5. At(On(c), On(c).next) = Architecture!On(Here)
    BY <2>1, OnView
  <2>6. Outcome(At(On(d), On(d).next))
    BY <2>4, <2>5 DEF Outcome
  <2> QED
    BY <2>1, <2>3, <2>6, OnStep DEF TypeOK
<1>8. ASSUME NEW a \in Targets, WriteMepc(a)
      PROVE  Completes
  <2> DEFINE d == [c EXCEPT !.mepc = a]
  <2>1. /\ c \in Core /\ c.status = "RUNNING" /\ cpu.status # "HALTED"
        /\ At(c, c.pc) = Here /\ Complete(On(d), tlb)
    BY <1>8, RunsTicks DEF WriteMepc, Csr, Executes, TypeOK
  <2>2. d \in Core /\ d.status = "RUNNING"
    BY <2>1, ProcessorAssumption DEF Core, ProcessorAssumption
  <2>4. At(On(d), On(d).next) = [At(On(c), On(c).next) EXCEPT !.mepc = a]
    BY <2>1 DEF On, At, Vector, Core
  <2>5. At(On(c), On(c).next) = Architecture!On(Here)
    BY <2>1, OnView
  <2>6. Outcome(At(On(d), On(d).next))
    BY <2>4, <2>5 DEF Outcome
  <2> QED
    BY <2>1, <2>2, <2>6, OnStep DEF TypeOK
<1>9. ASSUME NEW v \in MtvecValues, WriteMtvec(v)
      PROVE  Completes
  <2> DEFINE d == [c EXCEPT !.mtvec = v]
  <2>1. /\ c \in Core /\ c.status = "RUNNING" /\ cpu.status # "HALTED"
        /\ At(c, c.pc) = Here /\ Complete(On(d), tlb)
    BY <1>9, RunsTicks DEF WriteMtvec, Csr, Executes, TypeOK
  <2>2. d \in Core /\ d.status = "RUNNING"
    BY <2>1 DEF Core
  <2>4. At(On(d), On(d).next) = [At(On(c), On(c).next) EXCEPT !.vector = Mtvec(v)]
    BY <2>1 DEF On, At, Vector, Core
  <2>5. At(On(c), On(c).next) = Architecture!On(Here)
    BY <2>1, OnView
  <2>6. Outcome(At(On(d), On(d).next))
    BY <2>4, <2>5 DEF Outcome
  <2> QED
    BY <2>1, <2>2, <2>6, OnStep DEF TypeOK
<1>10. ASSUME NEW s \in MieValues, WriteMie(s)
       PROVE  Completes
  <2> DEFINE d == [c EXCEPT !.lines = s]
  <2>1. /\ c \in Core /\ c.status = "RUNNING" /\ cpu.status # "HALTED"
        /\ At(c, c.pc) = Here /\ Complete(On(d), tlb)
    BY <1>10, RunsTicks DEF WriteMie, Csr, Executes, TypeOK
  <2>2. d \in Core /\ d.status = "RUNNING"
    BY <2>1, ProcessorAssumption DEF Core, ProcessorAssumption
  <2>4. At(d, d.pc) = Here
    BY <2>1 DEF At, Vector, Core
  <2> QED
    BY <2>1, <2>2, <2>4, QuietStep DEF TypeOK
<1>11. ASSUME NEW v \in 0..(W - 1), WriteTime(v)
       PROVE  Completes
  <2> DEFINE d == [c EXCEPT !.time = v]
             e == Deasserted(d, IL_CPUTIMER)
  <2>1. /\ c \in Core /\ c.status = "RUNNING" /\ cpu.status # "HALTED"
        /\ At(c, c.pc) = Here /\ Complete(On(e), tlb)
    BY <1>11, RunsTicks DEF WriteTime, Csr, Executes, TypeOK
  <2>2. d \in Core /\ d.status = "RUNNING"
    BY <2>1 DEF Core
  <2>3. e \in Core /\ e.status = "RUNNING"
    BY <2>2 DEF Core, Deasserted
  <2>4. At(e, e.pc) = Here
    BY <2>1 DEF Deasserted, At, Vector, Core
  <2> QED
    BY <2>1, <2>3, <2>4, QuietStep DEF TypeOK
<1> QED
  BY <1>1, <1>2, <1>3, <1>4, <1>5, <1>6, <1>7, <1>8, <1>9, <1>10, <1>11
     DEF ControlNext

LEMMA TableStep ==
    ASSUME TypeOK, TableNext
    PROVE  Completes
<1> DEFINE c == Ticked(cpu)
<1>1. Executes => /\ c \in Core /\ c.status = "RUNNING"
                  /\ On(c) \in Core /\ On(c).status = "RUNNING"
                  /\ cpu.status # "HALTED" /\ At(c, c.pc) = Here
                  /\ Outcome(At(On(c), On(c).next))
  BY RunsTicks DEF Executes, TypeOK, Outcome
<1>2. CASE Tlbp
  <2> DEFINE found == Matches(tlb, On(c).entryHi.asid, On(c).entryHi.vpn)
             i     == IF found = {} THEN -1 ELSE Max(found)
             d     == [On(c) EXCEPT !.index = i]
  <2>1. Complete(d, tlb) /\ Executes
    BY <1>2 DEF Tlbp
  <2>2. found \subseteq 0..(TlbSize - 1) /\ TlbSize - 1 \in Nat
    BY TLBAssumption DEF TLBAssumption, Matches, Index
  <2>3. i \in Index \cup {-1}
    <3> HIDE DEF found
    <3> QED
      BY <2>2, MaxIsElement DEF Index
  <2> HIDE DEF i
  <2>4. d \in Core /\ d.status = "RUNNING"
    BY <1>1, <2>1, <2>3 DEF Core
  <2>5. At(d, d.next) = At(On(c), On(c).next)
    BY <1>1, <2>1 DEF At, Vector, Core
  <2> QED
    BY <1>1, <2>1, <2>4, <2>5 DEF Completes, TypeOK
<1>3. CASE Tlbr
  <2> DEFINE e == tlb[RNDIDX(On(c).index)]
             d == [On(c) EXCEPT !.entryHi = HiOf(e), !.entryLo = LoOf(e)]
  <2>1. Complete(d, tlb) /\ Executes
    BY <1>3 DEF Tlbr
  <2>2. RNDIDX(On(c).index) \in Index
    BY <1>1, <2>1, TLBAssumption DEF RNDIDX, Core, Index, TLBAssumption
  <2>3. HiOf(e) \in EntryHi /\ LoOf(e) \in EntryLo
    BY <2>2 DEF TypeOK, HiOf, LoOf, EntryHi, EntryLo, Entry
  <2> HIDE DEF e
  <2>4. d \in Core /\ d.status = "RUNNING"
    BY <1>1, <2>1, <2>3 DEF Core
  <2>5. At(d, d.next) = At(On(c), On(c).next)
    BY <1>1, <2>1 DEF At, Vector, Core
  <2> QED
    BY <1>1, <2>1, <2>4, <2>5 DEF Completes, TypeOK
<1>4. ASSUME NEW i \in Index, Executes, TlbWrite(On(c), i)
      PROVE  Completes
  <2> DEFINE t == [tlb EXCEPT ![i] = EntryOf(On(c).entryHi, On(c).entryLo)]
  <2>1. EntryOf(On(c).entryHi, On(c).entryLo) \in Entry
    BY <1>1, <1>4 DEF Core, EntryHi, EntryLo, EntryOf, Entry
  <2>2. t \in [Index -> Entry] /\ Complete(On(c), t)
    BY <1>4, <2>1 DEF TlbWrite, TypeOK
  <2> QED
    BY <1>1, <1>4, <2>2 DEF Completes, TypeOK
<1>5. CASE Tlbwi \/ Tlbwr
  <2>1. RNDIDX(cpu.index) \in Index /\ cpu.random \in Index
    BY TLBAssumption DEF RNDIDX, TypeOK, Core, Index, TLBAssumption
  <2> QED
    BY <1>4, <1>5, <2>1 DEF Tlbwi, Tlbwr
<1>6. CASE Tlbclr
  <2>1. Blank \in Entry
    BY InitCoreIsCore DEF InitCore, Core, EntryHi, Blank, Entry, Asids
  <2>2. Zapped(tlb) \in [Index -> Entry]
    BY <2>1, TLBAssumption DEF Zapped, TypeOK, TLBAssumption, Index
  <2> QED
    BY <1>1, <1>6, <2>2 DEF Completes, Tlbclr, TypeOK
<1>7. ASSUME NEW hi \in EntryHis, WriteEntryHi(hi)
      PROVE  Completes
  <2> DEFINE d == [c EXCEPT !.entryHi = hi]
  <2>1. /\ c \in Core /\ c.status = "RUNNING" /\ cpu.status # "HALTED"
        /\ At(c, c.pc) = Here /\ Complete(On(d), tlb)
    BY <1>1, <1>7 DEF WriteEntryHi, Csr
  <2>2. d \in Core /\ d.status = "RUNNING"
    BY <2>1, ProcessorAssumption DEF Core, ProcessorAssumption
  <2>3. At(d, d.pc) = Here
    BY <2>1 DEF At, Vector, Core
  <2> QED
    BY <2>1, <2>2, <2>3, QuietStep DEF TypeOK
<1>8. ASSUME NEW lo \in EntryLos, WriteEntryLo(lo)
      PROVE  Completes
  <2> DEFINE d == [c EXCEPT !.entryLo = lo]
  <2>1. /\ c \in Core /\ c.status = "RUNNING" /\ cpu.status # "HALTED"
        /\ At(c, c.pc) = Here /\ Complete(On(d), tlb)
    BY <1>1, <1>8 DEF WriteEntryLo, Csr
  <2>2. d \in Core /\ d.status = "RUNNING"
    BY <2>1, ProcessorAssumption DEF Core, ProcessorAssumption
  <2>3. At(d, d.pc) = Here
    BY <2>1 DEF At, Vector, Core
  <2> QED
    BY <2>1, <2>2, <2>3, QuietStep DEF TypeOK
<1>9. ASSUME NEW i \in Index, WriteIndex(i) \/ WriteRandom(i)
      PROVE  Completes
  <2> DEFINE d == [c EXCEPT !.index = i]
             e == [c EXCEPT !.random = i]
  <2>1. /\ c \in Core /\ c.status = "RUNNING" /\ cpu.status # "HALTED"
        /\ At(c, c.pc) = Here
    BY <1>1, <1>9 DEF WriteIndex, WriteRandom, Csr
  <2>2. Complete(On(d), tlb) \/ Complete(On(e), tlb)
    BY <1>9 DEF WriteIndex, WriteRandom, Csr
  <2>3. /\ d \in Core /\ d.status = "RUNNING"
        /\ e \in Core /\ e.status = "RUNNING"
    BY <2>1 DEF Core
  <2>4. At(d, d.pc) = Here /\ At(e, e.pc) = Here
    BY <2>1 DEF At, Vector, Core
  <2> QED
    BY <2>1, <2>2, <2>3, <2>4, QuietStep DEF TypeOK
<1> QED
  BY <1>2, <1>3, <1>5, <1>6, <1>7, <1>8, <1>9 DEF TableNext

LEMMA NextStep ==
    ASSUME PipelineInv, [Next]_vars
    PROVE  PipelineInv'
<1>1. CASE UNCHANGED vars
  BY <1>1 DEF vars, PipelineInv, TypeOK, FetchedHere, FetchFault,
              NullifiedGoesToHandler, SleepsInWfi, Vector
<1>2. CASE Next
  <2>1. CASE Sleeps \/ Halt \/ \E l \in Lines : AssertIRQ(l) \/ DeassertIRQ(l)
    BY <2>1, OutsideStep DEF Sleeps, Halt, AssertIRQ, DeassertIRQ
  <2>2. ASSUME NEW pc \in BootPCs, Reset(pc)
        PROVE  PipelineInv'
    BY <2>2, ResetStep
  <2>3. CASE Completes
    BY <2>3, CompleteStep DEF Completes, PipelineInv, TypeOK
  <2> QED
    BY <1>2, <2>1, <2>2, <2>3, ControlStep, TableStep, StallStep
       DEF Next, PipelineInv
<1> QED
  BY <1>1, <1>2

-----------------------------------------------------------------------------
(* The theorems *)

(* What Processor::Cycle holds back from one cycle to the next - the copy of
   an instruction, the flag of a failed fetch, the stall in a WFI - is always
   about the state the core is in. *)
THEOREM PipelineIsRight == Spec => []PipelineInv
<1>1. Init => PipelineInv
  BY InitPipeline
<1>2. PipelineInv /\ [Next]_vars => PipelineInv'
  BY NextStep
<1> QED
  BY <1>1, <1>2, PTL DEF Spec

(* The registers and the table keep their types. *)
THEOREM CoreTypeCorrect == Spec => []TypeOK
<1>1. PipelineInv => TypeOK
  BY DEF PipelineInv
<1> QED
  BY <1>1, PipelineIsRight, PTL

-----------------------------------------------------------------------------
(* Interrupts *)

(* A cycle that fetches leaves no interrupt that could be taken. *)
LEMMA CompleteTakes ==
    ASSUME NEW c \in Core, NEW t, Complete(c, t), fetched' # fetched
    PROVE  ~(cpu'.mie /\ Pending(cpu') # {})
<1> DEFINE a == Advanced(c)
           d == Checked(a)
           e == AfterFetch(d, t)
<1>1. cpu' = e /\ ~e.skipCycle
  BY DEF Complete
<1>2. a \in Core /\ d \in Core
  BY AdvancedIsCore, CheckedIsCore
<1>3. CASE a.mie /\ Pending(a) # {}
  <2>1. d.mie = FALSE
    BY <1>2, <1>3 DEF Checked, Interrupted, TrapEntry, Pushed, Core
  <2> QED
    <3> HIDE DEF d
    <3>1. e = [d EXCEPT !.skipCycle = FALSE]
      BY <1>1, <1>2, FetchStep
    <3> QED
      BY <1>1, <1>2, <2>1, <3>1 DEF Core
<1>4. CASE ~(a.mie /\ Pending(a) # {})
  <2>1. d = a
    BY <1>4 DEF Checked
  <2>2. e = [a EXCEPT !.skipCycle = FALSE]
    BY <1>1, <1>2, <2>1, FetchStep
  <2>3. e.mie = a.mie /\ e.mip = a.mip /\ e.lines = a.lines
    BY <1>2, <2>2 DEF Core
  <2> QED
    BY <1>1, <1>4, <2>3 DEF Pending
<1> QED
  BY <1>3, <1>4

(* A cycle that executes or fetches an instruction leaves no interrupt that
   is pending and enabled: it has taken it (Processor::Cycle,
   CheckForInterrupts). *)
THEOREM InterruptsAlwaysTaken == Spec => InterruptsAreTaken
<1>1. ASSUME PipelineInv, [Next]_vars, fetched' # fetched
      PROVE  ~(cpu'.mie /\ Pending(cpu') # {})
  <2>1. CASE Completes
    BY <1>1, <2>1, CompleteTakes DEF Completes
  <2>2. CASE Stalls
    <3>1. cpu'.mip = {}
      <4>1. cpu' = [On(Ticked(cpu)) EXCEPT !.status = "IDLE"]
        BY <2>2 DEF Stalls, Wfi
      <4>2. On(Ticked(cpu)) \in Core
        BY <1>1, <2>2, RunsTicks DEF Stalls, Wfi, PipelineInv, TypeOK
      <4> QED
        BY <2>2, <4>1, <4>2 DEF Stalls, Core
    <3> QED
      BY <3>1 DEF Pending
  <2>3. ASSUME NEW pc \in BootPCs, Reset(pc)
        PROVE  ~cpu'.mie
    BY <1>1, <2>3 DEF Reset, PipelineInv, TypeOK, Core
  <2>4. Completes \/ Stalls \/ \E pc \in BootPCs : Reset(pc)
    BY <1>1, ControlStep, TableStep
       DEF Next, vars, Sleeps, Halt, AssertIRQ, DeassertIRQ, PipelineInv
  <2> QED
    BY <2>1, <2>2, <2>3, <2>4
<1>2. PipelineInv /\ [Next]_vars
        => [fetched' # fetched => ~(cpu'.mie /\ Pending(cpu') # {})]_vars
  BY <1>1
<1> QED
  BY <1>2, PipelineIsRight, PTL DEF Spec, InterruptsAreTaken

-----------------------------------------------------------------------------
(* The refinement of Hart *)

FetchFaults == {EXC_IAF, EXC_LAF, EXC_TLBL, EXC_UTLBL}

LEMMA FetchView ==
    ASSUME NEW c \in Core, NEW t
    PROVE  \/ /\ ~AfterFetch(c, t).skipCycle
              /\ At(AfterFetch(c, t), AfterFetch(c, t).pc) = At(c, c.pc)
           \/ /\ AfterFetch(c, t).skipCycle
              /\ \E f \in FetchFaults :
                    At(AfterFetch(c, t), AfterFetch(c, t).next)
                        = Architecture!Trapped(At(c, c.pc), f)
<1> DEFINE f == FetchFault(c, t)
           e == AfterFetch(c, t)
<1>1. f \in {NOEXCEPTION} \cup FetchFaults
  BY DEF FetchFault, Fault, TableFault, FetchFaults
<1>2. CASE f = NOEXCEPTION
  <2>1. e = [c EXCEPT !.skipCycle = FALSE]
    BY <1>2 DEF AfterFetch, EXC_IAF, NOEXCEPTION
  <2> QED
    BY <2>1 DEF At, Vector, Core
<1>3. \A d \in Core : [d EXCEPT !.skipCycle = TRUE].skipCycle
          /\ At([d EXCEPT !.skipCycle = TRUE], [d EXCEPT !.skipCycle = TRUE].next)
                = At(d, d.next)
  BY DEF At, Vector, Core
<1>4. f \in FetchFaults => f \in Causes /\ f # NOEXCEPTION
  BY DEF FetchFaults, Causes, ExecFaults, AddressFaults, TableFaults, NOEXCEPTION,
         EXC_IAF, EXC_LAF, EXC_TLBL, EXC_UTLBL
<1>5. CASE f \in FetchFaults /\ f = EXC_IAF
  <2>1. e = [Excepted(c, f) EXCEPT !.skipCycle = TRUE]
    BY <1>5 DEF AfterFetch, EXC_IAF, NOEXCEPTION
  <2> QED
    BY <1>3, <1>4, <1>5, <2>1, ExceptedIsCore, TrapView
<1>6. CASE f \in FetchFaults /\ f # EXC_IAF
  <2>1. e = [Faulted(c, c.pc, f) EXCEPT !.skipCycle = TRUE]
    BY <1>4, <1>6 DEF AfterFetch
  <2>2. Faulted(c, c.pc, f) \in Core
    BY <1>4, <1>6, FaultedIsCore DEF Core
  <2> QED
    BY <1>3, <1>6, <2>1, <2>2, FaultedView DEF Core
<1> QED
  BY <1>1, <1>2, <1>5, <1>6

(* The end of a cycle is the end of a step of Hart. *)
LEMMA CompleteView ==
    ASSUME NEW c \in Core, c.status = "RUNNING", NEW t, Complete(c, t)
    PROVE  Architecture!Continues(At(c, c.next)) /\ cpu'.status = "RUNNING"
<1> DEFINE a == Advanced(c)
           d == Checked(a)
           e == AfterFetch(d, t)
           h == At(c, c.next)
<1>1. cpu' = e
  BY DEF Complete
<1>2. a \in Core /\ a.status = "RUNNING" /\ At(a, a.pc) = h
  BY AdvancedIsCore, ZenonT(40) DEF Advanced, At, Vector, Core
<1>3. d \in Core /\ d.status = "RUNNING"
  BY <1>2, CheckedIsCore, ZenonT(40) DEF Checked, Interrupted, TrapEntry, Pushed, Core
<1>4. \/ At(d, d.pc) = h
      \/ h.mie /\ \E l \in {Interrupt(i) : i \in Lines} :
            At(d, d.pc) = Architecture!Trapped(h, l)
  <2>1. CASE a.mie /\ Pending(a) # {}
    <3>1. Pending(a) \subseteq Lines
      BY <1>2 DEF Pending, Core
    <3>2. \A l \in Lines : l \in 0..31
      BY ProcessorAssumption DEF ProcessorAssumption
    <3>3. Max(Pending(a)) \in Lines
      BY <2>1, <3>1, <3>2, MaxIsElement
    <3>4. d = TrapEntry(a, Interrupt(Max(Pending(a))))
      BY <2>1 DEF Checked, Interrupted
    <3>5. h.mie = a.mie
      BY <1>2 DEF At
    <3> HIDE DEF h, a, d
    <3> QED
      BY <1>2, <2>1, <3>3, <3>4, <3>5, TrapView
  <2>2. CASE ~(a.mie /\ Pending(a) # {})
    BY <1>2, <2>2 DEF Checked
  <2> QED
    BY <2>1, <2>2
<1>5. cpu'.status = "RUNNING"
  BY <1>1, <1>3, FetchStep
<1>6. Architecture!Fetched(At(d, d.pc), Here')
  <2> HIDE DEF d
  <2>1. CASE ~e.skipCycle /\ At(e, e.pc) = At(d, d.pc)
    BY <1>1, <2>1 DEF Here, Architecture!Fetched
  <2>2. ASSUME e.skipCycle, NEW f \in FetchFaults,
               At(e, e.next) = Architecture!Trapped(At(d, d.pc), f)
        PROVE  Architecture!Fetched(At(d, d.pc), Here')
    <3>1. Here' = Architecture!Trapped(At(d, d.pc), f)
      BY <1>1, <2>2 DEF Here
    <3>2. Architecture!Trapped(At(d, d.pc), f).mcause = f
      BY DEF At, Architecture!Trapped
    <3> QED
      BY <2>2, <3>1, <3>2 DEF Architecture!Fetched, FetchFaults
  <2> QED
    BY <1>3, <2>1, <2>2, FetchView
<1> QED
  BY <1>4, <1>5, <1>6 DEF Architecture!Continues, Here, At

LEMMA CompletesView ==
    ASSUME Completes
    PROVE  Architecture!Step
<1>1. PICK c \in Core, t \in [Index -> Entry] :
         /\ cpu.status # "HALTED" /\ c.status = "RUNNING"
         /\ Outcome(At(c, c.next))
         /\ Complete(c, t)
  BY DEF Completes
<1> DEFINE h == At(c, c.next)
<1>2. Architecture!Continues(h) /\ cpu'.status = "RUNNING"
  BY <1>1, CompleteView
<1> HIDE DEF h
<1>3. Outcome(h)
  BY <1>1 DEF h
<1>4. \A a \in Targets : a \in Targets \cup BootPCs
  OBVIOUS
<1>5. \A v \in MtvecValues : Mtvec(v) \in {Mtvec(u) : u \in MtvecValues}
  OBVIOUS
<1>6. Architecture!Executes(Here)
  BY <1>2, <1>3, <1>4, <1>5 DEF Outcome, Architecture!Executes
<1> QED
  BY <1>1, <1>2, <1>6 DEF Architecture!Step, Here, At

(* A step that leaves the registers Hart sees. *)
LEMMA PauseView ==
    ASSUME Here' = Here, cpu.status # "HALTED" \/ cpu'.status = cpu.status
    PROVE  [Architecture!Next]_(Architecture!vars)
  BY DEF Architecture!Next, Architecture!Pause, Architecture!vars, Here, At

LEMMA OutsideView ==
    ASSUME TypeOK, Sleeps \/ Stalls \/ Halt \/
                   \E l \in Lines : AssertIRQ(l) \/ DeassertIRQ(l)
    PROVE  [Architecture!Next]_(Architecture!vars)
<1>1. CASE Sleeps
  <2>1. Here' = Here
    BY <1>1, TickedView DEF Sleeps, Here, TypeOK
  <2> QED
    BY <1>1, <2>1, PauseView DEF Sleeps
<1>2. CASE Stalls
  <2>1. /\ ~cpu.skipCycle /\ cpu.status # "HALTED" /\ Ticked(cpu) \in Core
        /\ cpu' = [On(Ticked(cpu)) EXCEPT !.status = "IDLE"]
    BY <1>2, RunsTicks DEF Stalls, Wfi, Runs, TypeOK
  <2>2. \A c \in Core : LET d == [On(c) EXCEPT !.status = "IDLE"]
                        IN  /\ d.skipCycle = c.skipCycle /\ d.pc = c.pc
                            /\ At(d, d.pc) = At(c, c.pc)
    BY DEF On, At, Vector, Core
  <2>3. Here' = Here
    BY <2>1, <2>2, TickedView DEF Here, TypeOK
  <2> QED
    BY <2>1, <2>3, PauseView
<1>3. CASE Halt
  <2>1. Here' = Here
    BY <1>3 DEF Halt, Here, At, Vector, TypeOK, Core
  <2>2. cpu.status # "HALTED" \/ cpu'.status = cpu.status
    BY <1>3 DEF Halt, TypeOK, Core
  <2> QED
    BY <2>1, <2>2, PauseView
<1>4. CASE \E l \in Lines : AssertIRQ(l) \/ DeassertIRQ(l)
  <2>1. PICK l \in Lines : cpu' = Asserted(cpu, l) \/ cpu' = Deasserted(cpu, l)
    BY <1>4 DEF AssertIRQ, DeassertIRQ
  <2>2. ASSUME NEW d \in {Asserted(cpu, l), Deasserted(cpu, l)}
        PROVE  /\ d.skipCycle = cpu.skipCycle
               /\ d.pc = cpu.pc /\ d.next = cpu.next
               /\ \A pc : At(d, pc) = At(cpu, pc)
    BY ZenonT(40) DEF Asserted, Deasserted, At, Vector, TypeOK, Core
  <2>3. Here' = Here
    BY <2>1, <2>2 DEF Here
  <2>4. cpu.status # "HALTED" \/ cpu'.status = cpu.status
    BY <2>1 DEF Asserted, Deasserted, Woken, TypeOK, Core
  <2> QED
    BY <2>3, <2>4, PauseView
<1> QED
  BY <1>1, <1>2, <1>3, <1>4

LEMMA ResetView ==
    ASSUME TypeOK, NEW pc \in BootPCs, Reset(pc)
    PROVE  Architecture!Reset(pc)
<1>1. /\ cpu'.status = "RUNNING" /\ ~cpu'.skipCycle /\ cpu'.pc = pc
      /\ cpu'.mode = "M" /\ cpu'.mpp = "M" /\ cpu'.mie = FALSE
      /\ cpu'.mpie = FALSE /\ cpu'.mepc = cpu.mepc
      /\ cpu'.mcause = NOEXCEPTION /\ cpu'.mtvec = 0
  BY DEF Reset, TypeOK, Core
<1>2. Vector(cpu') = 0 /\ NOEXCEPTION = 0
  BY <1>1 DEF Vector, Mtvec, NOEXCEPTION
<1> QED
  BY <1>1, <1>2 DEF Architecture!Reset, Vector

(* The pipeline implements the core of the guest's programmer: every cycle is
   one step of it, and the counters, the copy of the instruction and the
   cycle that executes nothing do not show (Processor::Cycle). *)
THEOREM CoreImplementsHart == Spec => ImplementsHart
<1>1. Init => Architecture!Init
  BY DEF Init, InitCore, Architecture!Init
<1>2. PipelineInv /\ [Next]_vars => [Architecture!Next]_(Architecture!vars)
  <2> SUFFICES ASSUME PipelineInv, [Next]_vars
               PROVE  [Architecture!Next]_(Architecture!vars)
    OBVIOUS
  <2>1. CASE UNCHANGED vars
    BY <2>1 DEF vars, Architecture!vars, Vector
  <2>2. CASE Completes
    BY <2>2, CompletesView DEF Architecture!Next
  <2>3. CASE Sleeps \/ Stalls \/ Halt \/
             \E l \in Lines : AssertIRQ(l) \/ DeassertIRQ(l)
    BY <2>3, OutsideView DEF PipelineInv
  <2>4. ASSUME NEW pc \in BootPCs, Reset(pc)
        PROVE  Architecture!Next
    BY <2>4, ResetView DEF Architecture!Next, PipelineInv
  <2> QED
    BY <2>1, <2>2, <2>3, <2>4, ControlStep, TableStep DEF Next, PipelineInv
<1> QED
  BY <1>1, <1>2, PipelineIsRight, PTL DEF Spec, ImplementsHart, Architecture!Spec

-----------------------------------------------------------------------------
(* The firmware.  Every action is about one core, its area and its vector.
   Right says where the state of a program that was left is, at each block of
   the BIOS: in the registers until it is saved, then in the area of the core.
   That no other core touches the area comes from the vectors: a core past its
   start points to its own.  The lock is a matter of all cores: there is one
   right to be inside, and it is in the lock, in the register that a swap has
   taken it to, or with a program inside, or it is lost; see LockInv. *)

(* The registers s hold the state h of the program, or the area a does. *)
Carried(s, h) ==
    /\ s.mepc = h.pc /\ s.mpp = h.mode /\ s.mpie = h.on /\ s.mie = h.mie
    /\ \A r \in BIOS!Kept : s.regs[r] = h.regs[r]

Stored(a, h) ==
    /\ a.epc = h.pc /\ a.mpp = h.mode /\ a.mpie = h.on /\ a.mie = h.mie
    /\ a.regs["t0"] = BIOS!Pointer /\ a.regs["t1"] = BIOS!MieValue
    /\ \A r \in BIOS!Kept : a.regs[r] = h.regs[r]

Current(s, h) ==
    /\ s.pc = h.pc /\ s.mode = h.mode /\ s.on = h.on /\ s.mie = h.mie
    /\ \A r \in BIOS!Kept : s.regs[r] = h.regs[r]

(* The registers s, area a and vector v of core c, a program left in state h,
   and whether a reset of the core is on its way. *)
ProgramKept(s, a, h) ==
    h.held =>
        /\ s.block \notin {"off", "boot"}
        /\ s.block = "prog" => Current(s, h)
        /\ s.block = "save" \/ (s.block = "dispatch" /\ s.cause # "break")
                => Carried(s, h)
        /\ s.block \in {"kernel", "load"} \/ (s.block = "dispatch" /\ s.cause = "break")
                => Stored(a, h)

Path(c, s, v, h) ==
    /\ s.block \notin {"off", "boot", "stop"} => v = c
    /\ s.block = "load" => s.k0 = c /\ h.held
    /\ s.block = "dispatch" => s.cause \in {"int", "exc", "utlb", "break"}
    /\ s.block = "dispatch" /\ s.cause = "break" =>
          /\ s.regs["a0"] \in {BIOS!LDCXT, BIOS!LDST, BIOS!HALT}
          /\ s.regs["a0"] = BIOS!LDST => s.regs["a1"] = c /\ h.held
          /\ s.regs["a0"] = BIOS!LDCXT => ~h.held

Start(c, s, a, waiting) ==
    /\ c \in waiting => s.block = "off" /\ a.word0 = "start"
    /\ s.block = "boot" => a.word0 = "start"

Right(c, s, a, v, h, waiting) ==
    ProgramKept(s, a, h) /\ Path(c, s, v, h) /\ Start(c, s, a, waiting)

(* The lock, with s the registers of a core and h the program it left.  A lock
   that is 0 gives the right to be inside: a swap moves it to t0, the branch
   lets in whoever has it, and the swap of the release puts it back.  An
   interrupt before the branch replaces t0, and the right is lost; it is never
   doubled, as neither the pointer nor MIE, the values that come back in t0 and
   t1, is taken for it. *)
AtPoint(s, pc) == s.block = "prog" /\ s.pc = pc
Point(s, h) == IF s.block = "prog" THEN s.pc ELSE IF h.held THEN h.pc ELSE "idle"
Holds(s, h) ==
    \/ Point(s, h) \in {"inside", "release"}
    \/ (AtPoint(s, "swap") \/ AtPoint(s, "test")) /\ s.regs["t0"] = 0

LockValues == {0, 1, BIOS!Pointer}
Trying(s) ==
    /\ AtPoint(s, "zero") => s.regs["t0"] \in {1, BIOS!Pointer}
    /\ AtPoint(s, "swap") \/ AtPoint(s, "test")
          => s.regs["t0"] \in LockValues /\ s.regs["t1"] \in {0, BIOS!MieValue}
    /\ AtPoint(s, "release") => s.regs["t0"] \in {0, BIOS!Pointer}

LockInv ==
    /\ lock \in LockValues
    /\ \A c \in Cores : Trying(core[c])
    /\ \A c \in Cores : Holds(core[c], held[c]) => lock # 0
    /\ \A c, d \in Cores :
          Holds(core[c], held[c]) /\ Holds(core[d], held[d]) => c = d

FirmwareInv ==
    /\ BIOS!TypeOK
    /\ \A c \in Cores :
          Right(c, core[c], area[c], vector[c], held[c], starting)
    /\ LockInv

-----------------------------------------------------------------------------

LEMMA FirmwareInitInv ==
    ASSUME BIOS!Init
    PROVE  FirmwareInv
<1>1. /\ \A v \in BIOS!Values : BIOS!AllOf(v) \in [BIOS!Registers -> BIOS!Values]
      /\ 0 \in BIOS!Values /\ BIOS!Own \in BIOS!Values
  BY DEF BIOS!AllOf, BIOS!Values, BIOS!Own
<1>2. BIOS!Off \in BIOS!CoreState /\ [BIOS!Off EXCEPT !.block = "kernel"] \in BIOS!CoreState
      /\ BIOS!StartState \in BIOS!State /\ BIOS!NotHeld \in BIOS!Left
  BY <1>1 DEF BIOS!Off, BIOS!StartState, BIOS!NotHeld, BIOS!CoreState, BIOS!State,
      BIOS!Left, BIOS!Blocks, BIOS!Points, BIOS!Causes
<1>3. BIOS!TypeOK
  BY <1>1, <1>2 DEF BIOS!Init, BIOS!TypeOK
<1>4. ASSUME NEW c \in Cores
      PROVE  Right(c, core[c], area[c], vector[c], held[c], starting)
  BY <1>4 DEF BIOS!Init, Right, ProgramKept, Path, Start, BIOS!Off, BIOS!NotHeld
<1>5. LockInv
  BY DEF BIOS!Init, LockInv, LockValues, Trying, Holds, Point, AtPoint, BIOS!Off,
         BIOS!NotHeld
<1> QED
  BY <1>3, <1>4, <1>5 DEF FirmwareInv

(* An action is about one core; the others stay as they are. *)
LEMMA OneCore ==
    ASSUME FirmwareInv, NEW c \in Cores, NEW s \in BIOS!CoreState, NEW a \in BIOS!State,
           NEW v \in Cores \cup {BIOS!Nowhere}, NEW h \in BIOS!Left,
           core' = [core EXCEPT ![c] = s], area' = [area EXCEPT ![c] = a],
           vector' = [vector EXCEPT ![c] = v], held' = [held EXCEPT ![c] = h],
           starting' \subseteq Cores,
           \A d \in Cores : d # c => (d \in starting' <=> d \in starting),
           Right(c, s, a, v, h, starting'),
           LockInv'
    PROVE  FirmwareInv'
<1>1. BIOS!TypeOK'
  BY DEF FirmwareInv, BIOS!TypeOK, LockInv, LockValues, BIOS!Values, BIOS!Pointer
<1>2. ASSUME NEW d \in Cores
      PROVE  Right(d, core'[d], area'[d], vector'[d], held'[d], starting')
  <2>1. CASE d = c
    BY <2>1 DEF FirmwareInv, BIOS!TypeOK
  <2>2. CASE d # c
    <3>1. /\ core'[d] = core[d] /\ area'[d] = area[d] /\ vector'[d] = vector[d]
          /\ held'[d] = held[d]
      BY <2>2 DEF FirmwareInv, BIOS!TypeOK
    <3> QED
      BY <2>2, <3>1 DEF FirmwareInv, Right, Start
  <2> QED
    BY <2>1, <2>2
<1> QED
  BY <1>1, <1>2 DEF FirmwareInv

(* Only core c has moved, and where the lock is free now, or where it is c that
   has the right to be inside, that is as it should be. *)
LEMMA LockMoves ==
    ASSUME FirmwareInv, NEW c \in Cores, NEW s, core' = [core EXCEPT ![c] = s],
           NEW h, held' = [held EXCEPT ![c] = h],
           lock' \in LockValues, Trying(s),
           lock' = 0 => /\ ~Holds(s, h)
                        /\ lock = 0 \/ Holds(core[c], held[c]),
           Holds(s, h) => lock = 0 \/ Holds(core[c], held[c])
    PROVE  LockInv'
<1>1. \A d \in Cores : /\ core'[d] = IF d = c THEN s ELSE core[d]
                       /\ held'[d] = IF d = c THEN h ELSE held[d]
  BY DEF FirmwareInv, BIOS!TypeOK
<1>2. /\ \A d \in Cores : Trying(core[d])
      /\ \A d \in Cores : Holds(core[d], held[d]) => lock # 0
      /\ \A d, e \in Cores : Holds(core[d], held[d]) /\ Holds(core[e], held[e]) => d = e
  BY DEF FirmwareInv, LockInv
<1>3. \A d \in Cores : Trying(core'[d])
  BY <1>1, <1>2
<1>4. \A d \in Cores : Holds(core'[d], held'[d]) => lock' # 0
  BY <1>1, <1>2
<1>5. \A d, e \in Cores : Holds(core'[d], held'[d]) /\ Holds(core'[e], held'[e]) => d = e
  BY <1>1, <1>2
<1> QED
  BY <1>3, <1>4, <1>5 DEF LockInv, LockValues, Trying, Holds, Point, AtPoint

(* Core c does not touch the lock, nor has it come to the right. *)
LEMMA LockKept ==
    ASSUME FirmwareInv, NEW c \in Cores, NEW s, core' = [core EXCEPT ![c] = s],
           NEW h, held' = [held EXCEPT ![c] = h],
           lock' = lock, Trying(s), Holds(s, h) => Holds(core[c], held[c])
    PROVE  LockInv'
<1>1. lock \in LockValues /\ (Holds(core[c], held[c]) => lock # 0)
  BY DEF FirmwareInv, LockInv
<1> QED
  BY <1>1, LockMoves

(* In the BIOS and the kernel no core is about to swap, and the program it has
   left, if any, is where it was. *)
Settled(s, h) ==
    s.block = "prog" =>
        \/ s.pc = "idle"
        \/ /\ h.held /\ s.pc = h.pc
           /\ s.regs["t0"] = BIOS!Pointer /\ s.regs["t1"] = BIOS!MieValue

LEMMA SettledFacts ==
    ASSUME NEW s, NEW h, Settled(s, h)
    PROVE  /\ Trying(s)
           /\ \A x : x.block # "prog" /\ Holds(s, h) => Holds(x, h)
BY DEF Settled, Trying, Holds, Point, AtPoint, LockValues, BIOS!Pointer, BIOS!MieValue

(* The same core with its registers s, and nothing else. *)
LEMMA OnlyRegisters ==
    ASSUME FirmwareInv, NEW c \in Cores, NEW s \in BIOS!CoreState, BIOS!Set(c, s),
           UNCHANGED <<area, vector, starting, lock, held>>,
           core[c].block # "prog", Settled(s, held[c]),
           Right(c, s, area[c], vector[c], held[c], starting)
    PROVE  FirmwareInv'
<1>1. LockInv'
  <2> DEFINE h == held[c]
  <2>1. held' = [held EXCEPT ![c] = h]
    BY DEF FirmwareInv, BIOS!TypeOK
  <2>2. Trying(s) /\ (Holds(s, h) => Holds(core[c], h))
    BY SettledFacts
  <2>3. core' = [core EXCEPT ![c] = s]
    BY DEF BIOS!Set
  <2>4. lock' = lock /\ h = held[c]
    OBVIOUS
  <2> HIDE DEF h
  <2> QED
    BY <2>1, <2>2, <2>3, <2>4, LockKept
<1> DEFINE a == area[c]
           v == vector[c]
           h == held[c]
<1>2. /\ a \in BIOS!State /\ area' = [area EXCEPT ![c] = a]
      /\ v \in Cores \cup {BIOS!Nowhere} /\ vector' = [vector EXCEPT ![c] = v]
      /\ h \in BIOS!Left /\ held' = [held EXCEPT ![c] = h]
      /\ starting' \subseteq Cores
  BY DEF FirmwareInv, BIOS!TypeOK
<1>3. /\ starting' = starting /\ core' = [core EXCEPT ![c] = s]
      /\ Right(c, s, a, v, h, starting')
  BY DEF BIOS!Set
<1>4. \A d \in Cores : d # c => (d \in starting' <=> d \in starting)
  BY <1>3
<1> HIDE DEF a, v, h
<1> QED
  BY <1>1, <1>2, <1>3, <1>4, OneCore

LEMMA CoreFacts ==
    ASSUME FirmwareInv, NEW c \in Cores
    PROVE  /\ core[c] \in BIOS!CoreState /\ area[c] \in BIOS!State /\ held[c] \in BIOS!Left
           /\ vector[c] \in Cores \cup {BIOS!Nowhere}
           /\ Right(c, core[c], area[c], vector[c], held[c], starting)
  BY DEF FirmwareInv, BIOS!TypeOK

LEMMA TrapFacts ==
    ASSUME NEW s \in BIOS!CoreState, NEW cause \in BIOS!Causes
    PROVE  /\ BIOS!TrapOf(s, cause) \in BIOS!CoreState
           /\ BIOS!TrapOf(s, cause).block = "dispatch"
           /\ BIOS!TrapOf(s, cause).cause = cause
           /\ BIOS!TrapOf(s, cause).mepc = IF s.block = "prog" THEN s.pc ELSE "kernel"
           /\ BIOS!TrapOf(s, cause).mpp = s.mode
           /\ BIOS!TrapOf(s, cause).mpie = s.on
           /\ BIOS!TrapOf(s, cause).mie = s.mie
           /\ BIOS!TrapOf(s, cause).regs = s.regs
<1> DEFINE m == IF s.block = "prog" THEN s.pc ELSE "kernel"
<1>1. m \in BIOS!Points \cup {"kernel"}
  BY DEF BIOS!CoreState
<1>2. BIOS!TrapOf(s, cause) = [s EXCEPT !.block = "dispatch", !.cause = cause,
                            !.mode = "M", !.mepc = m, !.mpp = s.mode,
                            !.mpie = s.on, !.on = FALSE]
  BY DEF BIOS!TrapOf
<1> HIDE DEF m
<1> QED
  BY <1>1, <1>2, ZenonT(40) DEF BIOS!CoreState, BIOS!Blocks, m

-----------------------------------------------------------------------------
(* The traps *)

LEMMA LeaveStep ==
    ASSUME FirmwareInv, NEW c \in Cores, NEW cause \in {"int", "exc", "utlb"},
           BIOS!Leave(c, cause)
    PROVE  FirmwareInv'
<1> DEFINE x == core[c]
           s == BIOS!TrapOf(x, cause)
           a == area[c]
           v == vector[c]
           h == [held |-> TRUE, regs |-> x.regs, pc |-> x.pc, mode |-> x.mode,
                 on |-> x.on, mie |-> x.mie]
<1>1. /\ x.block = "prog" /\ core' = [core EXCEPT ![c] = s]
      /\ held' = [held EXCEPT ![c] = h]
      /\ UNCHANGED <<area, vector, starting, lock>>
  BY DEF BIOS!Leave, BIOS!Set
<1>2. /\ x \in BIOS!CoreState /\ v = c
      /\ c \notin starting
  BY <1>1, CoreFacts DEF Right, Path, Start
<1>3. /\ s \in BIOS!CoreState /\ s.block = "dispatch" /\ s.cause = cause
      /\ s.mepc = x.pc /\ s.mpp = x.mode /\ s.mpie = x.on /\ s.mie = x.mie
      /\ s.regs = x.regs
  <2>1. cause \in BIOS!Causes
    BY DEF BIOS!Causes
  <2> HIDE DEF x
  <2> QED
    BY <1>1, <1>2, <2>1, TrapFacts
<1>4. h \in BIOS!Left
  BY <1>2 DEF BIOS!CoreState, BIOS!Left
<1>5. a \in BIOS!State /\ area' = [area EXCEPT ![c] = a]
      /\ v \in Cores \cup {BIOS!Nowhere} /\ vector' = [vector EXCEPT ![c] = v]
      /\ starting' = starting /\ starting' \subseteq Cores
  BY <1>1 DEF FirmwareInv, BIOS!TypeOK
<1> HIDE DEF s, a, v
<1>6. Right(c, s, a, v, h, starting')
  BY <1>1, <1>2, <1>3, <1>5 DEF Right, ProgramKept, Path, Start, Carried
<1>7. LockInv'
  <2>1. Trying(s) /\ (Holds(s, h) => Holds(x, held[c]))
    BY <1>1, <1>3 DEF Trying, Holds, Point, AtPoint
  <2> HIDE DEF h
  <2> QED
    BY <1>1, <2>1, LockKept
<1> HIDE DEF h
<1>8. \A d \in Cores : d # c => (d \in starting' <=> d \in starting)
  BY <1>5
<1> QED
  BY <1>1, <1>3, <1>4, <1>5, <1>6, <1>7, <1>8, OneCore

(* The registers that Dispatch uses are not those that are kept. *)
LEMMA DispatchStep ==
    ASSUME FirmwareInv, NEW c \in Cores, BIOS!Dispatch(c)
    PROVE  FirmwareInv'
<1> DEFINE x == core[c]
           used == [x EXCEPT !.regs["t0"] = BIOS!Pointer, !.regs["t1"] = BIOS!HandlerPC]
<1>1. x.block = "dispatch" /\ UNCHANGED <<area, vector, starting, lock, held>>
  BY DEF BIOS!Dispatch
<1>2. x \in BIOS!CoreState /\ held[c] \in BIOS!Left /\ vector[c] = c
      /\ Right(c, x, area[c], vector[c], held[c], starting)
  BY <1>1, CoreFacts DEF Right, Path
<1>3. BIOS!Pointer \in BIOS!Values /\ BIOS!HandlerPC \in BIOS!Values /\ BIOS!ReturnPC \in BIOS!Values
  BY DEF BIOS!Pointer, BIOS!HandlerPC, BIOS!ReturnPC, BIOS!Values
<1>4. used \in BIOS!CoreState /\ \A r \in BIOS!Kept : used.regs[r] = x.regs[r]
  BY <1>2, <1>3 DEF BIOS!CoreState, BIOS!Kept, BIOS!Registers
<1>5. /\ used.mepc = x.mepc /\ used.mpp = x.mpp /\ used.mpie = x.mpie
      /\ used.mie = x.mie /\ used.cause = x.cause
  BY <1>2 DEF BIOS!CoreState
<1> HIDE DEF used
<1>6. ASSUME NEW s \in BIOS!CoreState, BIOS!Set(c, s), s.block = "save", x.cause # "break",
             s.regs = used.regs, s.mepc = used.mepc, s.mpp = used.mpp,
             s.mpie = used.mpie, s.mie = used.mie
      PROVE  FirmwareInv'
  <2>1. Right(c, s, area[c], vector[c], held[c], starting)
    BY <1>1, <1>2, <1>4, <1>5, <1>6 DEF Right, ProgramKept, Path, Start, Carried
  <2> QED
    BY <1>1, <1>6, <2>1, OnlyRegisters DEF Settled
<1>7. CASE x.cause = "utlb" /\ BIOS!Set(c, [used EXCEPT !.cause = "refill",
                                  !.handler = "refill", !.block = "save"])
  BY <1>4, <1>6, <1>7 DEF BIOS!CoreState, BIOS!Blocks, BIOS!Causes
<1>8. CASE x.cause \in {"int", "exc"}
           /\ BIOS!Set(c, [used EXCEPT !.handler = "general", !.block = "save"])
  BY <1>4, <1>6, <1>8 DEF BIOS!CoreState, BIOS!Blocks
<1>9. CASE x.cause = "break" /\ x.regs["a0"] = BIOS!LDST
           /\ BIOS!Set(c, [used EXCEPT !.k0 = x.regs["a1"], !.block = "load"])
  <2> DEFINE s == [used EXCEPT !.k0 = x.regs["a1"], !.block = "load"]
  <2>1. x.regs["a1"] = c /\ held[c].held
    BY <1>1, <1>2, <1>9 DEF Right, Path
  <2>2. s \in BIOS!CoreState /\ s.block = "load" /\ s.k0 = c
    BY <1>4, <2>1 DEF BIOS!CoreState, BIOS!Blocks
  <2> HIDE DEF s
  <2>3. Right(c, s, area[c], vector[c], held[c], starting)
    BY <1>1, <1>2, <1>9, <2>1, <2>2 DEF Right, ProgramKept, Path, Start
  <2> QED
    BY <1>1, <1>9, <2>2, <2>3, OnlyRegisters DEF s, Settled
<1>10. CASE x.cause = "break" /\ x.regs["a0"] = BIOS!HALT
            /\ BIOS!Set(c, [used EXCEPT !.block = "stop"])
  <2> DEFINE s == [used EXCEPT !.block = "stop"]
  <2>1. s \in BIOS!CoreState /\ s.block = "stop"
    BY <1>4 DEF BIOS!CoreState, BIOS!Blocks
  <2> HIDE DEF s
  <2>2. Right(c, s, area[c], vector[c], held[c], starting)
    BY <1>1, <1>2, <2>1 DEF Right, ProgramKept, Path, Start
  <2> QED
    BY <1>1, <1>10, <2>1, <2>2, OnlyRegisters DEF s, Settled
<1>11. CASE x.cause = "break" /\ x.regs["a0"] = BIOS!LDCXT
            /\ BIOS!Set(c, BIOS!Launched(x))
  <2> DEFINE regs == [x.regs EXCEPT !["t0"] = BIOS!Pointer, !["t1"] = BIOS!ReturnPC,
                                    !["sp"] = x.regs["a1"]]
             s    == BIOS!Launched(x)
  <2>1. regs \in [BIOS!Registers -> BIOS!Values]
    BY <1>2, <1>3 DEF BIOS!CoreState, BIOS!Registers
  <2> HIDE DEF regs
  <2> DEFINE t == [x EXCEPT !.regs = regs, !.block = "prog", !.pc = "idle"]
  <2>2. s = [t EXCEPT !.mepc = "idle", !.mode = "U", !.on = TRUE,
                      !.mpie = FALSE, !.mpp = "U"]
    BY DEF BIOS!Launched, regs
  <2> HIDE DEF x, s
  <2>5. t \in BIOS!CoreState /\ t.block = "prog" /\ t.pc = "idle"
    BY <1>2, <2>1 DEF BIOS!CoreState, BIOS!Blocks, BIOS!Points
  <2> HIDE DEF t
  <2>6. s \in BIOS!CoreState /\ s.block = "prog" /\ s.pc = "idle"
    BY <2>2, <2>5 DEF BIOS!CoreState, BIOS!Points
  <2> USE DEF x
  <2>3. ~held[c].held
    BY <1>1, <1>2, <1>11 DEF Right, Path
  <2>4. Right(c, s, area[c], vector[c], held[c], starting)
    BY <1>1, <1>2, <2>6, <2>3 DEF Right, ProgramKept, Path, Start
  <2> QED
    BY <1>1, <1>11, <2>6, <2>4, OnlyRegisters DEF s, Settled
<1> QED
  BY <1>7, <1>8, <1>9, <1>10, <1>11 DEF BIOS!Dispatch, used

LEMMA SaveStep ==
    ASSUME FirmwareInv, NEW c \in Cores, BIOS!Save(c)
    PROVE  FirmwareInv'
<1> DEFINE x == core[c]
           v == vector[c]
           h == held[c]
           a == BIOS!Saved(x)
           s == [x EXCEPT !.k0 = v, !.regs["t0"] = BIOS!Pointer,
                   !.regs["t1"] = BIOS!HandlerPC, !.regs["sp"] = BIOS!Kernel,
                   !.mepc = "kernel", !.block = "kernel"]
<1>1. /\ x.block = "save" /\ core' = [core EXCEPT ![c] = s]
      /\ UNCHANGED <<vector, starting, lock, held>>
  BY DEF BIOS!Save, BIOS!Set
<1>2. /\ x \in BIOS!CoreState /\ v = c /\ h \in BIOS!Left
      /\ Right(c, x, area[c], v, h, starting)
  BY <1>1, CoreFacts DEF Right, Path
<1>3. area' = [area EXCEPT ![c] = a]
  BY <1>2 DEF BIOS!Save
<1>4. /\ BIOS!Pointer \in BIOS!Values /\ BIOS!HandlerPC \in BIOS!Values /\ BIOS!Kernel \in BIOS!Values
      /\ BIOS!MieValue \in BIOS!Values
  BY DEF BIOS!Pointer, BIOS!HandlerPC, BIOS!Kernel, BIOS!MieValue, BIOS!Values
<1>5. /\ a \in BIOS!State /\ a.epc = x.mepc /\ a.mpp = x.mpp /\ a.mpie = x.mpie
      /\ a.mie = x.mie /\ \A r \in BIOS!Kept : a.regs[r] = x.regs[r]
      /\ a.regs["t0"] = BIOS!Pointer /\ a.regs["t1"] = BIOS!MieValue
  <2> DEFINE regs == [x.regs EXCEPT !["t0"] = BIOS!Pointer, !["t1"] = BIOS!MieValue]
  <2>1. /\ regs \in [BIOS!Registers -> BIOS!Values]
        /\ \A r \in BIOS!Kept : regs[r] = x.regs[r]
        /\ regs["t0"] = BIOS!Pointer /\ regs["t1"] = BIOS!MieValue
    BY <1>2, <1>4 DEF BIOS!CoreState, BIOS!Registers, BIOS!Kept
  <2>2. a = [regs |-> regs, word0 |-> "asid", cause |-> x.cause, mpie |-> x.mpie,
             mpp |-> x.mpp, epc |-> x.mepc, mie |-> x.mie]
    BY DEF BIOS!Saved
  <2> HIDE DEF a, regs
  <2> QED
    BY <1>2, <2>1, <2>2 DEF BIOS!CoreState, BIOS!State
<1>6. s \in BIOS!CoreState /\ s.block = "kernel"
  <2> DEFINE t == [x EXCEPT !.k0 = v, !.regs["t0"] = BIOS!Pointer,
                            !.regs["t1"] = BIOS!HandlerPC,
                            !.regs["sp"] = BIOS!Kernel]
  <2>1. t \in BIOS!CoreState
    BY <1>2, <1>4 DEF BIOS!CoreState, BIOS!Registers
  <2>2. s = [t EXCEPT !.mepc = "kernel", !.block = "kernel"]
    OBVIOUS
  <2> HIDE DEF s, t
  <2> QED
    BY <2>1, <2>2 DEF BIOS!CoreState, BIOS!Blocks
<1>7. /\ v \in Cores \cup {BIOS!Nowhere} /\ vector' = [vector EXCEPT ![c] = v]
      /\ held' = [held EXCEPT ![c] = h]
      /\ starting' = starting /\ starting' \subseteq Cores
  BY <1>1 DEF FirmwareInv, BIOS!TypeOK
<1> HIDE DEF a, s
<1>8. Right(c, s, a, v, h, starting')
  BY <1>1, <1>2, <1>5, <1>6, <1>7 DEF Right, ProgramKept, Path, Start, Carried,
      Stored
<1>9. LockInv'
  <2>1. Trying(s) /\ (Holds(s, h) => Holds(x, h))
    BY <1>1, <1>6 DEF Trying, Holds, Point, AtPoint
  <2>2. core' = [core EXCEPT ![c] = s] /\ lock' = lock /\ h = held[c] /\ x = core[c]
    BY <1>1
  <2> HIDE DEF x, h
  <2> QED
    BY <1>7, <2>1, <2>2, LockKept
<1>10. \A d \in Cores : d # c => (d \in starting' <=> d \in starting)
  BY <1>7
<1>11. h \in BIOS!Left /\ a \in BIOS!State /\ s \in BIOS!CoreState
  BY <1>2, <1>5, <1>6
<1>12. core' = [core EXCEPT ![c] = s]
  BY <1>1
<1> HIDE DEF x, v, h
<1> QED
  BY <1>3, <1>7, <1>8, <1>9, <1>10, <1>11, <1>12, OneCore

(* What a core comes to that loads a state. *)
LEMMA LoadedFacts ==
    ASSUME NEW x \in BIOS!CoreState, NEW m \in BIOS!State
    PROVE  LET s == BIOS!Loaded(x, m)
           IN  /\ s \in BIOS!CoreState /\ s.block = "prog"
               /\ s.pc = IF m.epc = "kernel" THEN "idle" ELSE m.epc
               /\ s.mode = m.mpp /\ s.on = m.mpie /\ s.mie = m.mie
               /\ \A r \in BIOS!Kept \cup {"t0", "t1"} : s.regs[r] = m.regs[r]
<1> DEFINE s    == BIOS!Loaded(x, m)
           pc   == IF m.epc = "kernel" THEN "idle" ELSE m.epc
           regs == [m.regs EXCEPT !["t6"] = BIOS!ReturnPC]
           t    == [x EXCEPT !.block = "prog", !.regs = regs, !.cause = m.cause,
                             !.mie = m.mie, !.mepc = m.epc]
<1>1. /\ regs \in [BIOS!Registers -> BIOS!Values]
      /\ \A r \in BIOS!Kept \cup {"t0", "t1"} : regs[r] = m.regs[r]
  BY DEF BIOS!State, BIOS!Registers, BIOS!Kept, BIOS!ReturnPC, BIOS!Values
<1>2. pc \in BIOS!Points
  BY DEF BIOS!State, BIOS!Points
<1>3. s = [t EXCEPT !.pc = pc, !.mode = m.mpp, !.mpp = "U", !.on = m.mpie,
                    !.mpie = FALSE]
  BY DEF BIOS!Loaded
<1> HIDE DEF s, pc, regs
<1>4. t \in BIOS!CoreState /\ t.block = "prog" /\ t.regs = regs /\ t.mie = m.mie
  BY <1>1 DEF BIOS!CoreState, BIOS!State, BIOS!Blocks
<1> HIDE DEF t
<1>5. /\ s \in BIOS!CoreState /\ s.block = "prog" /\ s.regs = regs /\ s.mie = m.mie
      /\ s.pc = pc /\ s.mode = m.mpp /\ s.on = m.mpie
  BY <1>2, <1>3, <1>4, ZenonT(40) DEF BIOS!CoreState, BIOS!State
<1> QED
  BY <1>1, <1>5 DEF s, pc

LEMMA LoadStep ==
    ASSUME FirmwareInv, NEW c \in Cores, BIOS!Load(c)
    PROVE  FirmwareInv'
<1> DEFINE x == core[c]
           s == BIOS!Loaded(x, area[c])
<1>1. /\ x \in BIOS!CoreState /\ area[c] \in BIOS!State /\ x.block = "load"
      /\ x.k0 = c /\ held[c].held /\ vector[c] = c
      /\ Right(c, x, area[c], vector[c], held[c], starting)
  BY CoreFacts DEF BIOS!Load, Right, Path
<1>2. BIOS!Set(c, s) /\ UNCHANGED <<area, vector, starting, lock, held>>
  BY <1>1 DEF BIOS!Load
<1>3. /\ Stored(area[c], held[c]) /\ c \notin starting
      /\ held[c].pc # "kernel"
  BY <1>1, CoreFacts DEF Right, ProgramKept, Start, BIOS!Left, BIOS!Points
<1>4. /\ s \in BIOS!CoreState /\ s.block = "prog" /\ s.pc = held[c].pc
      /\ Current(s, held[c])
      /\ s.regs["t0"] = BIOS!Pointer /\ s.regs["t1"] = BIOS!MieValue
  BY <1>1, <1>3, LoadedFacts DEF Stored, Current
<1> HIDE DEF s
<1>5. Right(c, s, area[c], vector[c], held[c], starting)
  BY <1>1, <1>3, <1>4 DEF Right, ProgramKept, Path, Start
<1>6. Settled(s, held[c])
  BY <1>1, <1>4 DEF Settled
<1> QED
  BY <1>1, <1>2, <1>4, <1>5, <1>6, OnlyRegisters

-----------------------------------------------------------------------------
(* The kernel *)

LEMMA CalledStep ==
    ASSUME FirmwareInv, NEW c \in Cores, BIOS!AtKernel(c), NEW x \in BIOS!CoreState,
           NEW service \in {BIOS!LDCXT, BIOS!LDST, BIOS!HALT},
           NEW arg \in BIOS!Values,
           BIOS!Set(c, BIOS!Called(x, service, arg)),
           UNCHANGED <<area, vector, starting, lock, held>>,
           service = BIOS!LDST => arg = c /\ held[c].held,
           service = BIOS!LDCXT => ~held[c].held
    PROVE  FirmwareInv'
<1> DEFINE s    == BIOS!Called(x, service, arg)
           regs == [BIOS!AllOf(BIOS!Kernel) EXCEPT !["a0"] = service, !["a1"] = arg]
           y    == [x EXCEPT !.regs = regs]
<1>1. /\ regs \in [BIOS!Registers -> BIOS!Values]
      /\ regs["a0"] = service /\ regs["a1"] = arg
  <2>1. BIOS!Kernel \in BIOS!Values /\ service \in BIOS!Values
    BY DEF BIOS!Values, BIOS!Kernel, BIOS!LDCXT, BIOS!LDST, BIOS!HALT
  <2> QED
    BY <2>1 DEF BIOS!AllOf, BIOS!Registers
<1> HIDE DEF regs
<1>2. y \in BIOS!CoreState /\ y.regs = regs
  BY <1>1 DEF BIOS!CoreState
<1>3. s = BIOS!TrapOf(y, "break") /\ "break" \in BIOS!Causes
  BY DEF BIOS!Called, regs, BIOS!Causes
<1> HIDE DEF y, s
<1>4. s \in BIOS!CoreState /\ s.block = "dispatch" /\ s.cause = "break" /\ s.regs = regs
  BY <1>2, <1>3, TrapFacts
<1>5. /\ core[c].block = "kernel" /\ vector[c] = c /\ c \notin starting
      /\ ProgramKept(core[c], area[c], held[c])
  BY CoreFacts DEF BIOS!AtKernel, Right, Path, Start
<1>6. Right(c, s, area[c], vector[c], held[c], starting)
  BY <1>1, <1>4, <1>5 DEF Right, ProgramKept, Path, Start
<1> QED
  BY <1>4, <1>5, <1>6, OnlyRegisters DEF s, Settled

LEMMA KernelStep ==
    ASSUME FirmwareInv, NEW c \in Cores, BIOS!KernelLDST(c) \/ BIOS!KernelLDCXT(c) \/ BIOS!KernelHALT(c)
    PROVE  FirmwareInv'
<1>1. /\ core[c] \in BIOS!CoreState /\ [core[c] EXCEPT !.mie = TRUE] \in BIOS!CoreState
      /\ c \in BIOS!Values /\ 0 \in BIOS!Values /\ BIOS!Kernel \in BIOS!Values
      /\ BIOS!LDST # BIOS!LDCXT /\ BIOS!LDST # BIOS!HALT /\ BIOS!LDCXT # BIOS!HALT
  <2>1. core[c] \in BIOS!CoreState
    BY CoreFacts
  <2>2. [core[c] EXCEPT !.mie = TRUE] \in BIOS!CoreState
    BY <2>1 DEF BIOS!CoreState
  <2>3. /\ c \in BIOS!Values /\ 0 \in BIOS!Values /\ BIOS!Kernel \in BIOS!Values
        /\ BIOS!LDST # BIOS!LDCXT /\ BIOS!LDST # BIOS!HALT /\ BIOS!LDCXT # BIOS!HALT
    BY DEF BIOS!Values, BIOS!Kernel, BIOS!LDST, BIOS!LDCXT, BIOS!HALT
  <2> QED
    BY <2>1, <2>2, <2>3
<1>2. CASE BIOS!KernelLDST(c)
  BY <1>1, <1>2, CalledStep DEF BIOS!KernelLDST, BIOS!AreaOf
<1>3. CASE BIOS!KernelLDCXT(c)
  BY <1>1, <1>3, CalledStep DEF BIOS!KernelLDCXT
<1>4. CASE BIOS!KernelHALT(c)
  BY <1>1, <1>4, CalledStep DEF BIOS!KernelHALT
<1> QED
  BY <1>2, <1>3, <1>4

(* INITCPU writes the area of a core that is off and has left no program. *)
LEMMA InitCPUStep ==
    ASSUME FirmwareInv, NEW c \in Cores, NEW other \in Cores, BIOS!InitCPU(c, other)
    PROVE  FirmwareInv'
<1> DEFINE s == core[other]
           m == area[other]
           a == [m EXCEPT !.word0 = "start"]
           v == vector[other]
           h == held[other]
<1>1. /\ s.block = "off" /\ starting' = starting \cup {other}
      /\ UNCHANGED <<core, vector, lock, held>>
  BY DEF BIOS!InitCPU
<1>2. /\ s \in BIOS!CoreState /\ m \in BIOS!State /\ h \in BIOS!Left
      /\ v \in Cores \cup {BIOS!Nowhere}
      /\ Right(other, s, m, v, h, starting)
  BY CoreFacts
<1>3. a \in BIOS!State /\ a.word0 = "start"
  BY <1>2 DEF BIOS!State
<1>4. area' = [area EXCEPT ![other] = a]
  BY DEF BIOS!InitCPU, BIOS!AreaOf
<1>5. /\ core' = [core EXCEPT ![other] = s] /\ vector' = [vector EXCEPT ![other] = v]
      /\ held' = [held EXCEPT ![other] = h] /\ starting' \subseteq Cores
  BY <1>1 DEF FirmwareInv, BIOS!TypeOK
<1>6. \A d \in Cores : d # other => (d \in starting' <=> d \in starting)
  BY <1>1
<1>7. LockInv'
  BY <1>1 DEF FirmwareInv, LockInv, LockValues, Holds, Point, Trying, AtPoint
<1> HIDE DEF s, m, a, v, h
<1>8. Right(other, s, a, v, h, starting')
  BY <1>1, <1>2, <1>3 DEF Right, ProgramKept, Path, Start
<1> QED
  BY <1>2, <1>3, <1>4, <1>5, <1>6, <1>7, <1>8, OneCore

LEMMA OffFacts ==
    [BIOS!Off EXCEPT !.block = "boot"] \in BIOS!CoreState /\ BIOS!StartState \in BIOS!State
<1>1. \A v \in BIOS!Values : BIOS!AllOf(v) \in [BIOS!Registers -> BIOS!Values]
  BY DEF BIOS!AllOf
<1>2. 0 \in BIOS!Values /\ BIOS!Own \in BIOS!Values
  BY DEF BIOS!Values, BIOS!Own
<1> QED
  BY <1>1, <1>2 DEF BIOS!Off, BIOS!StartState, BIOS!CoreState, BIOS!State,
      BIOS!Blocks, BIOS!Points, BIOS!Causes

LEMMA StartCPUStep ==
    ASSUME FirmwareInv, NEW c \in Cores, BIOS!StartCPU(c)
    PROVE  FirmwareInv'
<1> DEFINE s == [BIOS!Off EXCEPT !.block = "boot"]
           a == area[c]
           v == vector[c]
           h == held[c]
<1>1. /\ c \in starting /\ starting' = starting \ {c}
      /\ core' = [core EXCEPT ![c] = s]
      /\ UNCHANGED <<area, vector, lock, held>>
  BY DEF BIOS!StartCPU, BIOS!Set
<1>2. /\ a \in BIOS!State /\ h \in BIOS!Left /\ v \in Cores \cup {BIOS!Nowhere}
      /\ core[c].block = "off" /\ a.word0 = "start" /\ ~h.held
  BY <1>1, CoreFacts DEF Right, Start, ProgramKept
<1>3. s \in BIOS!CoreState /\ s.block = "boot"
  BY OffFacts DEF BIOS!Off
<1>4. /\ area' = [area EXCEPT ![c] = a] /\ vector' = [vector EXCEPT ![c] = v]
      /\ held' = [held EXCEPT ![c] = h] /\ starting' \subseteq Cores
  BY <1>1 DEF FirmwareInv, BIOS!TypeOK
<1>5. \A d \in Cores : d # c => (d \in starting' <=> d \in starting)
  BY <1>1
<1> HIDE DEF s, a, v, h
<1>6. Right(c, s, a, v, h, starting')
  BY <1>1, <1>2, <1>3 DEF Right, ProgramKept, Path, Start
<1>7. LockInv'
  <2>1. Trying(s) /\ ~Holds(s, h)
    BY <1>2, <1>3 DEF Trying, Holds, Point, AtPoint
  <2> QED
    BY <1>1, <1>4, <2>1, LockKept
<1> QED
  BY <1>1, <1>2, <1>3, <1>4, <1>5, <1>6, <1>7, OneCore

LEMMA BootCPUStep ==
    ASSUME FirmwareInv, NEW c \in Cores, BIOS!BootCPU(c)
    PROVE  FirmwareInv'
<1> DEFINE x == core[c]
           s == BIOS!Loaded(x, BIOS!StartState)
           a == area[c]
           h == held[c]
<1>1. /\ x \in BIOS!CoreState /\ a \in BIOS!State /\ h \in BIOS!Left
      /\ x.block = "boot" /\ a.word0 = "start" /\ ~h.held /\ c \notin starting
  BY CoreFacts DEF BIOS!BootCPU, Right, Start, ProgramKept
<1>2. /\ core' = [core EXCEPT ![c] = s] /\ vector' = [vector EXCEPT ![c] = c]
      /\ UNCHANGED <<area, starting, lock, held>>
  BY <1>1 DEF BIOS!BootCPU, BIOS!Set, BIOS!AreaOf
<1>3. s \in BIOS!CoreState /\ s.block = "prog" /\ s.pc = "idle"
  BY <1>1, OffFacts, LoadedFacts DEF BIOS!StartState
<1>4. /\ area' = [area EXCEPT ![c] = a] /\ held' = [held EXCEPT ![c] = h]
      /\ starting' = starting /\ starting' \subseteq Cores
  BY <1>2 DEF FirmwareInv, BIOS!TypeOK
<1>5. \A d \in Cores : d # c => (d \in starting' <=> d \in starting)
  BY <1>4
<1> HIDE DEF x, s, a, h
<1>6. Right(c, s, a, c, h, starting')
  BY <1>1, <1>3, <1>4 DEF Right, ProgramKept, Path, Start
<1>7. LockInv'
  <2>1. Trying(s) /\ ~Holds(s, h)
    BY <1>3 DEF Trying, Holds, Point, AtPoint
  <2> QED
    BY <1>2, <1>4, <2>1, LockKept
<1> QED
  BY <1>1, <1>2, <1>3, <1>4, <1>5, <1>6, <1>7, OneCore

-----------------------------------------------------------------------------
(* The lock *)

LEMMA GoesStep ==
    ASSUME FirmwareInv, NEW c \in Cores, core[c].block = "prog", NEW s \in BIOS!CoreState,
           BIOS!Goes(c, s), s.block = "prog", LockInv'
    PROVE  FirmwareInv'
<1> DEFINE a == area[c]
           v == vector[c]
<1>1. /\ core' = [core EXCEPT ![c] = s] /\ held' = [held EXCEPT ![c] = BIOS!NotHeld]
      /\ UNCHANGED <<area, vector, starting>>
  BY DEF BIOS!Goes, BIOS!Set, BIOS!Forget
<1>2. /\ a \in BIOS!State /\ v \in Cores \cup {BIOS!Nowhere} /\ v = c /\ c \notin starting
  BY CoreFacts DEF Right, Path, Start
<1>3. BIOS!NotHeld \in BIOS!Left /\ ~BIOS!NotHeld.held
  <2>1. BIOS!AllOf(0) \in [BIOS!Registers -> BIOS!Values]
    BY DEF BIOS!AllOf, BIOS!Values
  <2> QED
    BY <2>1 DEF BIOS!NotHeld, BIOS!Left, BIOS!Points
<1>4. /\ area' = [area EXCEPT ![c] = a] /\ vector' = [vector EXCEPT ![c] = v]
      /\ starting' = starting /\ starting' \subseteq Cores
  BY <1>1 DEF FirmwareInv, BIOS!TypeOK
<1>5. \A d \in Cores : d # c => (d \in starting' <=> d \in starting)
  BY <1>4
<1> HIDE DEF a, v
<1>6. Right(c, s, a, v, BIOS!NotHeld, starting')
  BY <1>2, <1>3, <1>4 DEF Right, ProgramKept, Path, Start
<1> QED
  BY <1>1, <1>2, <1>3, <1>4, <1>5, <1>6, OneCore

(* The registers of a core in the library after a step there. *)
Moved(x, t0, t1, pc) ==
    [x EXCEPT !.regs = [@ EXCEPT !["t0"] = t0, !["t1"] = t1], !.pc = pc]

LEMMA FirmwareStepFacts ==
    ASSUME NEW x \in BIOS!CoreState, NEW t0 \in BIOS!Values, NEW t1 \in BIOS!Values,
           NEW pc \in BIOS!Points
    PROVE  LET s == Moved(x, t0, t1, pc)
           IN  /\ s \in BIOS!CoreState /\ s.block = x.block /\ s.pc = pc
               /\ s.regs["t0"] = t0 /\ s.regs["t1"] = t1
<1> DEFINE regs == [x.regs EXCEPT !["t0"] = t0, !["t1"] = t1]
<1>1. regs \in [BIOS!Registers -> BIOS!Values] /\ regs["t0"] = t0 /\ regs["t1"] = t1
  BY DEF BIOS!CoreState, BIOS!Registers
<1> HIDE DEF regs
<1>2. [x EXCEPT !.regs = regs, !.pc = pc] \in BIOS!CoreState
  BY <1>1 DEF BIOS!CoreState
<1>3. /\ [x EXCEPT !.regs = regs, !.pc = pc].block = x.block
      /\ [x EXCEPT !.regs = regs, !.pc = pc].pc = pc
      /\ [x EXCEPT !.regs = regs, !.pc = pc].regs = regs
  BY DEF BIOS!CoreState
<1> QED
  BY <1>1, <1>2, <1>3 DEF Moved, regs


(* What is common to the steps of a program: which values it has now. *)
LEMMA ProgramFacts ==
    ASSUME FirmwareInv, NEW c \in Cores, core[c].block = "prog"
    PROVE  /\ core[c] \in BIOS!CoreState /\ Trying(core[c]) /\ lock \in LockValues
           /\ Holds(core[c], held[c]) => lock # 0
           /\ LockValues \subseteq BIOS!Values
           /\ core[c].regs["t0"] \in BIOS!Values /\ core[c].regs["t1"] \in BIOS!Values
<1>1. core[c] \in BIOS!CoreState
  BY CoreFacts
<1>2. LockValues \subseteq BIOS!Values
  BY DEF LockValues, BIOS!Values, BIOS!Pointer
<1>3. core[c].regs["t0"] \in BIOS!Values /\ core[c].regs["t1"] \in BIOS!Values
  BY <1>1 DEF BIOS!CoreState, BIOS!Registers
<1> QED
  BY <1>1, <1>2, <1>3 DEF FirmwareInv, LockInv

(* A step of the library leaves the program at pc with t0 and t1. *)
LEMMA LibraryStep ==
    ASSUME FirmwareInv, NEW c \in Cores, core[c].block = "prog",
           NEW t0 \in BIOS!Values, NEW t1 \in BIOS!Values, NEW pc \in BIOS!Points,
           NEW s, s = Moved(core[c], t0, t1, pc), BIOS!Goes(c, s),
           lock' \in LockValues,
           Trying(s),
           LET h == BIOS!NotHeld
           IN  /\ lock' = 0 => /\ ~Holds(s, h)
                               /\ lock = 0 \/ Holds(core[c], held[c])
               /\ Holds(s, h) => lock = 0 \/ Holds(core[c], held[c])
    PROVE  FirmwareInv'
<1> DEFINE x == core[c]
           h == BIOS!NotHeld
<1>1. s \in BIOS!CoreState /\ s.block = "prog"
  <2>1. x \in BIOS!CoreState /\ x.block = "prog" /\ s = Moved(x, t0, t1, pc)
    BY CoreFacts
  <2> HIDE DEF x
  <2> QED
    BY <2>1, FirmwareStepFacts
<1>2. core' = [core EXCEPT ![c] = s] /\ held' = [held EXCEPT ![c] = h]
  BY DEF BIOS!Goes, BIOS!Set, BIOS!Forget
<1> HIDE DEF h
<1>3. LockInv'
  BY <1>2, LockMoves DEF h
<1> QED
  BY <1>1, <1>3, GoesStep

(* What a core that has moved tries and holds, by what it has now. *)
TryingAt(t0, t1, pc) ==
    /\ pc = "zero" => t0 \in {1, BIOS!Pointer}
    /\ pc \in {"swap", "test"} => t0 \in LockValues /\ t1 \in {0, BIOS!MieValue}
    /\ pc = "release" => t0 \in {0, BIOS!Pointer}
HoldsAt(t0, pc) ==
    \/ pc \in {"inside", "release"}
    \/ pc \in {"swap", "test"} /\ t0 = 0

LEMMA MovedFacts ==
    ASSUME NEW x \in BIOS!CoreState, x.block = "prog", NEW t0 \in BIOS!Values,
           NEW t1 \in BIOS!Values, NEW pc \in BIOS!Points,
           NEW s, s = Moved(x, t0, t1, pc)
    PROVE  /\ Trying(s) <=> TryingAt(t0, t1, pc)
           /\ Holds(s, BIOS!NotHeld) <=> HoldsAt(t0, pc)
<1>1. s.block = "prog" /\ s.pc = pc /\ s.regs["t0"] = t0 /\ s.regs["t1"] = t1
  BY FirmwareStepFacts
<1>2. Trying(s) <=> TryingAt(t0, t1, pc)
  BY <1>1 DEF Trying, TryingAt, AtPoint
<1>3. Holds(s, BIOS!NotHeld) <=> HoldsAt(t0, pc)
  BY <1>1 DEF Holds, HoldsAt, Point, AtPoint
<1> QED
  BY <1>2, <1>3

LEMMA PrepareAcquireStep ==
    ASSUME FirmwareInv, NEW c \in Cores, BIOS!PrepareAcquire(c)
    PROVE  FirmwareInv'
<1> DEFINE x  == core[c]
           t1 == x.regs["t1"]
           s  == [x EXCEPT !.regs["t0"] = 1, !.pc = "zero"]
<1>1. x.block = "prog" /\ BIOS!Goes(c, s) /\ lock' = lock
  BY DEF BIOS!PrepareAcquire, BIOS!SetT0, BIOS!At
<1>2. /\ x \in BIOS!CoreState /\ lock \in LockValues /\ t1 \in BIOS!Values
      /\ 1 \in BIOS!Values /\ "zero" \in BIOS!Points
      /\ Holds(x, held[c]) => lock # 0
  BY <1>1, ProgramFacts DEF BIOS!Values, BIOS!Points
<1>3. s = Moved(x, 1, t1, "zero")
  BY <1>2 DEF Moved, BIOS!CoreState, BIOS!Registers
<1> HIDE DEF s, t1
<1>4. Trying(s) /\ ~Holds(s, BIOS!NotHeld)
  <2> HIDE DEF x
  <2> QED
    BY <1>1, <1>2, <1>3, MovedFacts DEF TryingAt, HoldsAt
<1> QED
  BY <1>1, <1>2, <1>3, <1>4, LibraryStep

LEMMA ZeroStep ==
    ASSUME FirmwareInv, NEW c \in Cores, BIOS!Zero(c)
    PROVE  FirmwareInv'
<1> DEFINE x  == core[c]
           t0 == x.regs["t0"]
           s  == [x EXCEPT !.regs["t1"] = 0, !.pc = "swap"]
<1>1. x.block = "prog" /\ x.pc = "zero" /\ BIOS!Goes(c, s) /\ lock' = lock
  BY DEF BIOS!Zero, BIOS!At
<1>2. /\ x \in BIOS!CoreState /\ lock \in LockValues /\ t0 \in BIOS!Values
      /\ 0 \in BIOS!Values /\ "swap" \in BIOS!Points
      /\ t0 \in {1, BIOS!Pointer}
  BY <1>1, ProgramFacts DEF BIOS!Values, BIOS!Points, Trying, AtPoint
<1>3. s = Moved(x, t0, 0, "swap")
  BY <1>2 DEF Moved, BIOS!CoreState, BIOS!Registers
<1> HIDE DEF s, t0
<1>4. Trying(s) /\ ~Holds(s, BIOS!NotHeld)
  <2>1. t0 \in LockValues /\ t0 # 0
    BY <1>2 DEF LockValues, BIOS!Pointer
  <2> HIDE DEF x
  <2> QED
    BY <1>1, <1>2, <1>3, <2>1, MovedFacts DEF TryingAt, HoldsAt
<1>5. lock = 0 => ~Holds(x, held[c])
  BY <1>1, ProgramFacts
<1> QED
  BY <1>1, <1>2, <1>3, <1>4, LibraryStep

(* The swap exchanges the lock and t0, and the right with them. *)
LEMMA SwapStep ==
    ASSUME FirmwareInv, NEW c \in Cores, BIOS!Swap(c)
    PROVE  FirmwareInv'
<1> DEFINE x  == core[c]
           t0 == x.regs["t0"]
           t1 == x.regs["t1"]
           s  == [x EXCEPT !.regs["t0"] = lock, !.pc = "test"]
<1>1. x.block = "prog" /\ x.pc = "swap" /\ BIOS!Goes(c, s) /\ lock' = t0
  BY DEF BIOS!Swap, BIOS!SwapLock, BIOS!At
<1>2. /\ x \in BIOS!CoreState /\ lock \in LockValues /\ lock \in BIOS!Values
      /\ t1 \in BIOS!Values /\ "test" \in BIOS!Points
      /\ t0 \in LockValues /\ t1 \in {0, BIOS!MieValue}
      /\ Holds(x, held[c]) => lock # 0
  BY <1>1, ProgramFacts DEF BIOS!Points, Trying, AtPoint
<1>3. s = Moved(x, lock, t1, "test")
  BY <1>2 DEF Moved, BIOS!CoreState, BIOS!Registers
<1>4. t0 = 0 => Holds(x, held[c])
  BY <1>1 DEF Holds, AtPoint
<1> HIDE DEF s, t0, t1
<1>5. Trying(s) /\ (Holds(s, BIOS!NotHeld) => lock = 0)
  <2> HIDE DEF x
  <2> QED
    BY <1>1, <1>2, <1>3, MovedFacts DEF TryingAt, HoldsAt
<1> QED
  BY <1>1, <1>2, <1>3, <1>4, <1>5, LibraryStep

(* The branch lets in who has the right: t0 and t1 are equal only if both
   are 0. *)
LEMMA TestStep ==
    ASSUME FirmwareInv, NEW c \in Cores, BIOS!Test(c)
    PROVE  FirmwareInv'
<1> DEFINE x  == core[c]
           t0 == x.regs["t0"]
           t1 == x.regs["t1"]
           pc == IF t0 # t1 THEN "swap" ELSE "inside"
           s  == [x EXCEPT !.pc = pc]
<1>1. x.block = "prog" /\ x.pc = "test" /\ BIOS!Goes(c, s) /\ lock' = lock
  BY DEF BIOS!Test, BIOS!At
<1>2. /\ x \in BIOS!CoreState /\ lock \in LockValues
      /\ t0 \in BIOS!Values /\ t1 \in BIOS!Values /\ pc \in BIOS!Points
      /\ t0 \in LockValues /\ t1 \in {0, BIOS!MieValue}
      /\ Holds(x, held[c]) => lock # 0
  BY <1>1, ProgramFacts DEF BIOS!Points, Trying, AtPoint
<1>3. s = Moved(x, t0, t1, pc)
  BY <1>2 DEF Moved, BIOS!CoreState, BIOS!Registers
<1>4. t0 = 0 => Holds(x, held[c])
  BY <1>1 DEF Holds, AtPoint
<1>5. pc = "inside" => t0 = 0
  BY <1>2 DEF LockValues, BIOS!Pointer, BIOS!MieValue
<1>6. pc \in {"swap", "inside"}
  OBVIOUS
<1> HIDE DEF s, t0, t1, pc
<1>7. Trying(s) /\ (Holds(s, BIOS!NotHeld) => t0 = 0)
  <2> HIDE DEF x
  <2> QED
    BY <1>1, <1>2, <1>3, <1>5, <1>6, MovedFacts DEF TryingAt, HoldsAt
<1> QED
  BY <1>1, <1>2, <1>3, <1>4, <1>7, LibraryStep

LEMMA PrepareReleaseStep ==
    ASSUME FirmwareInv, NEW c \in Cores, BIOS!PrepareRelease(c)
    PROVE  FirmwareInv'
<1> DEFINE x  == core[c]
           t1 == x.regs["t1"]
           s  == [x EXCEPT !.regs["t0"] = 0, !.pc = "release"]
<1>1. x.block = "prog" /\ x.pc = "inside" /\ BIOS!Goes(c, s) /\ lock' = lock
  BY DEF BIOS!PrepareRelease, BIOS!SetT0, BIOS!At
<1>2. /\ x \in BIOS!CoreState /\ lock \in LockValues /\ t1 \in BIOS!Values
      /\ 0 \in BIOS!Values /\ "release" \in BIOS!Points
      /\ Holds(x, held[c]) => lock # 0
  BY <1>1, ProgramFacts DEF BIOS!Values, BIOS!Points
<1>3. s = Moved(x, 0, t1, "release")
  BY <1>2 DEF Moved, BIOS!CoreState, BIOS!Registers
<1>4. Holds(x, held[c])
  BY <1>1 DEF Holds, Point
<1> HIDE DEF s, t1
<1>5. Trying(s)
  <2> HIDE DEF x
  <2> QED
    BY <1>1, <1>2, <1>3, MovedFacts DEF TryingAt, HoldsAt
<1> QED
  BY <1>1, <1>2, <1>3, <1>4, <1>5, LibraryStep

(* The swap of the release gives the right back, or loses it where t0 is the
   pointer; in either case whoever was inside had it. *)
LEMMA ReleaseStep ==
    ASSUME FirmwareInv, NEW c \in Cores, BIOS!Release(c)
    PROVE  FirmwareInv'
<1> DEFINE x  == core[c]
           t0 == x.regs["t0"]
           t1 == x.regs["t1"]
           s  == [x EXCEPT !.regs["t0"] = lock, !.pc = "idle"]
<1>1. x.block = "prog" /\ x.pc = "release" /\ BIOS!Goes(c, s) /\ lock' = t0
  BY DEF BIOS!Release, BIOS!SwapLock, BIOS!At
<1>2. /\ x \in BIOS!CoreState /\ lock \in BIOS!Values /\ t1 \in BIOS!Values
      /\ "idle" \in BIOS!Points /\ t0 \in LockValues
  BY <1>1, ProgramFacts DEF BIOS!Points, Trying, AtPoint, LockValues
<1>3. s = Moved(x, lock, t1, "idle")
  BY <1>2 DEF Moved, BIOS!CoreState, BIOS!Registers
<1>4. Holds(x, held[c])
  BY <1>1 DEF Holds, Point
<1> HIDE DEF s, t0, t1
<1>5. Trying(s) /\ ~Holds(s, BIOS!NotHeld)
  <2> HIDE DEF x
  <2> QED
    BY <1>1, <1>2, <1>3, MovedFacts DEF TryingAt, HoldsAt
<1> QED
  BY <1>1, <1>2, <1>3, <1>4, <1>5, LibraryStep

-----------------------------------------------------------------------------

LEMMA FirmwareNextStep ==
    ASSUME FirmwareInv, [BIOS!Next]_(BIOS!vars)
    PROVE  FirmwareInv'
<1>1. CASE UNCHANGED BIOS!vars
  BY <1>1 DEF BIOS!vars, FirmwareInv, BIOS!TypeOK, Right, LockInv, ProgramKept,
      Path, Start,
      Current, Carried, Stored, Trying, Holds, Point, AtPoint
<1>2. CASE BIOS!Next
  <2> PICK c \in Cores :
        \/ \E cause \in {"int", "exc", "utlb"} : BIOS!Leave(c, cause)
        \/ BIOS!Dispatch(c) \/ BIOS!Save(c) \/ BIOS!Load(c)
        \/ BIOS!KernelLDST(c) \/ BIOS!KernelLDCXT(c) \/ BIOS!KernelHALT(c)
        \/ \E other \in Cores : BIOS!InitCPU(c, other)
        \/ BIOS!StartCPU(c) \/ BIOS!BootCPU(c)
        \/ BIOS!PrepareAcquire(c) \/ BIOS!Zero(c) \/ BIOS!Swap(c) \/ BIOS!Test(c)
        \/ BIOS!PrepareRelease(c) \/ BIOS!Release(c)
    BY <1>2 DEF BIOS!Next
  <2> QED
    BY LeaveStep, DispatchStep, SaveStep, LoadStep, KernelStep, InitCPUStep,
       StartCPUStep, BootCPUStep, PrepareAcquireStep, ZeroStep, SwapStep, TestStep,
       PrepareReleaseStep, ReleaseStep
<1> QED
  BY <1>1, <1>2

LEMMA InvIsRight ==
    ASSUME FirmwareInv
    PROVE  BIOS!BiosInv
<1>1. BIOS!ResumesInPlace
  BY CoreFacts DEF BIOS!ResumesInPlace, BIOS!Resumed, BIOS!SameControl, Right,
      ProgramKept, Current
<1>2. BIOS!FindsItsState
  BY CoreFacts DEF BIOS!FindsItsState, Right, Start, BIOS!AreaOf
<1>3. BIOS!MutualExclusion
  BY DEF BIOS!MutualExclusion, BIOS!Inside, BIOS!PointOf, FirmwareInv, LockInv, Holds,
      Point
<1> QED
  BY <1>1, <1>2, <1>3 DEF BIOS!BiosInv, FirmwareInv

(* Whatever the number of cores: a program that was left and is resumed goes
   on where it was, with its mode, its interrupts, its stack and the registers
   that the BIOS does not use (t0, t1 and t6, which it does, are not restored);
   a core that is started finds its state; and the lock of the library excludes
   although a program that deals with it may be left at any instruction. *)
THEOREM BiosAlwaysRight == BIOS!Spec => []BiosInv
<1>1. BIOS!Init => FirmwareInv
  BY FirmwareInitInv
<1>2. FirmwareInv /\ [BIOS!Next]_(BIOS!vars) => FirmwareInv'
  BY FirmwareNextStep
<1>3. FirmwareInv => BiosInv
  BY InvIsRight DEF BiosInv
<1> QED
  BY <1>1, <1>2, <1>3, PTL DEF BIOS!Spec

----------------------------------------------------------------------------
(* Programs: the integers and the fields of an instruction. *)

(* The powers of two. *)
LEMMA Pow2Recursive ==
    /\ Manual!Pow2[0] = 1
    /\ \A n \in Nat : Manual!Pow2[n + 1] = 2 * Manual!Pow2[n]
<1> DEFINE Step == [k \in Nat |-> [x \in Nat |-> 2 * x]]
<1>1. \E f : f = [n \in Nat |-> IF n = 0 THEN 1 ELSE 2 * f[n - 1]]
  <2>1. Step \in Steps(Nat)
    BY DEF Steps
  <2>2. \A k, x \in Nat : Step[k][x] = 2 * x
    OBVIOUS
  <2> HIDE DEF Step
  <2>3. PICK f \in Functions(Nat) : IsRecursive(f, 1, Step)
    <3>1. 1 \in Nat
      OBVIOUS
    <3> QED
      BY <2>1, <3>1, FunctionExists, Zenon
  <2>4. ASSUME NEW n \in Nat
        PROVE  f[n] = IF n = 0 THEN 1 ELSE 2 * f[n - 1]
    <3>1. CASE n = 0
      BY <2>3, <3>1 DEF IsRecursive
    <3>2. CASE n # 0
      <4>1. n - 1 \in Nat /\ (n - 1) + 1 = n
        BY <3>2
      <4> QED
        BY <2>2, <2>3, <3>2, <4>1 DEF IsRecursive, Functions
    <3> QED
      BY <3>1, <3>2
  <2> QED
    BY <2>3, <2>4 DEF Functions
<1>2. Manual!Pow2 = [n \in Nat |-> IF n = 0 THEN 1 ELSE 2 * Manual!Pow2[n - 1]]
  BY <1>1 DEF Manual!Pow2
<1>3. \A n \in Nat : Manual!Pow2[n] = IF n = 0 THEN 1 ELSE 2 * Manual!Pow2[n - 1]
  BY <1>2
<1>4. ASSUME NEW n \in Nat
      PROVE  Manual!Pow2[n + 1] = 2 * Manual!Pow2[n]
  <2>1. n + 1 \in Nat /\ n + 1 # 0 /\ (n + 1) - 1 = n
    OBVIOUS
  <2> QED
    BY <1>3, <2>1
<1> QED
  BY <1>3, <1>4

LEMMA Pow2IsNat == \A n \in Nat : Manual!Pow2[n] \in Nat \ {0}
<1> DEFINE S == {n \in Nat : Manual!Pow2[n] \in Nat \ {0}}
<1>1. 0 \in S
  BY Pow2Recursive
<1>2. ASSUME NEW n \in Nat, n \in S
      PROVE  n + 1 \in S
  BY <1>2, Pow2Recursive
<1> HIDE DEF S
<1>3. Nat \subseteq S
  BY <1>1, <1>2, Induction
<1> QED
  BY <1>3 DEF S

LEMMA Pow2Sum ==
    ASSUME NEW m \in Nat
    PROVE  \A n \in Nat : Manual!Pow2[m + n] = Manual!Pow2[m] * Manual!Pow2[n]
<1> DEFINE S == {n \in Nat : Manual!Pow2[m + n] = Manual!Pow2[m] * Manual!Pow2[n]}
<1>1. 0 \in S
  BY Pow2Recursive, Pow2IsNat
<1>2. ASSUME NEW n \in Nat, n \in S
      PROVE  n + 1 \in S
  <2>1. m + n \in Nat /\ m + (n + 1) = (m + n) + 1
    OBVIOUS
  <2>2. Manual!Pow2[m + (n + 1)] = 2 * (Manual!Pow2[m] * Manual!Pow2[n])
    BY <1>2, <2>1, Pow2Recursive
  <2>3. \A p, q \in Nat : 2 * (p * q) = p * (2 * q)
    OBVIOUS
  <2> QED
    BY <2>2, <2>3, Pow2Recursive, Pow2IsNat
<1> HIDE DEF S
<1>3. Nat \subseteq S
  BY <1>1, <1>2, Induction
<1> QED
  BY <1>3 DEF S

(* Those the fields of an instruction are extended with. *)
LEMMA Pow2Table ==
    /\ Manual!Pow2[11] = 2048 /\ Manual!Pow2[12] = 4096
    /\ Manual!Pow2[19] = 524288 /\ Manual!Pow2[20] = 1048576
<1>1. \A n \in Nat : Manual!Pow2[n + 1] = 2 * Manual!Pow2[n]
  BY Pow2Recursive
<1>2. Manual!Pow2[1] = 2
  BY <1>1, Pow2Recursive
<1>3. \A n \in Nat : Manual!Pow2[n + n] = Manual!Pow2[n] * Manual!Pow2[n]
  BY Pow2Sum
<1>4. Manual!Pow2[2] = 4 /\ Manual!Pow2[3] = 8
  BY <1>1, <1>2
<1>5. Manual!Pow2[4] = 16 /\ Manual!Pow2[5] = 32
  BY <1>1, <1>4
<1>6. Manual!Pow2[10] = 1024
  BY <1>3, <1>5
<1>7. Manual!Pow2[11] = 2048 /\ Manual!Pow2[12] = 4096
  BY <1>1, <1>6
<1>8. Manual!Pow2[20] = 1048576
  BY <1>3, <1>6
<1>9. Manual!Pow2[20] = 2 * Manual!Pow2[19]
  BY <1>1
<1> QED
  BY <1>7, <1>8, <1>9, Pow2IsNat

(* The fields of an instruction, as numbers. *)
LEMMA FieldsAreNumbers ==
    ASSUME NEW i \in Manual!Instruction
    PROVE  /\ i.op \in Nat /\ i.op <= 127
           /\ i.rd \in Nat /\ i.rd <= 31
           /\ i.f3 \in Nat /\ i.f3 <= 7
           /\ i.rs1 \in Nat /\ i.rs1 <= 31
           /\ i.rs2 \in Nat /\ i.rs2 <= 31
           /\ i.f7 \in Nat /\ i.f7 <= 127
  BY DEF Manual!Instruction

LEMMA ImmediatesAreExtended ==
    ASSUME NEW i \in Manual!Instruction
    PROVE  /\ Manual!SIGN_EXTENSION(Manual!I_IMM(i), 12) = Manual!IImm(i)
           /\ Manual!SIGN_EXTENSION(Manual!S_IMM(i), 12) = Manual!SImm(i)
<1>1. PICK rd \in Nat, rs2 \in Nat, f7 \in Nat :
        /\ rd <= 31 /\ rs2 <= 31 /\ f7 <= 127
        /\ i.rd = rd /\ i.rs2 = rs2 /\ i.f7 = f7
  BY FieldsAreNumbers
<1>2. ASSUME NEW n \in Nat, n <= 31
      PROVE  Manual!SIGN_EXTENSION(n + f7 * 32, 12) = n + (f7 % 64) * 32 - (f7 \div 64) * 2048
  <2>1. 12 - 1 = 11
    BY SMT
  <2>2. PICK m \in Nat, s \in Nat :
          /\ m <= 63 /\ s <= 1 /\ f7 = 64 * s + m
          /\ f7 % 64 = m /\ f7 \div 64 = s
    BY <1>1, SMT
  <2>3. CASE s = 0
    <3>1. (n + f7 * 32) \div 2048 = 0
      BY <1>2, <2>2, <2>3, SMT
    <3> QED
      BY <1>2, <2>1, <2>2, <2>3, <3>1, Pow2Table, SMT DEF Manual!SIGN_EXTENSION
  <2>4. CASE s = 1
    <3>1. (n + f7 * 32) \div 2048 = 1 /\ (n + f7 * 32) % 4096 = n + f7 * 32
      BY <1>2, <2>2, <2>4, SMT
    <3> QED
      BY <1>2, <2>1, <2>2, <2>4, <3>1, Pow2Table, SMT DEF Manual!SIGN_EXTENSION
  <2> QED
    BY <2>2, <2>3, <2>4, SMT
<1>3. /\ Manual!I_IMM(i) = rs2 + f7 * 32
      /\ Manual!S_IMM(i) = rd + f7 * 32
      /\ Manual!IImm(i) = rs2 + (f7 % 64) * 32 - (f7 \div 64) * 2048
      /\ Manual!SImm(i) = rd + (f7 % 64) * 32 - (f7 \div 64) * 2048
  BY <1>1, SMT DEF Manual!I_IMM, Manual!S_IMM, Manual!IImm, Manual!SImm, Manual!Sign
<1> QED
  BY <1>1, <1>2, <1>3, SMT

LEMMA BranchesAreExtended ==
    ASSUME NEW i \in Manual!Instruction, Manual!Fits(Manual!BImm(i), 2048)
    PROVE  Manual!SIGN_EXTENSION(Manual!B_IMM(i), 12) = Manual!BImm(i)
<1>1. PICK rd \in Nat, f7 \in Nat :
        /\ rd <= 31 /\ f7 <= 127
        /\ i.rd = rd /\ i.f7 = f7
  BY FieldsAreNumbers, SMT
<1>2. 12 - 1 = 11
  BY SMT
<1>3. PICK q \in Nat, r \in Nat :
        /\ q <= 15 /\ r <= 1
        /\ rd \div 2 = q /\ rd % 2 = r
  BY <1>1, SMT
<1>4. PICK m \in Nat, s \in Nat :
        /\ m <= 63 /\ s <= 1
        /\ f7 % 64 = m /\ f7 \div 64 = s
  BY <1>1, SMT
<1>5. /\ Manual!B_IMM(i) = 2 * q + r * 2048 + s * 4096 + m * 32
      /\ Manual!BImm(i) = 2 * q + m * 32 + r * 2048 - s * 4096
  BY <1>1, <1>3, <1>4, SMT DEF Manual!B_IMM, Manual!BImm, Manual!Sign
<1>6. r = s
  BY <1>3, <1>4, <1>5, SMT DEF Manual!Fits
<1>7. r = 0 \/ r = 1
  BY <1>3, SMT
<1> QED
  BY <1>3, <1>4, <1>2, <1>5, <1>6, <1>7, Pow2Table, SMT DEF Manual!SIGN_EXTENSION

LEMMA JumpsAreExtended ==
    ASSUME NEW i \in Manual!Instruction, Manual!Fits(Manual!JImm(i), 524288)
    PROVE  Manual!SIGN_EXTENSION(Manual!J_IMM(i), 20) = Manual!JImm(i)
<1>1. PICK f3 \in Nat, rs1 \in Nat, rs2 \in Nat, f7 \in Nat :
        /\ f3 <= 7 /\ rs1 <= 31 /\ rs2 <= 31 /\ f7 <= 127
        /\ i.f3 = f3 /\ i.rs1 = rs1 /\ i.rs2 = rs2 /\ i.f7 = f7
  BY FieldsAreNumbers, SMT
<1>2. 20 - 1 = 19
  BY SMT
<1>3. PICK u \in Nat :
        /\ u <= 1048575
        /\ u = f7 * 8192 + rs2 * 256 + rs1 * 8 + f3
  BY <1>1, SMT
<1>4. Manual!Upper(i) = u /\ u \div 524288 = f7 \div 64
  BY <1>1, <1>3, SMT DEF Manual!Upper
<1>5. PICK a \in Nat, b \in Nat, c \in Nat, s \in Nat :
        /\ a <= 1023 /\ b <= 1 /\ c <= 255 /\ s <= 1
        /\ (u \div 512) % 1024 = a /\ (u \div 256) % 2 = b
        /\ u % 256 = c /\ f7 \div 64 = s
  BY <1>1, SMT
<1>6. /\ Manual!J_IMM(i) = s * 1048576 + a * 2 + b * 2048 + c * 4096
      /\ Manual!JImm(i) = a * 2 + b * 2048 + c * 4096 - s * 1048576
  BY <1>1, <1>4, <1>5, SMT DEF Manual!J_IMM, Manual!JImm, Manual!Sign, Manual!U_IMM
<1>7. s = 0 \/ s = 1
  BY <1>5, SMT
<1> QED
  BY <1>5, <1>2, <1>6, <1>7, Pow2Table, SMT DEF Manual!Fits, Manual!SIGN_EXTENSION

----------------------------------------------------------------------------
(* What the disassembler shows. *)

(* The name of an instruction, by opcode. *)
LEMMA NamesByOpcode ==
    ASSUME NEW i
    PROVE  /\ i.op = 3   => Manual!Name(i) = Manual!Nth(Manual!LoadNames, i.f3)
           /\ i.op = 35  => Manual!Name(i) = Manual!Nth(Manual!StoreNames, i.f3)
           /\ i.op = 99  => Manual!Name(i) = Manual!Nth(Manual!BranchNames, i.f3)
           /\ i.op = 19  => Manual!Name(i) = Manual!ImmName(i)
           /\ i.op = 51  => Manual!Name(i) = Manual!OpName(i)
           /\ i.op = 47  => Manual!Name(i) = IF i.f3 = 2 /\ i.f7 \in 4 .. 7
                                             THEN "amoswap" ELSE "illegal"
           /\ i.op = 115 => Manual!Name(i) = IF i.f3 = 0 THEN Manual!PrivilegedName(i)
                                             ELSE Manual!Nth(Manual!CsrNames, i.f3)
           /\ i.op = 55  => Manual!Name(i) = "lui"
           /\ i.op = 23  => Manual!Name(i) = "auipc"
           /\ i.op = 111 => Manual!Name(i) = "jal"
           /\ i.op = 103 => Manual!Name(i) = IF i.f3 = 0 THEN "jalr" ELSE "illegal"
           /\ i.op = 15  => Manual!Name(i) = IF i.f3 = 0 THEN "fence" ELSE "illegal"
           /\ i.op \notin {3, 35, 99, 19, 51, 47, 115, 55, 23, 111, 103, 15}
                => Manual!Name(i) = "illegal"
  BY SMT DEF Manual!Name, Manual!LOAD, Manual!FENCE, Manual!OP_IMM, Manual!AUIPC,
         Manual!STORE, Manual!AMO, Manual!OP, Manual!LUI, Manual!BRANCH, Manual!JALR,
         Manual!JAL, Manual!SYSTEM

(* The tables of the manual, and those of the disassembler. *)
LEMMA ManualTables ==
    /\ \A k \in Nat : Manual!Nth(Manual!LoadNames, k) =
         CASE k = 0 -> "lb" [] k = 1 -> "lh" [] k = 2 -> "lw"
           [] k = 4 -> "lbu" [] k = 5 -> "lhu" [] OTHER -> "illegal"
    /\ \A k \in Nat : Manual!Nth(Manual!StoreNames, k) =
         CASE k = 0 -> "sb" [] k = 1 -> "sh" [] k = 2 -> "sw" [] OTHER -> "illegal"
    /\ \A k \in Nat : Manual!Nth(Manual!BranchNames, k) =
         CASE k = 0 -> "beq" [] k = 1 -> "bne" [] k = 4 -> "blt" [] k = 5 -> "bge"
           [] k = 6 -> "bltu" [] k = 7 -> "bgeu" [] OTHER -> "illegal"
    /\ \A k \in Nat : Manual!Nth(Manual!CsrNames, k) =
         CASE k = 1 -> "csrrw" [] k = 2 -> "csrrs" [] k = 3 -> "csrrc" [] k = 5 -> "csrrwi"
           [] k = 6 -> "csrrsi" [] k = 7 -> "csrrci" [] OTHER -> "illegal"
    /\ \A k \in Nat : Manual!Nth(Manual!ImmNames, k) =
         CASE k = 0 -> "addi" [] k = 1 -> "slli" [] k = 2 -> "slti" [] k = 3 -> "sltiu"
           [] k = 4 -> "xori" [] k = 5 -> "srli" [] k = 6 -> "ori" [] k = 7 -> "andi"
           [] OTHER -> "illegal"
    /\ \A k \in Nat : Manual!Nth(Manual!OpNames, k) =
         CASE k = 0 -> "add" [] k = 1 -> "sll" [] k = 2 -> "slt" [] k = 3 -> "sltu"
           [] k = 4 -> "xor" [] k = 5 -> "srl" [] k = 6 -> "or" [] k = 7 -> "and"
           [] OTHER -> "illegal"
    /\ \A k \in Nat : Manual!Nth(Manual!MulNames, k) =
         CASE k = 0 -> "mul" [] k = 1 -> "mulh" [] k = 2 -> "mulhsu" [] k = 3 -> "mulhu"
           [] k = 4 -> "div" [] k = 5 -> "divu" [] k = 6 -> "rem" [] k = 7 -> "remu"
           [] OTHER -> "illegal"
  BY SMT DEF Manual!Nth, Manual!LoadNames, Manual!StoreNames, Manual!BranchNames,
             Manual!CsrNames, Manual!ImmNames, Manual!OpNames, Manual!MulNames

LEMMA ShownTables ==
    /\ \A k \in Nat : Manual!At(Manual!loadInstrName, k) =
         CASE k = 0 -> "lb" [] k = 1 -> "lh" [] k = 2 -> "lw" [] k = 3 -> "blank"
           [] k = 4 -> "lbu" [] k = 5 -> "lhu" [] OTHER -> "?"
    /\ \A k \in Nat : Manual!At(Manual!SInstrName, k) =
         CASE k = 0 -> "sb" [] k = 1 -> "sh" [] k = 2 -> "sw" [] OTHER -> "?"
    /\ \A k \in Nat : Manual!At(Manual!BInstrName, k) =
         CASE k = 0 -> "beq" [] k = 1 -> "bne" [] k = 4 -> "blt" [] k = 5 -> "bge"
           [] k = 6 -> "bltu" [] k = 7 -> "bgeu" [] k \in {2, 3} -> "blank" [] OTHER -> "?"
    /\ \A k \in Nat : Manual!At(Manual!CSRInstrName, k) =
         CASE k = 1 -> "csrrw" [] k = 2 -> "csrrs" [] k = 3 -> "csrrc" [] k = 5 -> "csrrwi"
           [] k = 6 -> "csrrsi" [] k = 7 -> "cssrci" [] k \in {0, 4} -> "blank" [] OTHER -> "?"
    /\ \A k \in Nat : Manual!At(Manual!IInstrName, k) =
         CASE k = 0 -> "addi" [] k = 1 -> "slli" [] k = 2 -> "slti" [] k = 3 -> "sltiu"
           [] k = 4 -> "xori" [] k = 5 -> "blank" [] k = 6 -> "ori" [] k = 7 -> "andi"
           [] k = 8 -> "slli" [] OTHER -> "?"
<1>1. \A k \in Nat : Manual!At(Manual!loadInstrName, k) =
         CASE k = 0 -> "lb" [] k = 1 -> "lh" [] k = 2 -> "lw" [] k = 3 -> "blank"
           [] k = 4 -> "lbu" [] k = 5 -> "lhu" [] OTHER -> "?"
  BY SMT DEF Manual!At, Manual!loadInstrName
<1>2. \A k \in Nat : Manual!At(Manual!SInstrName, k) =
         CASE k = 0 -> "sb" [] k = 1 -> "sh" [] k = 2 -> "sw" [] OTHER -> "?"
  BY SMT DEF Manual!At, Manual!SInstrName
<1>3. \A k \in Nat : Manual!At(Manual!BInstrName, k) =
         CASE k = 0 -> "beq" [] k = 1 -> "bne" [] k = 4 -> "blt" [] k = 5 -> "bge"
           [] k = 6 -> "bltu" [] k = 7 -> "bgeu" [] k \in {2, 3} -> "blank" [] OTHER -> "?"
  BY SMT DEF Manual!At, Manual!BInstrName
<1>4. \A k \in Nat : Manual!At(Manual!CSRInstrName, k) =
         CASE k = 1 -> "csrrw" [] k = 2 -> "csrrs" [] k = 3 -> "csrrc" [] k = 5 -> "csrrwi"
           [] k = 6 -> "csrrsi" [] k = 7 -> "cssrci" [] k \in {0, 4} -> "blank" [] OTHER -> "?"
  BY SMT DEF Manual!At, Manual!CSRInstrName
<1>5. \A k \in Nat : Manual!At(Manual!IInstrName, k) =
         CASE k = 0 -> "addi" [] k = 1 -> "slli" [] k = 2 -> "slti" [] k = 3 -> "sltiu"
           [] k = 4 -> "xori" [] k = 5 -> "blank" [] k = 6 -> "ori" [] k = 7 -> "andi"
           [] k = 8 -> "slli" [] OTHER -> "?"
  BY SMT DEF Manual!At, Manual!IInstrName
<1> QED
  BY <1>1, <1>2, <1>3, <1>4, <1>5, Zenon

LEMMA ShownRTable ==
    ASSUME NEW k \in Nat, k <= 7
    PROVE  /\ Manual!At(Manual!RInstrName[k + 1], 0) = Manual!Nth(Manual!OpNames, k)
           /\ Manual!At(Manual!RInstrName[k + 1], 1) = Manual!Nth(Manual!MulNames, k)
           /\ Manual!At(Manual!RInstrName[k + 1], 2) =
                CASE k = 0 -> "sub" [] k = 5 -> "sra" [] OTHER -> "?"
<1>1. k \in {0, 1, 2, 3, 4, 5, 6, 7}
  BY SMT
<1>2. /\ Manual!RInstrName[1] = <<"add", "mul", "sub">>
      /\ Manual!RInstrName[2] = <<"sll", "mulh">>
      /\ Manual!RInstrName[3] = <<"slt", "mulhsu">>
      /\ Manual!RInstrName[4] = <<"sltu", "mulhu">>
      /\ Manual!RInstrName[5] = <<"xor", "div">>
      /\ Manual!RInstrName[6] = <<"srl", "divu", "sra">>
      /\ Manual!RInstrName[7] = <<"or", "rem">>
      /\ Manual!RInstrName[8] = <<"and", "remu">>
  BY SMT DEF Manual!RInstrName
<1>3. \A a, b : /\ Manual!At(<<a, b>>, 0) = a /\ Manual!At(<<a, b>>, 1) = b
                /\ Manual!At(<<a, b>>, 2) = "?"
  BY SMT DEF Manual!At
<1>4. \A a, b, c : /\ Manual!At(<<a, b, c>>, 0) = a /\ Manual!At(<<a, b, c>>, 1) = b
                   /\ Manual!At(<<a, b, c>>, 2) = c
  BY SMT DEF Manual!At
<1>5. /\ k = 0 => Manual!Nth(Manual!OpNames, k) = "add" /\ Manual!Nth(Manual!MulNames, k) = "mul"
      /\ k = 1 => Manual!Nth(Manual!OpNames, k) = "sll" /\ Manual!Nth(Manual!MulNames, k) = "mulh"
      /\ k = 2 => Manual!Nth(Manual!OpNames, k) = "slt" /\ Manual!Nth(Manual!MulNames, k) = "mulhsu"
      /\ k = 3 => Manual!Nth(Manual!OpNames, k) = "sltu" /\ Manual!Nth(Manual!MulNames, k) = "mulhu"
      /\ k = 4 => Manual!Nth(Manual!OpNames, k) = "xor" /\ Manual!Nth(Manual!MulNames, k) = "div"
      /\ k = 5 => Manual!Nth(Manual!OpNames, k) = "srl" /\ Manual!Nth(Manual!MulNames, k) = "divu"
      /\ k = 6 => Manual!Nth(Manual!OpNames, k) = "or" /\ Manual!Nth(Manual!MulNames, k) = "rem"
      /\ k = 7 => Manual!Nth(Manual!OpNames, k) = "and" /\ Manual!Nth(Manual!MulNames, k) = "remu"
  BY ManualTables, SMTT(40)
<1>6. CASE k = 0
  <2>1. k + 1 = 1
    BY <1>6, SMT
  <2> QED
    BY <1>2, <1>4, <1>5, <1>6, <2>1, SMTT(40)
<1>7. CASE k = 1
  <2>1. k + 1 = 2
    BY <1>7, SMT
  <2> QED
    BY <1>2, <1>3, <1>5, <1>7, <2>1, SMTT(40)
<1>8. CASE k = 2
  <2>1. k + 1 = 3
    BY <1>8, SMT
  <2> QED
    BY <1>2, <1>3, <1>5, <1>8, <2>1, SMTT(40)
<1>9. CASE k = 3
  <2>1. k + 1 = 4
    BY <1>9, SMT
  <2> QED
    BY <1>2, <1>3, <1>5, <1>9, <2>1, SMTT(40)
<1>10. CASE k = 4
  <2>1. k + 1 = 5
    BY <1>10, SMT
  <2> QED
    BY <1>2, <1>3, <1>5, <1>10, <2>1, SMTT(40)
<1>11. CASE k = 5
  <2>1. k + 1 = 6
    BY <1>11, SMT
  <2> QED
    BY <1>2, <1>4, <1>5, <1>11, <2>1, SMTT(40)
<1>12. CASE k = 6
  <2>1. k + 1 = 7
    BY <1>12, SMT
  <2> QED
    BY <1>2, <1>3, <1>5, <1>12, <2>1, SMTT(40)
<1>13. CASE k = 7
  <2>1. k + 1 = 8
    BY <1>13, SMT
  <2> QED
    BY <1>2, <1>3, <1>5, <1>13, <2>1, SMTT(40)
<1> QED
  BY <1>1, <1>6, <1>7, <1>8, <1>9, <1>10, <1>11, <1>12, <1>13, SMT

(* What is not a short form is written as it is. *)
ShortForms == {"nop", "li", "mv", "j", "ret", "fence.tso", "pause"}

LEMMA LongFormsStay ==
    ASSUME NEW t, t[1] \notin ShortForms, t[1] # "jal"
    PROVE  Manual!Expanded(t) = t
  BY DEF ShortForms, Manual!Expanded

(* The text of an instruction, by opcode. *)
LEMMA TextsByOpcode ==
    ASSUME NEW i
    PROVE  /\ i.op = 3   => Manual!StrInstr(i) = Manual!StrLoadInstr(i)
           /\ i.op = 51  => Manual!StrInstr(i) = Manual!StrRInstr(i)
           /\ i.op = 19  => Manual!StrInstr(i) = Manual!StrNonLoadIInstr(i)
           /\ i.op = 115 => Manual!StrInstr(i) = IF i.f3 = 0
                                THEN <<IF Manual!I_IMM(i) = 0 THEN "ecall" ELSE "ebreak">>
                                ELSE Manual!StrCSRInstr(i)
           /\ i.op = 99  => Manual!StrInstr(i) = Manual!StrBInstr(i)
           /\ i.op = 35  => Manual!StrInstr(i) = Manual!StrSInstr(i)
           /\ i.op = 47  => Manual!StrInstr(i) = Manual!StrAInstr(i)
           /\ i.op \in {23, 55} => Manual!StrInstr(i) =
                  <<IF i.op = 55 THEN "lui" ELSE "auipc", Manual!X(i.rd),
                    Manual!Imm(Manual!U_IMM(i))>>
           /\ i.op = 111 => Manual!StrInstr(i) = Manual!StrJal(i)
           /\ i.op = 103 => Manual!StrInstr(i) = Manual!StrJalr(i)
           /\ i.op = 15  => Manual!StrInstr(i) = Manual!StrFence(i)
<1> USE DEF Manual!LOAD, Manual!FENCE, Manual!OP_IMM, Manual!AUIPC, Manual!STORE,
           Manual!AMO, Manual!OP, Manual!LUI, Manual!BRANCH, Manual!JALR, Manual!JAL,
           Manual!SYSTEM, Manual!LOAD_FP, Manual!STORE_FP, Manual!MADD, Manual!MSUB,
           Manual!NMSUB, Manual!NMADD, Manual!OP_FP
<1>1. ASSUME i.op = 3
      PROVE  Manual!StrInstr(i) = Manual!StrLoadInstr(i)
  BY <1>1, SMTT(40) DEF Manual!StrInstr
<1>2. ASSUME i.op = 51
      PROVE  Manual!StrInstr(i) = Manual!StrRInstr(i)
  BY <1>2, SMTT(40) DEF Manual!StrInstr
<1>3. ASSUME i.op = 19
      PROVE  Manual!StrInstr(i) = Manual!StrNonLoadIInstr(i)
  BY <1>3, SMTT(40) DEF Manual!StrInstr
<1>4. ASSUME i.op = 115
      PROVE  Manual!StrInstr(i) = IF i.f3 = 0
                 THEN <<IF Manual!I_IMM(i) = 0 THEN "ecall" ELSE "ebreak">>
                 ELSE Manual!StrCSRInstr(i)
  BY <1>4, SMTT(40) DEF Manual!StrInstr
<1>5. ASSUME i.op = 99
      PROVE  Manual!StrInstr(i) = Manual!StrBInstr(i)
  BY <1>5, SMTT(40) DEF Manual!StrInstr
<1>6. ASSUME i.op = 35
      PROVE  Manual!StrInstr(i) = Manual!StrSInstr(i)
  BY <1>6, SMTT(40) DEF Manual!StrInstr
<1>7. ASSUME i.op = 47
      PROVE  Manual!StrInstr(i) = Manual!StrAInstr(i)
  BY <1>7, SMTT(40) DEF Manual!StrInstr
<1>8. ASSUME i.op \in {23, 55}
      PROVE  Manual!StrInstr(i) =
                 <<IF i.op = 55 THEN "lui" ELSE "auipc", Manual!X(i.rd),
                   Manual!Imm(Manual!U_IMM(i))>>
  BY <1>8, SMTT(40) DEF Manual!StrInstr
<1>9. ASSUME i.op = 111
      PROVE  Manual!StrInstr(i) = Manual!StrJal(i)
  BY <1>9, SMTT(40) DEF Manual!StrInstr
<1>10. ASSUME i.op = 103
      PROVE  Manual!StrInstr(i) = Manual!StrJalr(i)
  BY <1>10, SMTT(40) DEF Manual!StrInstr
<1>11. ASSUME i.op = 15
      PROVE  Manual!StrInstr(i) = Manual!StrFence(i)
  BY <1>11, SMTT(40) DEF Manual!StrInstr
<1> QED
  BY <1>1, <1>2, <1>3, <1>4, <1>5, <1>6, <1>7, <1>8, <1>9, <1>10, <1>11, Zenon

(* ... and of one of floating point. *)
LEMMA FpTextsByOpcode ==
    ASSUME NEW i
    PROVE  /\ i.op = 83  => Manual!StrInstr(i) = Manual!StrFloatOpInstr(i)
           /\ i.op = 7   => Manual!StrInstr(i) =
                  <<IF i.f3 = 2 THEN "flw" ELSE "fld", Manual!F(i.rd),
                    Manual!Imm(Manual!SIGN_EXTENSION(Manual!I_IMM(i), Manual!I_IMM_SIZE)),
                    Manual!X(i.rs1)>>
           /\ i.op = 39  => Manual!StrInstr(i) =
                  <<IF i.f3 = 2 THEN "fsw" ELSE "fsd", Manual!F(i.rs2),
                    Manual!Imm(Manual!SIGN_EXTENSION(Manual!S_IMM(i), Manual!S_IMM_SIZE)),
                    Manual!X(i.rs1)>>
           /\ i.op = 67  => Manual!StrInstr(i) =
                  Manual!StrFloatArithmMInstr(i, "fmadd.s", "fmadd.d")
           /\ i.op = 71  => Manual!StrInstr(i) =
                  Manual!StrFloatArithmMInstr(i, "fmsub.s", "fmsub.d")
           /\ i.op = 75  => Manual!StrInstr(i) =
                  Manual!StrFloatArithmMInstr(i, "fnmsub.s", "fnmsub.d")
           /\ i.op = 79  => Manual!StrInstr(i) =
                  Manual!StrFloatArithmMInstr(i, "fnmadd.s", "fnmadd.d")
<1> USE DEF Manual!LOAD, Manual!FENCE, Manual!OP_IMM, Manual!AUIPC, Manual!STORE,
           Manual!AMO, Manual!OP, Manual!LUI, Manual!BRANCH, Manual!JALR, Manual!JAL,
           Manual!SYSTEM, Manual!LOAD_FP, Manual!STORE_FP, Manual!MADD, Manual!MSUB,
           Manual!NMSUB, Manual!NMADD, Manual!OP_FP
<1>1. ASSUME i.op = 83
      PROVE  Manual!StrInstr(i) = Manual!StrFloatOpInstr(i)
  BY <1>1, SMTT(40) DEF Manual!StrInstr
<1>2. ASSUME i.op = 7
      PROVE  Manual!StrInstr(i) =
                 <<IF i.f3 = 2 THEN "flw" ELSE "fld", Manual!F(i.rd),
                   Manual!Imm(Manual!SIGN_EXTENSION(Manual!I_IMM(i), Manual!I_IMM_SIZE)),
                   Manual!X(i.rs1)>>
  BY <1>2, SMTT(40) DEF Manual!StrInstr
<1>3. ASSUME i.op = 39
      PROVE  Manual!StrInstr(i) =
                 <<IF i.f3 = 2 THEN "fsw" ELSE "fsd", Manual!F(i.rs2),
                   Manual!Imm(Manual!SIGN_EXTENSION(Manual!S_IMM(i), Manual!S_IMM_SIZE)),
                   Manual!X(i.rs1)>>
  BY <1>3, SMTT(40) DEF Manual!StrInstr
<1>4. ASSUME i.op = 67
      PROVE  Manual!StrInstr(i) =
                 Manual!StrFloatArithmMInstr(i, "fmadd.s", "fmadd.d")
  BY <1>4, SMTT(40) DEF Manual!StrInstr
<1>5. ASSUME i.op = 71
      PROVE  Manual!StrInstr(i) =
                 Manual!StrFloatArithmMInstr(i, "fmsub.s", "fmsub.d")
  BY <1>5, SMTT(40) DEF Manual!StrInstr
<1>6. ASSUME i.op = 75
      PROVE  Manual!StrInstr(i) =
                 Manual!StrFloatArithmMInstr(i, "fnmsub.s", "fnmsub.d")
  BY <1>6, SMTT(40) DEF Manual!StrInstr
<1>7. ASSUME i.op = 79
      PROVE  Manual!StrInstr(i) =
                 Manual!StrFloatArithmMInstr(i, "fnmadd.s", "fnmadd.d")
  BY <1>7, SMTT(40) DEF Manual!StrInstr
<1> QED
  BY <1>1, <1>2, <1>3, <1>4, <1>5, <1>6, <1>7, Zenon

(* What the manual writes of it. *)
LEMMA AssembliesByOpcode ==
    ASSUME NEW i
    PROVE  /\ i.op = 51 => Manual!Assembly(i) =
                <<Manual!Name(i), Manual!X(i.rd), Manual!X(i.rs1), Manual!X(i.rs2)>>
           /\ i.op = 47 => Manual!Assembly(i) =
                <<Manual!Name(i), Manual!X(i.rd), Manual!X(i.rs2), Manual!X(i.rs1)>>
           /\ i.op = 19 => Manual!Assembly(i) =
                <<Manual!Name(i), Manual!X(i.rd), Manual!X(i.rs1),
                  Manual!Imm(IF Manual!Name(i) \in {"slli", "srli", "srai"} THEN i.rs2
                             ELSE Manual!IImm(i))>>
           /\ i.op \in {3, 103} => Manual!Assembly(i) =
                <<Manual!Name(i), Manual!X(i.rd), Manual!Imm(Manual!IImm(i)),
                  Manual!X(i.rs1)>>
           /\ i.op = 35 => Manual!Assembly(i) =
                <<Manual!Name(i), Manual!X(i.rs2), Manual!Imm(Manual!SImm(i)),
                  Manual!X(i.rs1)>>
           /\ i.op = 99 => Manual!Assembly(i) =
                <<Manual!Name(i), Manual!X(i.rs1), Manual!X(i.rs2),
                  Manual!Imm(Manual!BImm(i))>>
           /\ i.op = 111 => Manual!Assembly(i) =
                <<Manual!Name(i), Manual!X(i.rd), Manual!Imm(Manual!JImm(i))>>
           /\ i.op \in {23, 55} => Manual!Assembly(i) =
                <<Manual!Name(i), Manual!X(i.rd), Manual!Imm(Manual!Upper(i))>>
           /\ i.op = 115 /\ i.f3 # 0 => Manual!Assembly(i) =
                <<Manual!Name(i), Manual!X(i.rd), Manual!CSR(Manual!Field12(i)),
                  IF i.f3 < 4 THEN Manual!X(i.rs1) ELSE Manual!Imm(i.rs1)>>
           /\ i.op = 115 /\ i.f3 = 0 => Manual!Assembly(i) = <<Manual!Name(i)>>
           /\ i.op = 15 => Manual!Assembly(i) =
                <<Manual!Name(i), Manual!Imm((Manual!Field12(i) \div 16) % 16),
                  Manual!Imm(Manual!Field12(i) % 16)>>
<1> USE DEF Manual!LOAD, Manual!FENCE, Manual!OP_IMM, Manual!AUIPC, Manual!STORE,
           Manual!AMO, Manual!OP, Manual!LUI, Manual!BRANCH, Manual!JALR, Manual!JAL,
           Manual!SYSTEM
<1>1. ASSUME i.op = 51
      PROVE  Manual!Assembly(i) =
                 <<Manual!Name(i), Manual!X(i.rd), Manual!X(i.rs1), Manual!X(i.rs2)>>
  BY <1>1, SMTT(40) DEF Manual!Assembly
<1>2. ASSUME i.op = 47
      PROVE  Manual!Assembly(i) =
                 <<Manual!Name(i), Manual!X(i.rd), Manual!X(i.rs2), Manual!X(i.rs1)>>
  BY <1>2, SMTT(40) DEF Manual!Assembly
<1>3. ASSUME i.op = 19
      PROVE  Manual!Assembly(i) =
                 <<Manual!Name(i), Manual!X(i.rd), Manual!X(i.rs1),
                   Manual!Imm(IF Manual!Name(i) \in {"slli", "srli", "srai"} THEN i.rs2
                              ELSE Manual!IImm(i))>>
  BY <1>3, SMTT(40) DEF Manual!Assembly
<1>4. ASSUME i.op \in {3, 103}
      PROVE  Manual!Assembly(i) =
                 <<Manual!Name(i), Manual!X(i.rd), Manual!Imm(Manual!IImm(i)),
                   Manual!X(i.rs1)>>
  BY <1>4, SMTT(40) DEF Manual!Assembly
<1>5. ASSUME i.op = 35
      PROVE  Manual!Assembly(i) =
                 <<Manual!Name(i), Manual!X(i.rs2), Manual!Imm(Manual!SImm(i)),
                   Manual!X(i.rs1)>>
  BY <1>5, SMTT(40) DEF Manual!Assembly
<1>6. ASSUME i.op = 99
      PROVE  Manual!Assembly(i) =
                 <<Manual!Name(i), Manual!X(i.rs1), Manual!X(i.rs2),
                   Manual!Imm(Manual!BImm(i))>>
  BY <1>6, SMTT(40) DEF Manual!Assembly
<1>7. ASSUME i.op = 111
      PROVE  Manual!Assembly(i) =
                 <<Manual!Name(i), Manual!X(i.rd), Manual!Imm(Manual!JImm(i))>>
  BY <1>7, SMTT(40) DEF Manual!Assembly
<1>8. ASSUME i.op \in {23, 55}
      PROVE  Manual!Assembly(i) =
                 <<Manual!Name(i), Manual!X(i.rd), Manual!Imm(Manual!Upper(i))>>
  BY <1>8, SMTT(40) DEF Manual!Assembly
<1>9. ASSUME i.op = 115 /\ i.f3 # 0
      PROVE  Manual!Assembly(i) =
                 <<Manual!Name(i), Manual!X(i.rd), Manual!CSR(Manual!Field12(i)),
                   IF i.f3 < 4 THEN Manual!X(i.rs1) ELSE Manual!Imm(i.rs1)>>
  BY <1>9, SMTT(40) DEF Manual!Assembly
<1>10. ASSUME i.op = 115 /\ i.f3 = 0
      PROVE  Manual!Assembly(i) = <<Manual!Name(i)>>
  BY <1>10, SMTT(40) DEF Manual!Assembly
<1>11. ASSUME i.op = 15
      PROVE  Manual!Assembly(i) =
                 <<Manual!Name(i), Manual!Imm((Manual!Field12(i) \div 16) % 16),
                   Manual!Imm(Manual!Field12(i) % 16)>>
  BY <1>11, SMTT(40) DEF Manual!Assembly
<1> QED
  BY <1>1, <1>2, <1>3, <1>4, <1>5, <1>6, <1>7, <1>8, <1>9, <1>10, <1>11, Zenon

LEMMA LoadsAreShown ==
    ASSUME NEW i \in Manual!Instruction, i.op = 3, Manual!Name(i) # "illegal"
    PROVE  Manual!Expanded(Manual!StrInstr(i)) = Manual!Assembly(i)
<1>1. Manual!SIGN_EXTENSION(Manual!I_IMM(i), Manual!I_IMM_SIZE) = Manual!IImm(i)
  BY ImmediatesAreExtended DEF Manual!I_IMM_SIZE
<1>2. /\ Manual!At(Manual!loadInstrName, i.f3) = Manual!Name(i)
      /\ Manual!Name(i) \in {"lb", "lh", "lw", "lbu", "lhu"}
  BY FieldsAreNumbers, NamesByOpcode, ManualTables, ShownTables, SMT
<1>3. Manual!StrInstr(i) = <<Manual!Name(i), Manual!X(i.rd), Manual!Imm(Manual!IImm(i)),
                             Manual!X(i.rs1)>>
  BY <1>1, <1>2, TextsByOpcode DEF Manual!StrLoadInstr
<1>4. Manual!StrInstr(i)[1] = Manual!Name(i)
  BY <1>3
<1>5. Manual!Name(i) \notin ShortForms /\ Manual!Name(i) # "jal"
  BY <1>2, SMT DEF ShortForms
<1> QED
  BY <1>3, <1>4, <1>5, LongFormsStay, AssembliesByOpcode

LEMMA StoresAreShown ==
    ASSUME NEW i \in Manual!Instruction, i.op = 35, Manual!Name(i) # "illegal"
    PROVE  Manual!Expanded(Manual!StrInstr(i)) = Manual!Assembly(i)
<1>1. Manual!SIGN_EXTENSION(Manual!S_IMM(i), Manual!S_IMM_SIZE) = Manual!SImm(i)
  BY ImmediatesAreExtended DEF Manual!S_IMM_SIZE
<1>2. /\ Manual!At(Manual!SInstrName, i.f3) = Manual!Name(i) /\ ~(i.f3 > 2)
      /\ Manual!Name(i) \in {"sb", "sh", "sw"}
  BY FieldsAreNumbers, NamesByOpcode, ManualTables, ShownTables, SMT
<1>3. Manual!StrInstr(i) = <<Manual!Name(i), Manual!X(i.rs2), Manual!Imm(Manual!SImm(i)),
                             Manual!X(i.rs1)>>
  BY <1>1, <1>2, TextsByOpcode DEF Manual!StrSInstr
<1>4. Manual!StrInstr(i)[1] = Manual!Name(i)
  BY <1>3
<1>5. Manual!Name(i) \notin ShortForms /\ Manual!Name(i) # "jal"
  BY <1>2, SMT DEF ShortForms
<1> QED
  BY <1>3, <1>4, <1>5, LongFormsStay, AssembliesByOpcode

LEMMA BranchesAreShown ==
    ASSUME NEW i \in Manual!Instruction, i.op = 99, Manual!Name(i) # "illegal",
           Manual!Fits(Manual!BImm(i), 2048)
    PROVE  Manual!Expanded(Manual!StrInstr(i)) = Manual!Assembly(i)
<1>1. Manual!SIGN_EXTENSION(Manual!B_IMM(i), Manual!I_IMM_SIZE) = Manual!BImm(i)
  BY BranchesAreExtended DEF Manual!I_IMM_SIZE
<1>2. /\ Manual!At(Manual!BInstrName, i.f3) = Manual!Name(i)
      /\ Manual!Name(i) \in {"beq", "bne", "blt", "bge", "bltu", "bgeu"}
  BY FieldsAreNumbers, NamesByOpcode, ManualTables, ShownTables, SMT
<1>3. Manual!StrInstr(i) = <<Manual!Name(i), Manual!X(i.rs1), Manual!X(i.rs2),
                             Manual!Imm(Manual!BImm(i))>>
  BY <1>1, <1>2, TextsByOpcode DEF Manual!StrBInstr
<1>4. Manual!StrInstr(i)[1] = Manual!Name(i)
  BY <1>3
<1>5. Manual!Name(i) \notin ShortForms /\ Manual!Name(i) # "jal"
  BY <1>2, SMT DEF ShortForms
<1> QED
  BY <1>3, <1>4, <1>5, LongFormsStay, AssembliesByOpcode

LEMMA RegistersAreShown ==
    ASSUME NEW i \in Manual!Instruction, i.op = 51, Manual!Name(i) # "illegal"
    PROVE  Manual!Expanded(Manual!StrInstr(i)) = Manual!Assembly(i)
<1>1. PICK f3 \in Nat, f7 \in Nat : f3 <= 7 /\ i.f3 = f3 /\ i.f7 = f7
  BY FieldsAreNumbers
<1>2. /\ f7 = 0 => Manual!Name(i) = Manual!Nth(Manual!OpNames, f3)
      /\ f7 = 1 => Manual!Name(i) = Manual!Nth(Manual!MulNames, f3)
      /\ f7 = 32 => Manual!Name(i) = CASE f3 = 0 -> "sub" [] f3 = 5 -> "sra"
                                       [] OTHER -> "illegal"
      /\ f7 \in {0, 1, 32}
  BY <1>1, NamesByOpcode, SMT DEF Manual!OpName
<1> DEFINE column == IF f7 = 32 THEN 2 ELSE f7
<1>3. /\ column <= 2
      /\ Manual!At(Manual!RInstrName[f3 + 1], column) = Manual!Name(i)
  BY <1>1, <1>2, ShownRTable, SMT
<1>4. Manual!StrInstr(i) = <<Manual!Name(i), Manual!X(i.rd), Manual!X(i.rs1),
                             Manual!X(i.rs2)>>
  BY <1>1, <1>3, TextsByOpcode, SMT DEF Manual!StrRInstr
<1>5. Manual!StrInstr(i)[1] = Manual!Name(i)
  BY <1>4
<1>6. Manual!Name(i) \notin ShortForms /\ Manual!Name(i) # "jal"
  BY <1>1, <1>2, ManualTables, SMT DEF ShortForms
<1> QED
  BY <1>4, <1>5, <1>6, LongFormsStay, AssembliesByOpcode

LEMMA SwapsAreShown ==
    ASSUME NEW i \in Manual!Instruction, i.op = 47, Manual!Name(i) # "illegal"
    PROVE  Manual!Expanded(Manual!StrInstr(i)) = Manual!Assembly(i)
<1>1. i.f7 \in 4 .. 7 /\ Manual!Name(i) = "amoswap"
  BY NamesByOpcode, SMT
<1>2. Manual!StrInstr(i) = <<"amoswap", Manual!X(i.rd), Manual!X(i.rs2), Manual!X(i.rs1)>>
  BY <1>1, TextsByOpcode, SMT DEF Manual!StrAInstr
<1>3. Manual!StrInstr(i)[1] = "amoswap"
  BY <1>2
<1>4. "amoswap" \notin ShortForms /\ "amoswap" # "jal"
  BY SMT DEF ShortForms
<1> QED
  BY <1>1, <1>2, <1>3, <1>4, LongFormsStay, AssembliesByOpcode

LEMMA UppersAreShown ==
    ASSUME NEW i \in Manual!Instruction, i.op \in {23, 55}
    PROVE  Manual!Expanded(Manual!StrInstr(i)) = Manual!Assembly(i)
<1>1. Manual!Name(i) = IF i.op = 55 THEN "lui" ELSE "auipc"
  BY NamesByOpcode, SMT
<1>2. Manual!StrInstr(i) = <<Manual!Name(i), Manual!X(i.rd), Manual!Imm(Manual!Upper(i))>>
  BY <1>1, TextsByOpcode DEF Manual!U_IMM
<1>3. Manual!StrInstr(i)[1] = Manual!Name(i)
  BY <1>2
<1>4. Manual!Name(i) \notin ShortForms /\ Manual!Name(i) # "jal"
  BY <1>1, SMT DEF ShortForms
<1> QED
  BY <1>2, <1>3, <1>4, LongFormsStay, AssembliesByOpcode

LEMMA CsrsAreShown ==
    ASSUME NEW i \in Manual!Instruction, i.op = 115, i.f3 # 0,
           Manual!Name(i) \notin {"illegal", "csrrci"}
    PROVE  Manual!Expanded(Manual!StrInstr(i)) = Manual!Assembly(i)
<1>1. /\ Manual!At(Manual!CSRInstrName, i.f3) = Manual!Name(i)
      /\ Manual!Name(i) \in {"csrrw", "csrrs", "csrrc", "csrrwi", "csrrsi"}
  BY FieldsAreNumbers, NamesByOpcode, ManualTables, ShownTables, SMT
<1>2. Manual!I_IMM(i) = Manual!Field12(i)
  BY DEF Manual!I_IMM, Manual!Field12
<1>3. Manual!StrInstr(i) = <<Manual!Name(i), Manual!X(i.rd), Manual!CSR(Manual!Field12(i)),
                   IF i.f3 < 4 THEN Manual!X(i.rs1) ELSE Manual!Imm(i.rs1)>>
  BY <1>1, <1>2, TextsByOpcode DEF Manual!StrCSRInstr
<1>4. Manual!StrInstr(i)[1] = Manual!Name(i)
  BY <1>3
<1>5. Manual!Name(i) \notin ShortForms /\ Manual!Name(i) # "jal"
  BY <1>1, SMT DEF ShortForms
<1> QED
  BY <1>3, <1>4, <1>5, LongFormsStay, AssembliesByOpcode

LEMMA PrivilegedAreShown ==
    ASSUME NEW i \in Manual!Instruction, i.op = 115, i.f3 = 0,
           Manual!Name(i) \notin {"illegal", "mret", "wfi"}
    PROVE  Manual!Expanded(Manual!StrInstr(i)) = Manual!Assembly(i)
<1>1. PICK rs2 \in Nat, f7 \in Nat : i.rs2 = rs2 /\ i.f7 = f7
  BY FieldsAreNumbers
<1>2. \/ f7 = 0 /\ rs2 = 0 /\ Manual!Name(i) = "ecall"
      \/ f7 = 0 /\ rs2 = 1 /\ Manual!Name(i) = "ebreak"
  BY <1>1, NamesByOpcode, SMT DEF Manual!PrivilegedName
<1>3. Manual!StrInstr(i) = <<Manual!Name(i)>>
  BY <1>1, <1>2, TextsByOpcode, SMT DEF Manual!I_IMM
<1>4. Manual!StrInstr(i)[1] = Manual!Name(i)
  BY <1>3
<1>5. Manual!Name(i) \notin ShortForms /\ Manual!Name(i) # "jal"
  BY <1>2, SMT DEF ShortForms
<1> QED
  BY <1>3, <1>4, <1>5, LongFormsStay, AssembliesByOpcode

(* addi with its short forms, ... *)
LEMMA AddiIsShown ==
    ASSUME NEW i \in Manual!Instruction, i.op = 19, i.f3 = 0
    PROVE  Manual!Expanded(Manual!StrInstr(i)) = Manual!Assembly(i)
<1> DEFINE imm == Manual!IImm(i)
<1>1. Manual!SIGN_EXTENSION(Manual!I_IMM(i), Manual!I_IMM_SIZE) = imm
  BY ImmediatesAreExtended DEF Manual!I_IMM_SIZE
<1>2. Manual!Name(i) = "addi"
  BY NamesByOpcode, ManualTables, SMT DEF Manual!ImmName
<1>3. Manual!Assembly(i) = <<"addi", Manual!X(i.rd), Manual!X(i.rs1), Manual!Imm(imm)>>
  BY <1>2, AssembliesByOpcode, SMT
<1>4. Manual!StrInstr(i) = Manual!StrNonLoadIInstr(i)
  BY TextsByOpcode
<1> HIDE DEF imm
<1>5. CASE i.rd = 0 /\ i.rs1 = 0 /\ imm = 0
  <2>1. Manual!StrNonLoadIInstr(i) = <<"nop">>
    BY <1>1, <1>5 DEF Manual!StrNonLoadIInstr
  <2>2. Manual!Expanded(<<"nop">>)
          = <<"addi", Manual!X(0), Manual!X(0), Manual!Imm(0)>>
    BY SMT DEF Manual!Expanded
  <2> QED
    BY <1>3, <1>4, <1>5, <2>1, <2>2
<1>6. CASE i.rs1 = 0 /\ ~(i.rd = 0 /\ imm = 0)
  <2>1. Manual!StrNonLoadIInstr(i) = <<"li", Manual!X(i.rd), Manual!Imm(imm)>>
    BY <1>1, <1>6 DEF Manual!StrNonLoadIInstr
  <2>2. \A a, b : Manual!Expanded(<<"li", a, b>>) = <<"addi", a, Manual!X(0), b>>
    BY SMT DEF Manual!Expanded
  <2> QED
    BY <1>3, <1>4, <1>6, <2>1, <2>2
<1>7. CASE i.rs1 # 0 /\ imm = 0
  <2>1. Manual!StrNonLoadIInstr(i) = <<"mv", Manual!X(i.rd), Manual!X(i.rs1)>>
    BY <1>1, <1>7 DEF Manual!StrNonLoadIInstr
  <2>2. \A a, b : Manual!Expanded(<<"mv", a, b>>) = <<"addi", a, b, Manual!Imm(0)>>
    BY SMT DEF Manual!Expanded
  <2> QED
    BY <1>3, <1>4, <1>7, <2>1, <2>2
<1>8. CASE i.rs1 # 0 /\ imm # 0
  <2>1. Manual!At(Manual!IInstrName, i.f3) = "addi"
    BY ShownTables, SMT
  <2>2. Manual!StrNonLoadIInstr(i)
          = <<"addi", Manual!X(i.rd), Manual!X(i.rs1), Manual!Imm(imm)>>
    BY <1>1, <1>8, <2>1 DEF Manual!StrNonLoadIInstr
  <2>3. <<"addi", Manual!X(i.rd), Manual!X(i.rs1), Manual!Imm(imm)>>[1] = "addi"
    OBVIOUS
  <2>4. "addi" \notin ShortForms /\ "addi" # "jal"
    BY SMT DEF ShortForms
  <2> QED
    BY <1>3, <1>4, <2>2, <2>3, <2>4, LongFormsStay
<1> QED
  BY <1>5, <1>6, <1>7, <1>8

(* ... the shifts, whose count has a field of its own, and the others. *)
LEMMA ImmediatesAreShown ==
    ASSUME NEW i \in Manual!Instruction, i.op = 19, i.f3 # 0,
           Manual!Name(i) # "illegal"
    PROVE  Manual!Expanded(Manual!StrInstr(i)) = Manual!Assembly(i)
<1>1. Manual!SIGN_EXTENSION(Manual!I_IMM(i), Manual!I_IMM_SIZE) = Manual!IImm(i)
  BY ImmediatesAreExtended DEF Manual!I_IMM_SIZE
<1> DEFINE last == Manual!Imm(IF i.f3 \in {1, 5} THEN i.rs2 ELSE Manual!IImm(i))
<1>2. PICK f3 \in Nat, f7 \in Nat : f3 <= 7 /\ i.f3 = f3 /\ i.f7 = f7
  BY FieldsAreNumbers
<1>3. /\ f3 = 1 => Manual!Name(i) = "slli"
      /\ f3 = 5 => /\ f7 = 0  => Manual!Name(i) = "srli"
                   /\ f7 = 32 => Manual!Name(i) = "srai"
                   /\ f7 \in {0, 32}
      /\ f3 \notin {1, 5} => /\ Manual!Name(i) = Manual!At(Manual!IInstrName, f3)
                             /\ Manual!Name(i) \in {"slti", "sltiu", "xori", "ori", "andi"}
  BY <1>2, NamesByOpcode, ManualTables, ShownTables, SMT DEF Manual!ImmName
<1>4. Manual!Assembly(i) = <<Manual!Name(i), Manual!X(i.rd), Manual!X(i.rs1), last>>
  <2>1. Manual!Name(i) \in {"slli", "srli", "srai"} <=> i.f3 \in {1, 5}
    BY <1>2, <1>3, SMT
  <2> QED
    BY <2>1, AssembliesByOpcode
<1>5. Manual!StrInstr(i) = <<Manual!Name(i), Manual!X(i.rd), Manual!X(i.rs1), last>>
  <2>1. Manual!StrInstr(i) = Manual!StrNonLoadIInstr(i)
    BY TextsByOpcode
  <2>2. CASE f3 = 1
    BY <1>2, <1>3, <2>1, <2>2, SMT DEF Manual!StrNonLoadIInstr
  <2>3. CASE f3 = 5
    BY <1>2, <1>3, <2>1, <2>3, SMT DEF Manual!StrNonLoadIInstr
  <2>4. CASE f3 \notin {1, 5}
    BY <1>1, <1>2, <1>3, <2>1, <2>4, SMT DEF Manual!StrNonLoadIInstr
  <2> QED
    BY <2>2, <2>3, <2>4
<1> HIDE DEF last
<1>6. Manual!StrInstr(i)[1] = Manual!Name(i)
  BY <1>5
<1>7. Manual!Name(i) \notin ShortForms /\ Manual!Name(i) # "jal"
  BY <1>2, <1>3, SMT DEF ShortForms
<1> QED
  BY <1>4, <1>5, <1>6, <1>7, LongFormsStay

LEMMA JumpsAreShown ==
    ASSUME NEW i \in Manual!Instruction, i.op = 111,
           Manual!Fits(Manual!JImm(i), 524288)
    PROVE  Manual!Expanded(Manual!StrInstr(i)) = Manual!Assembly(i)
<1> DEFINE offs == Manual!Imm(Manual!JImm(i))
<1>1. Manual!Assembly(i) = <<"jal", Manual!X(i.rd), offs>>
  BY NamesByOpcode, AssembliesByOpcode
<1>2. Manual!SIGN_EXTENSION(Manual!J_IMM(i), Manual!J_IMM_SIZE) = Manual!JImm(i)
  BY JumpsAreExtended DEF Manual!J_IMM_SIZE
<1>3. Manual!StrInstr(i) = CASE i.rd = 0 -> <<"j", offs>>
                             [] i.rd = 1 -> <<"jal", offs>>
                             [] OTHER    -> <<"jal", Manual!X(i.rd), offs>>
  BY <1>2, TextsByOpcode DEF Manual!StrJal
<1> HIDE DEF offs
<1>4. CASE i.rd = 0
  <2>1. Manual!Expanded(<<"j", offs>>) = <<"jal", Manual!X(0), offs>>
    BY SMT DEF Manual!Expanded
  <2> QED
    BY <1>1, <1>3, <1>4, <2>1
<1>5. CASE i.rd = 1
  <2>1. Manual!Expanded(<<"jal", offs>>) = <<"jal", Manual!X(1), offs>>
    BY SMT DEF Manual!Expanded
  <2> QED
    BY <1>1, <1>3, <1>5, <2>1
<1>6. CASE i.rd \notin {0, 1}
  <2>1. \A r : Manual!Expanded(<<"jal", r, offs>>) = <<"jal", r, offs>>
    BY SMT DEF Manual!Expanded
  <2> QED
    BY <1>1, <1>3, <1>6, <2>1
<1> QED
  BY <1>4, <1>5, <1>6

LEMMA RegisterJumpsAreShown ==
    ASSUME NEW i \in Manual!Instruction, i.op = 103, Manual!Name(i) # "illegal"
    PROVE  Manual!Expanded(Manual!StrInstr(i)) = Manual!Assembly(i)
<1> DEFINE imm == Manual!Imm(Manual!IImm(i))
<1>1. i.f3 = 0 /\ Manual!Name(i) = "jalr"
  BY NamesByOpcode
<1>2. Manual!Assembly(i) = <<"jalr", Manual!X(i.rd), imm, Manual!X(i.rs1)>>
  BY <1>1, AssembliesByOpcode
<1>3. Manual!SIGN_EXTENSION(Manual!I_IMM(i), Manual!I_IMM_SIZE) = Manual!IImm(i)
  BY ImmediatesAreExtended DEF Manual!I_IMM_SIZE
<1>4. Manual!I_IMM(i) = 0 => Manual!IImm(i) = 0
  <2>1. PICK rs2 \in Nat, f7 \in Nat : i.rs2 = rs2 /\ i.f7 = f7
    BY FieldsAreNumbers
  <2> QED
    BY <2>1, SMT DEF Manual!I_IMM, Manual!IImm, Manual!Sign
<1>5. CASE i.rd = 0 /\ i.rs1 = 1 /\ Manual!I_IMM(i) = 0
  <2>1. Manual!StrInstr(i) = <<"ret">>
    BY <1>1, <1>5, TextsByOpcode DEF Manual!StrJalr
  <2>2. Manual!Expanded(<<"ret">>)
          = <<"jalr", Manual!X(0), Manual!Imm(0), Manual!X(1)>>
    BY SMT DEF Manual!Expanded
  <2> QED
    BY <1>2, <1>4, <1>5, <2>1, <2>2
<1>6. CASE ~(i.rd = 0 /\ i.rs1 = 1 /\ Manual!I_IMM(i) = 0)
  <2>1. Manual!StrInstr(i) = <<"jalr", Manual!X(i.rd), imm, Manual!X(i.rs1)>>
    BY <1>3, <1>6, TextsByOpcode DEF Manual!StrJalr
  <2>2. Manual!StrInstr(i)[1] = "jalr"
    BY <2>1
  <2>3. "jalr" \notin ShortForms /\ "jalr" # "jal"
    BY SMT DEF ShortForms
  <2> QED
    BY <1>2, <2>1, <2>2, <2>3, LongFormsStay
<1> QED
  BY <1>5, <1>6

LEMMA FencesAreShown ==
    ASSUME NEW i \in Manual!Instruction, i.op = 15, Manual!Name(i) # "illegal"
    PROVE  Manual!Expanded(Manual!StrInstr(i)) = Manual!Assembly(i)
<1> DEFINE field == Manual!Field12(i)
           plain == i.rd = 0 /\ i.rs1 = 0
<1>1. i.f3 = 0 /\ Manual!Name(i) = "fence"
  BY NamesByOpcode
<1>2. Manual!Assembly(i)
        = <<"fence", Manual!Imm((field \div 16) % 16), Manual!Imm(field % 16)>>
  BY <1>1, AssembliesByOpcode
<1>3. Manual!I_IMM(i) = field
  BY DEF Manual!I_IMM, Manual!Field12
<1>4. Manual!StrInstr(i) =
        CASE plain /\ field = 2099 -> <<"fence.tso">>
          [] plain /\ field = 16   -> <<"pause">>
          [] OTHER -> <<"fence", Manual!Imm((field \div 16) % 16), Manual!Imm(field % 16)>>
  BY <1>1, <1>3, TextsByOpcode, SMT DEF Manual!StrFence
<1> HIDE DEF field, plain
<1>5. CASE plain /\ field = 2099
  <2>1. (field \div 16) % 16 = 3 /\ field % 16 = 3
    BY <1>5, SMT
  <2>2. Manual!Expanded(<<"fence.tso">>) = <<"fence", Manual!Imm(3), Manual!Imm(3)>>
    BY SMT DEF Manual!Expanded
  <2>3. Manual!StrInstr(i) = <<"fence.tso">>
    BY <1>4, <1>5, SMT
  <2> QED
    BY <1>2, <2>1, <2>2, <2>3, SMT
<1>6. CASE plain /\ field = 16
  <2>1. (field \div 16) % 16 = 1 /\ field % 16 = 0
    BY <1>6, SMT
  <2>2. Manual!Expanded(<<"pause">>) = <<"fence", Manual!Imm(1), Manual!Imm(0)>>
    BY SMT DEF Manual!Expanded
  <2>3. Manual!StrInstr(i) = <<"pause">>
    BY <1>4, <1>6, SMT
  <2> QED
    BY <1>2, <2>1, <2>2, <2>3, SMT
<1>7. CASE ~(plain /\ field = 2099) /\ ~(plain /\ field = 16)
  <2>1. Manual!StrInstr(i)
          = <<"fence", Manual!Imm((field \div 16) % 16), Manual!Imm(field % 16)>>
    BY <1>4, <1>7, SMT
  <2>2. Manual!StrInstr(i)[1] = "fence"
    BY <2>1
  <2>3. "fence" \notin ShortForms /\ "fence" # "jal"
    BY SMT DEF ShortForms
  <2> QED
    BY <1>2, <2>1, <2>2, <2>3, LongFormsStay
<1> QED
  BY <1>5, <1>6, <1>7

(* Floating point: the name is one of two forms, by the format. *)
LEMMA FpNamesByOpcode ==
    ASSUME NEW i
    PROVE  /\ i.op = 7   => Manual!FpName(i) = Manual!Nth(Manual!LoadFpNames, i.f3)
           /\ i.op = 39  => Manual!FpName(i) = Manual!Nth(Manual!StoreFpNames, i.f3)
           /\ i.op \notin {7, 39}
                => Manual!FpName(i) = Manual!Nth(Manual!FpForms(i), i.f7 % 4)
           /\ i.op = 67 => Manual!FpForms(i) = <<"fmadd.s", "fmadd.d">>
           /\ i.op = 71 => Manual!FpForms(i) = <<"fmsub.s", "fmsub.d">>
           /\ i.op = 75 => Manual!FpForms(i) = <<"fnmsub.s", "fnmsub.d">>
           /\ i.op = 79 => Manual!FpForms(i) = <<"fnmadd.s", "fnmadd.d">>
           /\ i.op = 83 => Manual!FpForms(i) = Manual!OpFpForms(i)
           /\ i.op \notin {67, 71, 75, 79, 83} => Manual!FpForms(i) = Manual!NoForms
  BY SMTT(40) DEF Manual!FpName, Manual!FpForms, Manual!LOAD_FP, Manual!STORE_FP,
         Manual!MADD, Manual!MSUB, Manual!NMSUB, Manual!NMADD, Manual!OP_FP

LEMMA FpTables ==
    /\ \A k \in Nat : Manual!Nth(Manual!LoadFpNames, k) =
         CASE k = 2 -> "flw" [] k = 3 -> "fld" [] OTHER -> "illegal"
    /\ \A k \in Nat : Manual!Nth(Manual!StoreFpNames, k) =
         CASE k = 2 -> "fsw" [] k = 3 -> "fsd" [] OTHER -> "illegal"
    /\ \A a, b : \A k \in Nat : Manual!Nth(<<a, b>>, k) =
         CASE k = 0 -> a [] k = 1 -> b [] OTHER -> "illegal"
  BY SMT DEF Manual!Nth, Manual!LoadFpNames, Manual!StoreFpNames

(* Instructions of integers have no such name. *)
LEMMA OthersHaveNoFpName ==
    ASSUME NEW i \in Manual!Instruction, i.op \notin {7, 39, 67, 71, 75, 79, 83}
    PROVE  Manual!FpName(i) = "illegal"
<1>1. PICK f7 \in Nat : i.f7 = f7
  BY FieldsAreNumbers
<1>2. f7 % 4 \in Nat
  BY SMT
<1>3. Manual!FpForms(i) = <<"illegal", "illegal">>
  BY FpNamesByOpcode, SMT DEF Manual!NoForms
<1>4. Manual!FpName(i) = Manual!Nth(<<"illegal", "illegal">>, f7 % 4)
  BY <1>1, <1>3, FpNamesByOpcode, SMT
<1> QED
  BY <1>2, <1>4, FpTables, SMT

LEMMA FpAssembliesByOpcode ==
    ASSUME NEW i
    PROVE  /\ i.op = 7  => Manual!FpAssembly(i) =
                <<Manual!FpName(i), Manual!F(i.rd), Manual!Imm(Manual!IImm(i)),
                  Manual!X(i.rs1)>>
           /\ i.op = 39 => Manual!FpAssembly(i) =
                <<Manual!FpName(i), Manual!F(i.rs2), Manual!Imm(Manual!SImm(i)),
                  Manual!X(i.rs1)>>
           /\ i.op \in {67, 71, 75, 79} => Manual!FpAssembly(i) =
                <<Manual!FpName(i), Manual!F(i.rd), Manual!F(i.rs1), Manual!F(i.rs2),
                  Manual!F(i.f7 \div 4), Manual!Round(i.f3)>>
           /\ i.op = 83 => Manual!FpAssembly(i) = Manual!OpFpAssembly(i)
  BY SMTT(40) DEF Manual!FpAssembly, Manual!LOAD_FP, Manual!STORE_FP,
         Manual!MADD, Manual!MSUB, Manual!NMSUB, Manual!NMADD, Manual!OP_FP

LEMMA FpLoadsAreShown ==
    ASSUME NEW i \in Manual!Instruction, i.op = 7, Manual!FpName(i) # "illegal"
    PROVE  Manual!Expanded(Manual!StrInstr(i)) = Manual!FpAssembly(i)
<1>1. Manual!SIGN_EXTENSION(Manual!I_IMM(i), Manual!I_IMM_SIZE) = Manual!IImm(i)
  BY ImmediatesAreExtended DEF Manual!I_IMM_SIZE
<1>2. Manual!FpName(i) = (IF i.f3 = 2 THEN "flw" ELSE "fld")
  BY FieldsAreNumbers, FpNamesByOpcode, FpTables, SMT
<1>3. Manual!StrInstr(i) = <<Manual!FpName(i), Manual!F(i.rd), Manual!Imm(Manual!IImm(i)),
                             Manual!X(i.rs1)>>
  BY <1>1, <1>2, FpTextsByOpcode
<1>4. Manual!StrInstr(i)[1] = Manual!FpName(i)
  BY <1>3
<1>5. Manual!FpName(i) \notin ShortForms /\ Manual!FpName(i) # "jal"
  BY <1>2, SMT DEF ShortForms
<1> QED
  BY <1>3, <1>4, <1>5, LongFormsStay, FpAssembliesByOpcode

LEMMA FpStoresAreShown ==
    ASSUME NEW i \in Manual!Instruction, i.op = 39, Manual!FpName(i) # "illegal"
    PROVE  Manual!Expanded(Manual!StrInstr(i)) = Manual!FpAssembly(i)
<1>1. Manual!SIGN_EXTENSION(Manual!S_IMM(i), Manual!S_IMM_SIZE) = Manual!SImm(i)
  BY ImmediatesAreExtended DEF Manual!S_IMM_SIZE
<1>2. Manual!FpName(i) = (IF i.f3 = 2 THEN "fsw" ELSE "fsd")
  BY FieldsAreNumbers, FpNamesByOpcode, FpTables, SMT
<1>3. Manual!StrInstr(i) = <<Manual!FpName(i), Manual!F(i.rs2), Manual!Imm(Manual!SImm(i)),
                             Manual!X(i.rs1)>>
  BY <1>1, <1>2, FpTextsByOpcode
<1>4. Manual!StrInstr(i)[1] = Manual!FpName(i)
  BY <1>3
<1>5. Manual!FpName(i) \notin ShortForms /\ Manual!FpName(i) # "jal"
  BY <1>2, SMT DEF ShortForms
<1> QED
  BY <1>3, <1>4, <1>5, LongFormsStay, FpAssembliesByOpcode

(* The format is in the two lowest bits of FUNC7. *)
LEMMA FormatsAreShown ==
    ASSUME NEW i \in Manual!Instruction, i.op \notin {7, 39},
           NEW a, NEW b, Manual!FpForms(i) = <<a, b>>,
           Manual!FpName(i) # "illegal"
    PROVE  /\ i.f7 % 4 = 0 \/ i.f7 % 4 = 1
           /\ Manual!FpName(i) = Manual!Sd(i, a, b)
<1>1. PICK f7 \in Nat : i.f7 = f7
  BY FieldsAreNumbers
<1>2. f7 % 4 \in Nat
  BY SMT
<1>3. Manual!FpName(i) = Manual!Nth(<<a, b>>, f7 % 4)
  BY <1>1, FpNamesByOpcode, SMT
<1> QED
  BY <1>1, <1>2, <1>3, FpTables, SMT DEF Manual!Sd

LEMMA FusedAreShown ==
    ASSUME NEW i \in Manual!Instruction, i.op \in {67, 71, 75, 79},
           Manual!FpName(i) # "illegal"
    PROVE  Manual!Expanded(Manual!StrInstr(i)) = Manual!FpAssembly(i)
<1> DEFINE a == CASE i.op = 67 -> "fmadd.s"  [] i.op = 71 -> "fmsub.s"
                  [] i.op = 75 -> "fnmsub.s" [] i.op = 79 -> "fnmadd.s"
           b == CASE i.op = 67 -> "fmadd.d"  [] i.op = 71 -> "fmsub.d"
                  [] i.op = 75 -> "fnmsub.d" [] i.op = 79 -> "fnmadd.d"
<1>1. Manual!FpForms(i) = <<a, b>>
  BY FpNamesByOpcode, SMT
<1>2. Manual!StrInstr(i) = Manual!StrFloatArithmMInstr(i, a, b)
  BY FpTextsByOpcode, SMT
<1>3. {a, b} \cap (ShortForms \cup {"jal"}) = {}
  BY SMT DEF ShortForms
<1> HIDE DEF a, b
<1>4. Manual!FpName(i) = Manual!Sd(i, a, b)
  BY <1>1, FormatsAreShown
<1>5. Manual!FpName(i) \in {a, b}
  BY <1>4 DEF Manual!Sd
<1>6. Manual!StrInstr(i) = <<Manual!FpName(i), Manual!F(i.rd), Manual!F(i.rs1),
                             Manual!F(i.rs2), Manual!F(i.f7 \div 4), Manual!Round(i.f3)>>
  BY <1>2, <1>4 DEF Manual!StrFloatArithmMInstr
<1>7. Manual!StrInstr(i)[1] = Manual!FpName(i)
  BY <1>6
<1> QED
  BY <1>3, <1>5, <1>6, <1>7, LongFormsStay, FpAssembliesByOpcode

(* The other instructions of floating point, by the bits of FUNC7 above the
   format. *)
LEMMA OpFpFormsByGroup ==
    ASSUME NEW i \in Manual!Instruction, NEW g \in Nat, i.f7 \div 4 = g,
           NEW f3 \in Nat, i.f3 = f3, NEW rs2 \in Nat, i.rs2 = rs2
    PROVE  /\ g \in {0, 1, 2, 3}
                => Manual!OpFpForms(i) = Manual!FormsOf(Manual!ArithForms, g)
           /\ g = 4  => Manual!OpFpForms(i) = Manual!FormsOf(Manual!SignForms, f3)
           /\ g = 5  => Manual!OpFpForms(i) = Manual!FormsOf(Manual!MinMaxForms, f3)
           /\ g = 11 => Manual!OpFpForms(i) = IF rs2 = 0 THEN <<"fsqrt.s", "fsqrt.d">>
                                              ELSE <<"illegal", "illegal">>
           /\ g = 20 => Manual!OpFpForms(i) = Manual!FormsOf(Manual!CompareForms, f3)
           /\ g = 24 => Manual!OpFpForms(i) = Manual!FormsOf(Manual!ToIntForms, rs2)
           /\ g = 26 => Manual!OpFpForms(i) = Manual!FormsOf(Manual!ToFloatForms, rs2)
           /\ g = 28 => Manual!OpFpForms(i) = Manual!FormsOf(Manual!MoveForms, f3)
           /\ g = 30 => Manual!OpFpForms(i) = IF f3 = 0 THEN <<"fmv.w.x", "illegal">>
                                              ELSE <<"illegal", "illegal">>
           /\ g \notin {0, 1, 2, 3, 4, 5, 8, 11, 20, 24, 26, 28, 30}
                => Manual!OpFpForms(i) = <<"illegal", "illegal">>
<1>1. g \in 0 .. 3 <=> g \in {0, 1, 2, 3}
  BY SMT
<1>2. /\ g \in {0, 1, 2, 3}
           => Manual!OpFpForms(i) = Manual!FormsOf(Manual!ArithForms, g)
      /\ g = 4  => Manual!OpFpForms(i) = Manual!FormsOf(Manual!SignForms, f3)
      /\ g = 5  => Manual!OpFpForms(i) = Manual!FormsOf(Manual!MinMaxForms, f3)
      /\ g = 11 => Manual!OpFpForms(i) = IF rs2 = 0 THEN <<"fsqrt.s", "fsqrt.d">>
                                         ELSE <<"illegal", "illegal">>
  BY <1>1, SMTT(40) DEF Manual!OpFpForms, Manual!NoForms
<1>3. /\ g = 20 => Manual!OpFpForms(i) = Manual!FormsOf(Manual!CompareForms, f3)
      /\ g = 24 => Manual!OpFpForms(i) = Manual!FormsOf(Manual!ToIntForms, rs2)
      /\ g = 26 => Manual!OpFpForms(i) = Manual!FormsOf(Manual!ToFloatForms, rs2)
      /\ g = 28 => Manual!OpFpForms(i) = Manual!FormsOf(Manual!MoveForms, f3)
  BY <1>1, SMTT(40) DEF Manual!OpFpForms, Manual!NoForms
<1>4. /\ g = 30 => Manual!OpFpForms(i) = IF f3 = 0 THEN <<"fmv.w.x", "illegal">>
                                         ELSE <<"illegal", "illegal">>
      /\ g \notin {0, 1, 2, 3, 4, 5, 8, 11, 20, 24, 26, 28, 30}
           => Manual!OpFpForms(i) = <<"illegal", "illegal">>
  BY <1>1, SMTT(40) DEF Manual!OpFpForms, Manual!NoForms
<1> QED
  BY <1>2, <1>3, <1>4, Zenon

LEMMA FormsTables ==
    /\ Manual!FormsOf(Manual!ArithForms, 0) = <<"fadd.s", "fadd.d">>
    /\ Manual!FormsOf(Manual!ArithForms, 1) = <<"fsub.s", "fsub.d">>
    /\ Manual!FormsOf(Manual!ArithForms, 2) = <<"fmul.s", "fmul.d">>
    /\ Manual!FormsOf(Manual!ArithForms, 3) = <<"fdiv.s", "fdiv.d">>
    /\ \A k \in Nat : Manual!FormsOf(Manual!SignForms, k) =
         CASE k = 0 -> <<"fsgnj.s", "fsgnj.d">> [] k = 1 -> <<"fsgnjn.s", "fsgnjn.d">>
           [] k = 2 -> <<"fsgnjx.s", "fsgnjx.d">> [] OTHER -> <<"illegal", "illegal">>
    /\ \A k \in Nat : Manual!FormsOf(Manual!MinMaxForms, k) =
         CASE k = 0 -> <<"fmin.s", "fmin.d">> [] k = 1 -> <<"fmax.s", "fmax.d">>
           [] OTHER -> <<"illegal", "illegal">>
    /\ \A k \in Nat : Manual!FormsOf(Manual!CompareForms, k) =
         CASE k = 0 -> <<"fle.s", "fle.d">> [] k = 1 -> <<"flt.s", "flt.d">>
           [] k = 2 -> <<"feq.s", "feq.d">> [] OTHER -> <<"illegal", "illegal">>
    /\ \A k \in Nat : Manual!FormsOf(Manual!ToIntForms, k) =
         CASE k = 0 -> <<"fcvt.w.s", "fcvt.w.d">> [] k = 1 -> <<"fcvt.wu.s", "fcvt.wu.d">>
           [] OTHER -> <<"illegal", "illegal">>
    /\ \A k \in Nat : Manual!FormsOf(Manual!ToFloatForms, k) =
         CASE k = 0 -> <<"fcvt.s.w", "fcvt.d.w">> [] k = 1 -> <<"fcvt.s.wu", "fcvt.d.wu">>
           [] OTHER -> <<"illegal", "illegal">>
    /\ \A k \in Nat : Manual!FormsOf(Manual!MoveForms, k) =
         CASE k = 0 -> <<"fmv.x.w", "illegal">> [] k = 1 -> <<"fclass.s", "fclass.d">>
           [] OTHER -> <<"illegal", "illegal">>
<1>1. /\ Manual!FormsOf(Manual!ArithForms, 0) = <<"fadd.s", "fadd.d">>
      /\ Manual!FormsOf(Manual!ArithForms, 1) = <<"fsub.s", "fsub.d">>
      /\ Manual!FormsOf(Manual!ArithForms, 2) = <<"fmul.s", "fmul.d">>
      /\ Manual!FormsOf(Manual!ArithForms, 3) = <<"fdiv.s", "fdiv.d">>
  BY SMT DEF Manual!FormsOf, Manual!ArithForms
<1>2. \A k \in Nat : Manual!FormsOf(Manual!SignForms, k) =
         CASE k = 0 -> <<"fsgnj.s", "fsgnj.d">> [] k = 1 -> <<"fsgnjn.s", "fsgnjn.d">>
           [] k = 2 -> <<"fsgnjx.s", "fsgnjx.d">> [] OTHER -> <<"illegal", "illegal">>
  BY SMT DEF Manual!FormsOf, Manual!SignForms, Manual!NoForms
<1>3. \A k \in Nat : Manual!FormsOf(Manual!MinMaxForms, k) =
         CASE k = 0 -> <<"fmin.s", "fmin.d">> [] k = 1 -> <<"fmax.s", "fmax.d">>
           [] OTHER -> <<"illegal", "illegal">>
  BY SMT DEF Manual!FormsOf, Manual!MinMaxForms, Manual!NoForms
<1>4. \A k \in Nat : Manual!FormsOf(Manual!ToIntForms, k) =
         CASE k = 0 -> <<"fcvt.w.s", "fcvt.w.d">> [] k = 1 -> <<"fcvt.wu.s", "fcvt.wu.d">>
           [] OTHER -> <<"illegal", "illegal">>
  BY SMT DEF Manual!FormsOf, Manual!ToIntForms, Manual!NoForms
<1>5. \A k \in Nat : Manual!FormsOf(Manual!ToFloatForms, k) =
         CASE k = 0 -> <<"fcvt.s.w", "fcvt.d.w">> [] k = 1 -> <<"fcvt.s.wu", "fcvt.d.wu">>
           [] OTHER -> <<"illegal", "illegal">>
  BY SMT DEF Manual!FormsOf, Manual!ToFloatForms, Manual!NoForms
<1>6. \A k \in Nat : Manual!FormsOf(Manual!MoveForms, k) =
         CASE k = 0 -> <<"fmv.x.w", "illegal">> [] k = 1 -> <<"fclass.s", "fclass.d">>
           [] OTHER -> <<"illegal", "illegal">>
  BY SMT DEF Manual!FormsOf, Manual!MoveForms, Manual!NoForms
<1>7. \A k \in Nat : Manual!FormsOf(Manual!CompareForms, k) =
         CASE k = 0 -> <<"fle.s", "fle.d">> [] k = 1 -> <<"flt.s", "flt.d">>
           [] k = 2 -> <<"feq.s", "feq.d">> [] OTHER -> <<"illegal", "illegal">>
  BY SMT DEF Manual!FormsOf, Manual!CompareForms, Manual!NoForms
<1> QED
  BY <1>1, <1>2, <1>3, <1>4, <1>5, <1>6, <1>7, Zenon

LEMMA OpFpTexts ==
    ASSUME NEW i, NEW f7 \in Nat, i.f7 = f7
    PROVE  /\ f7 \in {0, 1, 4, 5, 8, 9, 12, 13}
                => Manual!StrFloatOpInstr(i) = Manual!StrFloatArithm(i)
           /\ f7 \in {16, 17} => Manual!StrFloatOpInstr(i) = Manual!StrFloatSign(i)
           /\ f7 \in {20, 21} => Manual!StrFloatOpInstr(i) = Manual!StrFloatMinMax(i)
           /\ f7 \in {44, 45} => Manual!StrFloatOpInstr(i) =
                  <<Manual!Sd(i, "fsqrt.s", "fsqrt.d"), Manual!F(i.rd), Manual!F(i.rs1),
                    Manual!Round(i.f3)>>
           /\ f7 \in {80, 81} => Manual!StrFloatOpInstr(i) = Manual!StrFloatCompare(i)
           /\ f7 \in {96, 97} => Manual!StrFloatOpInstr(i) = Manual!StrFloatToInt(i)
           /\ f7 \in {104, 105} => Manual!StrFloatOpInstr(i) = Manual!StrIntToFloat(i)
           /\ f7 \in {112, 113} => Manual!StrFloatOpInstr(i) = Manual!StrFloatMove(i)
           /\ f7 = 120 => Manual!StrFloatOpInstr(i) =
                  <<"fmv.w.x", Manual!F(i.rd), Manual!X(i.rs1)>>
  BY SMTT(40) DEF Manual!StrFloatOpInstr, Manual!Arithmetic

LEMMA OpFpAssemblies ==
    ASSUME NEW i, NEW f7 \in Nat, i.f7 = f7, NEW g \in Nat, f7 \div 4 = g
    PROVE  /\ g \in {0, 1, 2, 3} => Manual!OpFpAssembly(i) =
                  <<Manual!FpName(i), Manual!F(i.rd), Manual!F(i.rs1), Manual!F(i.rs2),
                    Manual!Round(i.f3)>>
           /\ g \in {4, 5} => Manual!OpFpAssembly(i) =
                  <<Manual!FpName(i), Manual!F(i.rd), Manual!F(i.rs1), Manual!F(i.rs2)>>
           /\ g = 11 => Manual!OpFpAssembly(i) =
                  <<Manual!FpName(i), Manual!F(i.rd), Manual!F(i.rs1), Manual!Round(i.f3)>>
           /\ g = 20 => Manual!OpFpAssembly(i) =
                  <<Manual!FpName(i), Manual!X(i.rd), Manual!F(i.rs1), Manual!F(i.rs2)>>
           /\ g = 24 => Manual!OpFpAssembly(i) =
                  <<Manual!FpName(i), Manual!X(i.rd), Manual!F(i.rs1), Manual!Round(i.f3)>>
           /\ g = 26 => Manual!OpFpAssembly(i) =
                  IF f7 = 104
                  THEN <<Manual!FpName(i), Manual!F(i.rd), Manual!X(i.rs1), Manual!Round(i.f3)>>
                  ELSE <<Manual!FpName(i), Manual!F(i.rd), Manual!X(i.rs1)>>
           /\ g = 28 => Manual!OpFpAssembly(i) =
                  <<Manual!FpName(i), Manual!X(i.rd), Manual!F(i.rs1)>>
           /\ g = 30 => Manual!OpFpAssembly(i) =
                  <<Manual!FpName(i), Manual!F(i.rd), Manual!X(i.rs1)>>
<1>1. g \in 0 .. 3 <=> g \in {0, 1, 2, 3}
  BY SMT
<1> QED
  BY <1>1, SMTT(40) DEF Manual!OpFpAssembly

LEMMA OpFpsAreShown ==
    ASSUME NEW i \in Manual!Instruction, i.op = 83, i.f7 \notin {32, 33},
           Manual!FpName(i) # "illegal"
    PROVE  Manual!Expanded(Manual!StrInstr(i)) = Manual!FpAssembly(i)
<1>1. PICK f3 \in Nat, rs2 \in Nat, f7 \in Nat :
        f7 <= 127 /\ i.f3 = f3 /\ i.rs2 = rs2 /\ i.f7 = f7
  BY FieldsAreNumbers
<1>2. PICK g \in Nat : f7 \div 4 = g
  BY <1>1, SMT
<1>3. PICK r \in Nat : f7 % 4 = r
  BY SMT
<1>4. f7 = 4 * g + r
  BY <1>2, <1>3, SMT
<1> DEFINE name == Manual!FpName(i)
           text == Manual!StrFloatOpInstr(i)
<1>5. Manual!StrInstr(i) = text /\ Manual!FpAssembly(i) = Manual!OpFpAssembly(i)
  BY FpTextsByOpcode, FpAssembliesByOpcode
<1>6. ASSUME NEW a, NEW b, Manual!OpFpForms(i) = <<a, b>>
      PROVE  (r = 0 \/ r = 1) /\ name = IF r = 0 THEN a ELSE b
  <2>1. Manual!FpForms(i) = <<a, b>>
    BY <1>6, FpNamesByOpcode, SMT
  <2>2. i.f7 % 4 = r
    BY <1>1, <1>3
  <2>3. (i.f7 % 4 = 0 \/ i.f7 % 4 = 1) /\ name = Manual!Sd(i, a, b)
    BY <2>1, FormatsAreShown, SMT
  <2> QED
    BY <2>2, <2>3 DEF Manual!Sd
<1> HIDE DEF text
<1>7. ASSUME text = Manual!OpFpAssembly(i), text[1] = name,
             name \notin ShortForms, name # "jal"
      PROVE  Manual!Expanded(Manual!StrInstr(i)) = Manual!FpAssembly(i)
  BY <1>5, <1>7, LongFormsStay
<1> HIDE DEF name
<1>8. CASE g \in {0, 1, 2, 3}
  <2> DEFINE a == CASE g = 0 -> "fadd.s" [] g = 1 -> "fsub.s"
                    [] g = 2 -> "fmul.s" [] g = 3 -> "fdiv.s"
             b == CASE g = 0 -> "fadd.d" [] g = 1 -> "fsub.d"
                    [] g = 2 -> "fmul.d" [] g = 3 -> "fdiv.d"
  <2>1. Manual!OpFpForms(i) = <<a, b>>
    BY <1>1, <1>2, <1>8, OpFpFormsByGroup, FormsTables, SMT
  <2>2. (r = 0 \/ r = 1) /\ name = IF r = 0 THEN a ELSE b
    <3> HIDE DEF a, b
    <3> QED
      BY <1>6, <2>1
  <2>3. f7 \in {0, 1, 4, 5, 8, 9, 12, 13}
    BY <1>4, <1>8, <2>2, SMT
  <2>4. text = <<name, Manual!F(i.rd), Manual!F(i.rs1), Manual!F(i.rs2), Manual!Round(i.f3)>>
    <3>1. f7 % 4 = 0 <=> r = 0
      BY <1>3
    <3>2. text = Manual!StrFloatArithm(i)
      BY <1>1, <2>3, OpFpTexts, SMT DEF text
    <3>3. Manual!StrFloatArithm(i)[1] = name
      <4>1. ASSUME NEW x, NEW y
            PROVE  Manual!Sd(i, x, y) = IF r = 0 THEN x ELSE y
        BY <1>1, <3>1 DEF Manual!Sd
      <4>2. CASE g = 0
        BY <1>1, <1>4, <2>2, <4>1, <4>2, SMT DEF Manual!StrFloatArithm
      <4>3. CASE g = 1
        BY <1>1, <1>4, <2>2, <4>1, <4>3, SMT DEF Manual!StrFloatArithm
      <4>4. CASE g = 2
        BY <1>1, <1>4, <2>2, <4>1, <4>4, SMT DEF Manual!StrFloatArithm
      <4>5. CASE g = 3
        BY <1>1, <1>4, <2>2, <4>1, <4>5, SMT DEF Manual!StrFloatArithm
      <4> QED
        BY <1>8, <4>2, <4>3, <4>4, <4>5
    <3>4. PICK c : Manual!StrFloatArithm(i) =
                     <<c, Manual!F(i.rd), Manual!F(i.rs1), Manual!F(i.rs2), Manual!Round(i.f3)>>
      BY Zenon DEF Manual!StrFloatArithm
    <3>5. Manual!StrFloatArithm(i)[1] = c
      BY <3>4
    <3> QED
      BY <3>2, <3>3, <3>4, <3>5
  <2>5. text[1] = name
    BY <2>4
  <2>6. text = Manual!OpFpAssembly(i)
    BY <1>1, <1>2, <1>8, <2>4, OpFpAssemblies, SMT DEF name
  <2>7. name \notin ShortForms /\ name # "jal"
    BY <1>8, <2>2, SMT DEF ShortForms
  <2> QED
    BY <1>7, <2>5, <2>6, <2>7
<1>9. CASE g = 4
  <2> DEFINE a == CASE f3 = 0 -> "fsgnj.s" [] f3 = 1 -> "fsgnjn.s"
                    [] f3 = 2 -> "fsgnjx.s" [] OTHER -> "illegal"
             b == CASE f3 = 0 -> "fsgnj.d" [] f3 = 1 -> "fsgnjn.d"
                    [] f3 = 2 -> "fsgnjx.d" [] OTHER -> "illegal"
  <2>1. Manual!OpFpForms(i) = <<a, b>>
    BY <1>1, <1>2, <1>9, OpFpFormsByGroup, FormsTables, SMT
  <2>2. (r = 0 \/ r = 1) /\ name = IF r = 0 THEN a ELSE b
    <3> HIDE DEF a, b
    <3> QED
      BY <1>6, <2>1
  <2>3. f7 \in {16, 17} /\ f3 \in {0, 1, 2}
    BY <1>4, <1>9, <2>2, SMT DEF name
  <2>4. text = <<name, Manual!F(i.rd), Manual!F(i.rs1), Manual!F(i.rs2)>>
    <3>1. f7 % 4 = 0 <=> r = 0
      BY <1>3
    <3>2. text = Manual!StrFloatSign(i)
      BY <1>1, <2>3, OpFpTexts, SMT DEF text
    <3>3. \A k \in Nat : k <= 5 => Manual!At(Manual!fsgnjsInstrNames, k) =
             CASE k = 0 -> "fsgnj.s" [] k = 1 -> "fsgnjn.s" [] k = 2 -> "fsgnjx.s"
               [] k = 3 -> "fsgnj.d" [] k = 4 -> "fsgnjn.d" [] k = 5 -> "fsgnjx.d"
      BY SMT DEF Manual!At, Manual!fsgnjsInstrNames
    <3>4. name = Manual!At(Manual!fsgnjsInstrNames, f3 + IF r = 0 THEN 0 ELSE 3)
      BY <2>2, <2>3, <3>3, SMTT(40)
    <3>5. Manual!Sd(i, 0, 3) = IF r = 0 THEN 0 ELSE 3
      BY <1>1, <3>1 DEF Manual!Sd
    <3> QED
      BY <1>1, <2>3, <3>2, <3>4, <3>5, SMT DEF Manual!StrFloatSign
  <2>5. text[1] = name
    BY <2>4
  <2>6. text = Manual!OpFpAssembly(i)
    BY <1>1, <1>2, <1>9, <2>4, OpFpAssemblies, SMT DEF name
  <2>7. name \notin ShortForms /\ name # "jal"
    BY <2>2, <2>3, SMT DEF ShortForms
  <2> QED
    BY <1>7, <2>5, <2>6, <2>7
<1>10. CASE g = 5
  <2> DEFINE a == CASE f3 = 0 -> "fmin.s" [] f3 = 1 -> "fmax.s" [] OTHER -> "illegal"
             b == CASE f3 = 0 -> "fmin.d" [] f3 = 1 -> "fmax.d" [] OTHER -> "illegal"
  <2>1. Manual!OpFpForms(i) = <<a, b>>
    BY <1>1, <1>2, <1>10, OpFpFormsByGroup, FormsTables, SMT
  <2>2. (r = 0 \/ r = 1) /\ name = IF r = 0 THEN a ELSE b
    <3> HIDE DEF a, b
    <3> QED
      BY <1>6, <2>1
  <2>3. f7 \in {20, 21} /\ f3 \in {0, 1}
    BY <1>4, <1>10, <2>2, SMT DEF name
  <2>4. text = <<name, Manual!F(i.rd), Manual!F(i.rs1), Manual!F(i.rs2)>>
    <3>1. f7 % 4 = 0 <=> r = 0
      BY <1>3
    <3>2. text = Manual!StrFloatMinMax(i)
      BY <1>1, <2>3, OpFpTexts, SMT DEF text
    <3>3. ASSUME NEW x, NEW y
          PROVE  Manual!Sd(i, x, y) = IF r = 0 THEN x ELSE y
      BY <1>1, <3>1 DEF Manual!Sd
    <3>4. CASE f3 = 0
      BY <1>1, <2>2, <3>2, <3>3, <3>4, SMT DEF Manual!StrFloatMinMax
    <3>5. CASE f3 = 1
      BY <1>1, <2>2, <3>2, <3>3, <3>5, SMT DEF Manual!StrFloatMinMax
    <3> QED
      BY <2>3, <3>4, <3>5
  <2>5. text[1] = name
    BY <2>4
  <2>6. text = Manual!OpFpAssembly(i)
    BY <1>1, <1>2, <1>10, <2>4, OpFpAssemblies, SMT DEF name
  <2>7. name \notin ShortForms /\ name # "jal"
    BY <2>2, <2>3, SMT DEF ShortForms
  <2> QED
    BY <1>7, <2>5, <2>6, <2>7
<1>11. CASE g = 11
  <2> DEFINE a == IF rs2 = 0 THEN "fsqrt.s" ELSE "illegal"
             b == IF rs2 = 0 THEN "fsqrt.d" ELSE "illegal"
  <2>1. Manual!OpFpForms(i) = <<a, b>>
    BY <1>1, <1>2, <1>11, OpFpFormsByGroup, SMT
  <2>2. (r = 0 \/ r = 1) /\ name = IF r = 0 THEN a ELSE b
    <3> HIDE DEF a, b
    <3> QED
      BY <1>6, <2>1
  <2>3. f7 \in {44, 45} /\ rs2 = 0
    BY <1>4, <1>11, <2>2, SMT DEF name
  <2>4. text = <<name, Manual!F(i.rd), Manual!F(i.rs1), Manual!Round(i.f3)>>
    <3>1. f7 % 4 = 0 <=> r = 0
      BY <1>3
    <3>2. text = <<Manual!Sd(i, "fsqrt.s", "fsqrt.d"), Manual!F(i.rd), Manual!F(i.rs1),
                   Manual!Round(i.f3)>>
      BY <1>1, <2>3, OpFpTexts, SMT DEF text
    <3> QED
      BY <1>1, <2>2, <2>3, <3>1, <3>2, SMT DEF Manual!Sd
  <2>5. text[1] = name
    BY <2>4
  <2>6. text = Manual!OpFpAssembly(i)
    BY <1>1, <1>2, <1>11, <2>4, OpFpAssemblies, SMT DEF name
  <2>7. name \notin ShortForms /\ name # "jal"
    BY <2>2, <2>3, SMT DEF ShortForms
  <2> QED
    BY <1>7, <2>5, <2>6, <2>7
<1>12. CASE g = 24
  <2> DEFINE a == CASE rs2 = 0 -> "fcvt.w.s" [] rs2 = 1 -> "fcvt.wu.s" [] OTHER -> "illegal"
             b == CASE rs2 = 0 -> "fcvt.w.d" [] rs2 = 1 -> "fcvt.wu.d" [] OTHER -> "illegal"
  <2>1. Manual!OpFpForms(i) = <<a, b>>
    BY <1>1, <1>2, <1>12, OpFpFormsByGroup, FormsTables, SMT
  <2>2. (r = 0 \/ r = 1) /\ name = IF r = 0 THEN a ELSE b
    <3> HIDE DEF a, b
    <3> QED
      BY <1>6, <2>1
  <2>3. f7 \in {96, 97} /\ rs2 \in {0, 1}
    BY <1>4, <1>12, <2>2, SMT DEF name
  <2>4. text = <<name, Manual!X(i.rd), Manual!F(i.rs1), Manual!Round(i.f3)>>
    <3>1. f7 % 4 = 0 <=> r = 0
      BY <1>3
    <3>2. text = Manual!StrFloatToInt(i)
      BY <1>1, <2>3, OpFpTexts, SMT DEF text
    <3> QED
      BY <1>1, <2>2, <2>3, <3>1, <3>2, SMT DEF Manual!StrFloatToInt, Manual!Sd
  <2>5. text[1] = name
    BY <2>4
  <2>6. text = Manual!OpFpAssembly(i)
    BY <1>1, <1>2, <1>12, <2>4, OpFpAssemblies, SMT DEF name
  <2>7. name \notin ShortForms /\ name # "jal"
    BY <2>2, <2>3, SMT DEF ShortForms
  <2> QED
    BY <1>7, <2>5, <2>6, <2>7
<1>13. CASE g = 26
  <2> DEFINE a == CASE rs2 = 0 -> "fcvt.s.w" [] rs2 = 1 -> "fcvt.s.wu" [] OTHER -> "illegal"
             b == CASE rs2 = 0 -> "fcvt.d.w" [] rs2 = 1 -> "fcvt.d.wu" [] OTHER -> "illegal"
  <2>1. Manual!OpFpForms(i) = <<a, b>>
    BY <1>1, <1>2, <1>13, OpFpFormsByGroup, FormsTables, SMT
  <2>2. (r = 0 \/ r = 1) /\ name = IF r = 0 THEN a ELSE b
    <3> HIDE DEF a, b
    <3> QED
      BY <1>6, <2>1
  <2>3. ((f7 = 104 /\ r = 0) \/ (f7 = 105 /\ r = 1)) /\ rs2 \in {0, 1}
    BY <1>4, <1>13, <2>2, SMT DEF name
  <2>4. text = IF f7 = 104
               THEN <<name, Manual!F(i.rd), Manual!X(i.rs1), Manual!Round(i.f3)>>
               ELSE <<name, Manual!F(i.rd), Manual!X(i.rs1)>>
    <3>1. text = Manual!StrIntToFloat(i)
      BY <1>1, <2>3, OpFpTexts, SMT DEF text
    <3> QED
      BY <1>1, <2>2, <2>3, <3>1, SMT DEF Manual!StrIntToFloat
  <2>5. text[1] = name
    BY <2>4
  <2>6. text = Manual!OpFpAssembly(i)
    BY <1>1, <1>2, <1>13, <2>4, OpFpAssemblies, SMT DEF name
  <2>7. name \notin ShortForms /\ name # "jal"
    BY <2>2, <2>3, SMT DEF ShortForms
  <2> QED
    BY <1>7, <2>5, <2>6, <2>7
<1>14. CASE g = 28
  <2> DEFINE a == CASE f3 = 0 -> "fmv.x.w" [] f3 = 1 -> "fclass.s" [] OTHER -> "illegal"
             b == IF f3 = 1 THEN "fclass.d" ELSE "illegal"
  <2>1. Manual!OpFpForms(i) = <<a, b>>
    BY <1>1, <1>2, <1>14, OpFpFormsByGroup, FormsTables, SMT
  <2>2. (r = 0 \/ r = 1) /\ name = IF r = 0 THEN a ELSE b
    <3> HIDE DEF a, b
    <3> QED
      BY <1>6, <2>1
  <2>3. (f7 = 112 /\ r = 0 /\ f3 \in {0, 1}) \/ (f7 = 113 /\ r = 1 /\ f3 = 1)
    BY <1>4, <1>14, <2>2, SMT DEF name
  <2>4. text = <<name, Manual!X(i.rd), Manual!F(i.rs1)>>
    <3>1. text = Manual!StrFloatMove(i)
      BY <1>1, <2>3, OpFpTexts, SMT DEF text
    <3>2. CASE f7 = 113
      BY <1>1, <2>2, <2>3, <3>1, <3>2, SMT DEF Manual!StrFloatMove
    <3>3. CASE f7 = 112 /\ f3 = 0
      BY <1>1, <2>2, <2>3, <3>1, <3>3, SMT DEF Manual!StrFloatMove
    <3>4. CASE f7 = 112 /\ f3 = 1
      BY <1>1, <2>2, <2>3, <3>1, <3>4, SMT DEF Manual!StrFloatMove
    <3> QED
      BY <2>3, <3>2, <3>3, <3>4
  <2>5. text[1] = name
    BY <2>4
  <2>6. text = Manual!OpFpAssembly(i)
    BY <1>1, <1>2, <1>14, <2>4, OpFpAssemblies, SMT DEF name
  <2>7. name \notin ShortForms /\ name # "jal"
    BY <2>2, <2>3, SMT DEF ShortForms
  <2> QED
    BY <1>7, <2>5, <2>6, <2>7
<1>15. CASE g = 30
  <2> DEFINE a == IF f3 = 0 THEN "fmv.w.x" ELSE "illegal"
  <2>1. Manual!OpFpForms(i) = <<a, "illegal">>
    BY <1>1, <1>2, <1>15, OpFpFormsByGroup, SMT
  <2>2. (r = 0 \/ r = 1) /\ name = IF r = 0 THEN a ELSE "illegal"
    <3> HIDE DEF a
    <3> QED
      BY <1>6, <2>1
  <2>3. f7 = 120 /\ name = "fmv.w.x"
    BY <1>4, <1>15, <2>2, SMT DEF name
  <2>4. text = <<name, Manual!F(i.rd), Manual!X(i.rs1)>>
    BY <1>1, <2>3, OpFpTexts, SMT DEF text
  <2>5. text[1] = name
    BY <2>4
  <2>6. text = Manual!OpFpAssembly(i)
    BY <1>1, <1>2, <1>15, <2>4, OpFpAssemblies, SMT DEF name
  <2>7. name \notin ShortForms /\ name # "jal"
    BY <2>3, SMT DEF ShortForms
  <2> QED
    BY <1>7, <2>5, <2>6, <2>7
<1>16. CASE g = 20
  <2> DEFINE a == CASE f3 = 0 -> "fle.s" [] f3 = 1 -> "flt.s"
                    [] f3 = 2 -> "feq.s" [] OTHER -> "illegal"
             b == CASE f3 = 0 -> "fle.d" [] f3 = 1 -> "flt.d"
                    [] f3 = 2 -> "feq.d" [] OTHER -> "illegal"
  <2>1. Manual!OpFpForms(i) = <<a, b>>
    BY <1>1, <1>2, <1>16, OpFpFormsByGroup, FormsTables, SMT
  <2>2. (r = 0 \/ r = 1) /\ name = IF r = 0 THEN a ELSE b
    <3> HIDE DEF a, b
    <3> QED
      BY <1>6, <2>1
  <2>3. f7 \in {80, 81} /\ f3 \in {0, 1, 2}
    BY <1>4, <1>16, <2>2, SMT DEF name
  <2>4. text = <<name, Manual!X(i.rd), Manual!F(i.rs1), Manual!F(i.rs2)>>
    <3>1. f7 % 4 = 0 <=> r = 0
      BY <1>3
    <3>2. text = Manual!StrFloatCompare(i)
      BY <1>1, <2>3, OpFpTexts, SMT DEF text
    <3>3. \A k \in Nat : k <= 5 => Manual!At(Manual!fCompareInstrNames, k) =
             CASE k = 0 -> "fle.s" [] k = 1 -> "flt.s" [] k = 2 -> "feq.s"
               [] k = 3 -> "fle.d" [] k = 4 -> "flt.d" [] k = 5 -> "feq.d"
      BY SMT DEF Manual!At, Manual!fCompareInstrNames
    <3>4. name = Manual!At(Manual!fCompareInstrNames, f3 + IF r = 0 THEN 0 ELSE 3)
      BY <2>2, <2>3, <3>3, SMTT(40)
    <3>5. Manual!Sd(i, 0, 3) = IF r = 0 THEN 0 ELSE 3
      BY <1>1, <3>1 DEF Manual!Sd
    <3> QED
      BY <1>1, <2>3, <3>2, <3>4, <3>5, SMT DEF Manual!StrFloatCompare
  <2>5. text[1] = name
    BY <2>4
  <2>6. text = Manual!OpFpAssembly(i)
    BY <1>1, <1>2, <1>16, <2>4, OpFpAssemblies, SMT DEF name
  <2>7. name \notin ShortForms /\ name # "jal"
    BY <2>2, <2>3, SMT DEF ShortForms
  <2> QED
    BY <1>7, <2>5, <2>6, <2>7
<1>17. CASE g = 8
  <2>1. r \notin {0, 1}
    BY <1>1, <1>4, <1>17, SMT
  <2>2. g \notin 0 .. 3
    BY <1>17, SMT
  <2>3. \E a, b : Manual!OpFpForms(i) = <<a, b>>
    BY <1>1, <1>2, <1>17, <2>2, SMT DEF Manual!OpFpForms
  <2> QED
    BY <1>6, <2>1, <2>3
<1>18. CASE g \notin {0, 1, 2, 3, 4, 5, 8, 11, 20, 24, 26, 28, 30}
  <2>1. Manual!OpFpForms(i) = <<"illegal", "illegal">>
    BY <1>1, <1>2, <1>18, OpFpFormsByGroup
  <2>2. name = "illegal"
    BY <1>6, <2>1
  <2> QED
    BY <2>2 DEF name
<1> QED
  BY <1>8, <1>9, <1>10, <1>11, <1>12, <1>13, <1>14, <1>15, <1>16, <1>17,
     <1>18

(* Every instruction that is not shown otherwise is shown as what it is. *)
LEMMA InstructionsAreShown ==
    ASSUME NEW i \in Manual!Instruction, ~Manual!Misshown(i), Manual!Name(i) # "illegal"
    PROVE  Manual!Expanded(Manual!StrInstr(i)) = Manual!Assembly(i)
<1>1. i.op \in {3, 35, 99, 19, 51, 47, 115, 55, 23, 111, 103, 15}
  BY NamesByOpcode
<1>2. CASE i.op = 3
  BY <1>2, LoadsAreShown
<1>3. CASE i.op = 35
  BY <1>3, StoresAreShown
<1>4. CASE i.op = 99
  BY <1>4, BranchesAreShown DEF Manual!Misshown, Manual!BRANCH
<1>5. CASE i.op = 19
  BY <1>5, AddiIsShown, ImmediatesAreShown
<1>6. CASE i.op = 51
  BY <1>6, RegistersAreShown
<1>7. CASE i.op = 47
  BY <1>7, SwapsAreShown
<1>8. CASE i.op = 115
  <2>1. Manual!Name(i) \notin {"mret", "wfi", "csrrci"}
    BY DEF Manual!Misshown
  <2> QED
    BY <1>8, <2>1, CsrsAreShown, PrivilegedAreShown
<1>9. CASE i.op \in {55, 23}
  BY <1>9, UppersAreShown
<1>10. CASE i.op = 111
  BY <1>10, JumpsAreShown DEF Manual!Misshown, Manual!JAL
<1>11. CASE i.op = 103
  BY <1>11, RegisterJumpsAreShown
<1>12. CASE i.op = 15
  BY <1>12, FencesAreShown
<1> QED
  BY <1>1, <1>2, <1>3, <1>4, <1>5, <1>6, <1>7, <1>8, <1>9, <1>10, <1>11, <1>12

LEMMA FpInstructionsAreShown ==
    ASSUME NEW i \in Manual!Instruction, ~Manual!Misshown(i), Manual!FpName(i) # "illegal"
    PROVE  Manual!Expanded(Manual!StrInstr(i)) = Manual!FpAssembly(i)
<1>1. i.op \in {7, 39, 67, 71, 75, 79, 83}
  BY OthersHaveNoFpName
<1>2. CASE i.op = 7
  BY <1>2, FpLoadsAreShown
<1>3. CASE i.op = 39
  BY <1>3, FpStoresAreShown
<1>4. CASE i.op \in {67, 71, 75, 79}
  BY <1>4, FusedAreShown
<1>5. CASE i.op = 83
  <2>1. i.f7 \notin {32, 33}
    BY <1>5 DEF Manual!Misshown, Manual!OP_FP
  <2> QED
    BY <1>5, <2>1, OpFpsAreShown
<1> QED
  BY <1>1, <1>2, <1>3, <1>4, <1>5

(* No step changes the instruction. *)
LEMMA InstructionStays ==
    ASSUME [Manual!Next]_(Manual!vars)
    PROVE  instr' = instr
<1>1. CASE UNCHANGED Manual!vars
  BY <1>1 DEF Manual!vars
<1>2. ASSUME NEW rs, NEW to, Manual!Goes(rs, to)
      PROVE  instr' = instr
  BY <1>2 DEF Manual!Goes
<1>3. ASSUME NEW rs, Manual!Continues(rs)
      PROVE  instr' = instr
  BY <1>3 DEF Manual!Continues, Manual!Goes
<1>4. ASSUME NEW cause, Manual!Traps(cause)
      PROVE  instr' = instr
  BY <1>4 DEF Manual!Traps
<1>5. CASE Manual!ExecInstrR
  BY <1>3, <1>4, <1>5, Zenon DEF Manual!ExecInstrR, Manual!Divide, Manual!DividesTooFar,
                          Manual!Amoswap
<1>6. CASE Manual!ExecInstrI \/ Manual!ExecInstrL \/ Manual!ExecInstrS \/ Manual!ExecInstrI2
  BY <1>3, <1>4, <1>6, Zenon DEF Manual!ExecInstrI, Manual!ExecInstrL, Manual!ExecInstrS,
                          Manual!ExecInstrI2
<1>7. CASE Manual!ExecInstrB \/ Manual!Jal \/ Manual!Jalr
  BY <1>2, <1>3, <1>4, <1>7, Zenon DEF Manual!ExecInstrB, Manual!Jal, Manual!Jalr
<1>8. CASE Manual!Auipc \/ Manual!Lui \/ Manual!Unknown
  BY <1>3, <1>4, <1>8, Zenon DEF Manual!Auipc, Manual!Lui, Manual!Unknown
<1> QED
  BY <1>1, <1>5, <1>6, <1>7, <1>8 DEF Manual!Next, Manual!ExecInstr

(* The instruction is one: its fields are in range. *)
LEMMA InstructionIsExecutable ==
    Manual!Spec => []Executable(instr)
<1>1. ASSUME Manual!Init
      PROVE  Executable(instr)
  BY <1>1, ProgramAssumption, Zenon DEF Manual!Init
<1>2. ASSUME Executable(instr), [Manual!Next]_(Manual!vars)
      PROVE  Executable(instr)'
  BY <1>2, InstructionStays, Zenon DEF Executable
<1> QED
  BY <1>1, <1>2, PTL DEF Manual!Spec

(* What the disassembler shows of an instruction, its short forms written in
   full, is what the manual calls it: the name and the operands in order. *)
THEOREM TextsShowInstructions ==
    Manual!Spec => []ShowsWhatRuns
<1>1. ASSUME Executable(instr)
      PROVE  ShowsWhatRuns
  <2>1. instr \in Manual!Instruction
    BY <1>1 DEF Executable
  <2> QED
    BY <2>1, InstructionsAreShown, FpInstructionsAreShown
       DEF ShowsWhatRuns, Manual!ShowsWhatRuns
<1> QED
  BY <1>1, InstructionIsExecutable, PTL

----------------------------------------------------------------------------
(* The arithmetic of words. *)

(* Division: the quotient and the remainder are the only ones. *)
LEMMA Division ==
    ASSUME NEW n \in Int, NEW d \in Nat \ {0}
    PROVE  /\ n \div d \in Int /\ n % d \in Nat
           /\ n % d < d
           /\ n = d * (n \div d) + (n % d)
  BY SMT

LEMMA SmallProduct ==
    ASSUME NEW d \in Nat \ {0}, NEW z \in Int, -d < d * z, d * z < d
    PROVE  z = 0
<1>1. \A y \in Nat : d * y >= 0
  BY SMT
<1>2. CASE z >= 1
  <2>1. z - 1 \in Nat /\ d * z = d + d * (z - 1)
    BY <1>2, SMT
  <2>2. d * (z - 1) >= 0
    BY <1>1, <2>1, SMT
  <2> QED
    BY <2>1, <2>2, SMT
<1>3. CASE z <= -1
  <2>1. (-1) - z \in Nat /\ d * z = (-d) - d * ((-1) - z)
    BY <1>3, SMT
  <2>2. d * ((-1) - z) >= 0
    BY <1>1, <2>1, SMT
  <2> QED
    BY <2>1, <2>2, SMT
<1> QED
  BY <1>2, <1>3, SMT

LEMMA DivisionIsUnique ==
    ASSUME NEW d \in Nat \ {0}, NEW q \in Int, NEW r \in Nat, r < d
    PROVE  /\ (d * q + r) \div d = q
           /\ (d * q + r) % d = r
<1> DEFINE n == d * q + r
<1>1. n \in Int
  BY SMT
<1>2. /\ n \div d \in Int /\ n % d \in Nat
      /\ n % d < d
      /\ n = d * (n \div d) + (n % d)
  <2> HIDE DEF n
  <2> QED
    BY <1>1, Division
<1>3. PICK p \in Int : p = n \div d
  BY <1>2
<1>4. PICK s \in Nat : s = n % d
  BY <1>2
<1>5. d * q + r = d * p + s /\ s < d
  BY <1>2, <1>3, <1>4
<1>6. d * (q - p) = s - r
  <2>1. d * (q - p) = d * q - d * p
    BY SMT
  <2> QED
    BY <1>5, <2>1, SMT
<1>7. q - p = 0
  <2>1. q - p \in Int /\ -d < d * (q - p) /\ d * (q - p) < d
    BY <1>5, <1>6, SMT
  <2> QED
    BY <2>1, SmallProduct
<1>8. q = p
  BY <1>7, SMT
<1>9. r = s
  BY <1>5, <1>8, SMT
<1> QED
  BY <1>3, <1>4, <1>8, <1>9

(* Division in two steps. *)
LEMMA DivisionTwice ==
    ASSUME NEW n \in Nat, NEW d \in Nat \ {0}, NEW e \in Nat \ {0}
    PROVE  /\ n \div (d * e) = (n \div d) \div e
           /\ n % (d * e) = (n % d) + d * ((n \div d) % e)
<1>1. PICK q \in Nat, r \in Nat : n = d * q + r /\ r < d /\ n \div d = q /\ n % d = r
  <2>1. n \div d \in Nat
    BY SMT
  <2> QED
    BY <2>1, Division
<1>2. PICK p \in Nat, s \in Nat : q = e * p + s /\ s < e /\ q \div e = p /\ q % e = s
  <2>1. q \div e \in Nat
    BY SMT
  <2> QED
    BY <2>1, Division
<1>3. n = (d * e) * p + (d * s + r)
  BY <1>1, <1>2, SMT
<1>4. d * s + r \in Nat /\ d * s + r < d * e
  <2>1. e - 1 - s \in Nat
    BY <1>2, SMT
  <2>2. d * (e - 1 - s) >= 0
    BY <2>1, SMT
  <2>3. d * (e - 1 - s) = d * e - d - d * s
    BY SMT
  <2>4. d * s \in Nat /\ d * e \in Nat
    BY SMT
  <2> QED
    BY <1>1, <2>2, <2>3, <2>4, SMT
<1>5. d * e \in Nat \ {0}
  BY SMT
<1>6. PICK t \in Nat : t = d * s + r
  BY <1>4
<1>7. PICK g \in Nat \ {0} : g = d * e
  BY <1>5
<1>8. n = g * p + t /\ t < g
  BY <1>3, <1>4, <1>6, <1>7
<1>9. n \div g = p /\ n % g = t
  BY <1>8, DivisionIsUnique
<1> QED
  BY <1>1, <1>2, <1>6, <1>7, <1>9

(* Words and their parts, in powers of the number of values of a byte. *)
LEMMA WordSizes ==
    /\ B \in Nat \ {0} /\ Manual!Pow2[B] \in Nat \ {0}
    /\ Manual!Pow2[B] = 2 * Manual!Pow2[B - 1] /\ Manual!Pow2[B - 1] \in Nat \ {0}
    /\ Manual!HalfSize = Manual!Pow2[B] * Manual!Pow2[B]
    /\ Manual!Size = Manual!HalfSize * Manual!HalfSize
    /\ Manual!HalfSize \in Nat \ {0} /\ Manual!Size \in Nat \ {0}
<1>1. B \in Nat \ {0} /\ B - 1 \in Nat /\ (B - 1) + 1 = B
  BY ProgramAssumption
<1>2. 2 * B \in Nat /\ 4 * B \in Nat /\ 2 * B = B + B /\ 4 * B = 2 * B + 2 * B
  BY <1>1
<1>3. Manual!Pow2[B] = 2 * Manual!Pow2[B - 1]
  BY <1>1, Pow2Recursive
<1>4. Manual!HalfSize = Manual!Pow2[B] * Manual!Pow2[B]
  BY <1>1, <1>2, Pow2Sum DEF Manual!HalfSize
<1>5. Manual!Size = Manual!HalfSize * Manual!HalfSize
  <2>1. Manual!Pow2[2 * B + 2 * B] = Manual!Pow2[2 * B] * Manual!Pow2[2 * B]
    BY <1>2, Pow2Sum
  <2> QED
    BY <1>2, <2>1 DEF Manual!HalfSize, Manual!Size, Manual!w
<1>6. Manual!Pow2[B] \in Nat \ {0} /\ Manual!Pow2[B - 1] \in Nat \ {0}
  BY <1>1, Pow2IsNat
<1>7. Manual!HalfSize \in Nat \ {0} /\ Manual!Size \in Nat \ {0}
  BY <1>2, Pow2IsNat DEF Manual!HalfSize, Manual!Size, Manual!w
<1> QED
  BY <1>1, <1>3, <1>4, <1>5, <1>6, <1>7

LEMMA BytePlaces ==
    /\ Manual!Pow2[B * 0] = 1 /\ Manual!Pow2[B * 1] = Manual!Pow2[B]
    /\ Manual!Pow2[B * 2] = Manual!HalfSize /\ Manual!Pow2[2 * B] = Manual!HalfSize
    /\ Manual!Pow2[B * 3] = Manual!HalfSize * Manual!Pow2[B]
    /\ Manual!Pow2[3 * B] = Manual!HalfSize * Manual!Pow2[B]
    /\ Manual!Pow2[2 * B * 0] = 1 /\ Manual!Pow2[2 * B * 1] = Manual!HalfSize
<1>1. B \in Nat /\ 2 * B \in Nat
  BY WordSizes
<1>2. /\ B * 0 = 0 /\ B * 1 = B /\ B * 2 = 2 * B /\ B * 3 = 2 * B + B /\ 3 * B = 2 * B + B
      /\ 2 * B * 0 = 0 /\ 2 * B * 1 = 2 * B
  BY <1>1
<1>3. Manual!Pow2[2 * B + B] = Manual!HalfSize * Manual!Pow2[B]
  BY <1>1, Pow2Sum DEF Manual!HalfSize
<1>4. Manual!Pow2[0] = 1 /\ Manual!Pow2[2 * B] = Manual!HalfSize
  BY Pow2Recursive DEF Manual!HalfSize
<1> QED
  BY <1>2, <1>3, <1>4

LEMMA WordsWrap ==
    /\ \A v \in Manual!Word : v \in Nat /\ v < Manual!Size /\ Manual!Wrap(v) = v
    /\ \A n \in Nat : n < Manual!Size => Manual!Wrap(n) = n
    /\ \A n \in Int : Manual!Wrap(n) \in Manual!Word
<1>1. PICK s \in Nat \ {0} : s = Manual!Size
  BY WordSizes
<1>2. ASSUME NEW n \in Nat, n < s
      PROVE  n % s = n
  <2>1. n = s * 0 + n
    BY SMT
  <2> QED
    BY <1>2, <2>1, DivisionIsUnique
<1>3. ASSUME NEW n \in Int
      PROVE  n % s \in Nat /\ n % s < s
  BY Division
<1> QED
  BY <1>1, <1>2, <1>3, SMT DEF Manual!Word, Manual!Wrap

(* The bytes of a word make it up. *)
LEMMA BytesMakeWords ==
    ASSUME NEW v \in Manual!Word
    PROVE  /\ v = Manual!Bytes(v)[0] + Manual!Bytes(v)[1] * Manual!Pow2[B]
                    + Manual!Bytes(v)[2] * Manual!HalfSize
                    + Manual!Bytes(v)[3] * (Manual!HalfSize * Manual!Pow2[B])
           /\ \A k \in 0 .. 3 : Manual!Bytes(v)[k] \in Nat
           /\ v % Manual!HalfSize
                = Manual!Bytes(v)[0] + Manual!Bytes(v)[1] * Manual!Pow2[B]
           /\ (v \div Manual!HalfSize) % Manual!HalfSize
                = Manual!Bytes(v)[2] + Manual!Bytes(v)[3] * Manual!Pow2[B]
<1>1. PICK K \in Nat \ {0} : K = Manual!Pow2[B]
  BY WordSizes
<1>2. PICK H \in Nat \ {0} : H = Manual!HalfSize
  BY WordSizes
<1>3. H = K * K /\ Manual!Size = H * H /\ v \in Nat /\ v < H * H
  BY <1>1, <1>2, WordSizes, WordsWrap
<1>4. /\ Manual!Bytes(v)[0] = (v \div 1) % K /\ Manual!Bytes(v)[1] = (v \div K) % K
      /\ Manual!Bytes(v)[2] = (v \div H) % K /\ Manual!Bytes(v)[3] = (v \div (H * K)) % K
  BY <1>1, <1>2, BytePlaces DEF Manual!Bytes
<1>5. v \div 1 = v
  BY <1>3, SMT
<1>6. v % H = (v % K) + K * ((v \div K) % K)
  BY <1>3, DivisionTwice
<1>7. PICK u \in Nat : u = v \div H
  BY <1>3, SMT
<1>12. v = H * u + (v % H) /\ v % H \in Nat
  <2>1. v \in Int
    BY <1>3
  <2>2. v = H * (v \div H) + (v % H) /\ v % H \in Nat
    BY <2>1, Division
  <2> QED
    BY <1>7, <2>2
<1>8. u < H
  <2>1. v = H * u + (v % H) /\ v % H \in Nat
    BY <1>12
  <2>2. PICK r \in Nat : r = v % H
    BY <2>1
  <2>3. H * u + r < H * H
    BY <1>3, <2>1, <2>2
  <2>4. CASE u >= H
    <3>1. u - H \in Nat
      BY <2>4
    <3>2. H * (u - H) >= 0
      BY <3>1, SMT
    <3>3. H * (u - H) = H * u - H * H
      BY SMT
    <3> QED
      BY <2>3, <3>2, <3>3, SMT
  <2> QED
    BY <2>4, SMT
<1>9. u % H = u
  <2>1. u = H * 0 + u
    BY SMT
  <2> QED
    BY <1>8, <2>1, DivisionIsUnique
<1>10. u % H = (u % K) + K * ((u \div K) % K)
  BY <1>3, DivisionTwice
<1>11. v \div (H * K) = u \div K
  BY <1>3, <1>7, DivisionTwice
<1>13. PICK b0 \in Nat, b1 \in Nat, b2 \in Nat, b3 \in Nat :
         /\ b0 = v % K /\ b1 = (v \div K) % K /\ b2 = u % K /\ b3 = (u \div K) % K
  <2>1. v \in Int /\ u \in Int
    BY <1>3
  <2>2. v \div K \in Int /\ u \div K \in Int
    BY <2>1, Division
  <2>3. v % K \in Nat /\ u % K \in Nat
    BY <2>1, Division
  <2>4. (v \div K) % K \in Nat /\ (u \div K) % K \in Nat
    BY <2>2, Division
  <2> QED
    BY <2>3, <2>4
<1>14. /\ Manual!Bytes(v)[0] = b0 /\ Manual!Bytes(v)[1] = b1
       /\ Manual!Bytes(v)[2] = b2 /\ Manual!Bytes(v)[3] = b3
  BY <1>4, <1>5, <1>7, <1>11, <1>13
<1>15. v % H = b0 + K * b1 /\ u = b2 + K * b3
  BY <1>6, <1>9, <1>10, <1>13
<1>16. v = b0 + b1 * K + b2 * H + b3 * (H * K)
  <2>1. H * (b2 + K * b3) = b2 * H + b3 * (H * K)
    BY SMT
  <2> QED
    BY <1>12, <1>15, <2>1, SMT
<1>17. K * b1 = b1 * K /\ K * b3 = b3 * K
  BY SMT
<1>18. \A k \in 0 .. 3 : k = 0 \/ k = 1 \/ k = 2 \/ k = 3
  BY SMT
<1>19. \A k \in 0 .. 3 : Manual!Bytes(v)[k] \in Nat
  BY <1>14, <1>18
<1> QED
  BY <1>1, <1>2, <1>7, <1>9, <1>14, <1>15, <1>16, <1>17, <1>19

LEMMA FromBytesOfBytes ==
    ASSUME NEW v \in Manual!Word
    PROVE  Manual!FromBytes(Manual!Bytes(v)) = v
  BY BytesMakeWords, BytePlaces DEF Manual!FromBytes

(* A byte or a half of a word that is loaded. *)
LEMMA ByteIsExtended ==
    ASSUME NEW v \in Manual!Word, NEW k \in 0 .. 3
    PROVE  Manual!signExtByte(v, k) = Manual!Extended(Manual!Bytes(v)[k], B)
<1>1. PICK K \in Nat \ {0} : K = Manual!Pow2[B]
  BY WordSizes
<1>2. PICK h \in Nat \ {0} : h = Manual!Pow2[B - 1] /\ K = h * 2
  BY <1>1, WordSizes
<1>3. PICK S \in Nat \ {0} : S = Manual!Size /\ K <= S
  <2>1. PICK T \in Nat \ {0} : T = Manual!HalfSize
    BY WordSizes
  <2>2. Manual!Size = K * (K * T)
    <3>1. Manual!Size = T * T /\ T = K * K
      BY <1>1, <2>1, WordSizes
    <3> QED
      BY <3>1, SMT
  <2>3. \A x \in Nat \ {0} : K * x >= K
    <3>1. \A y \in Nat : K * y >= 0
      BY SMT
    <3> TAKE x \in Nat \ {0}
    <3>2. x - 1 \in Nat /\ K * x = K + K * (x - 1)
      BY SMT
    <3>3. K * (x - 1) >= 0
      BY <3>1, <3>2
    <3> QED
      BY <3>2, <3>3, SMT
  <2>4. K * T \in Nat \ {0}
    BY SMT
  <2> QED
    BY <2>2, <2>3, <2>4, WordSizes
<1>4. PICK s \in Nat : s = v \div Manual!Pow2[B * k]
  <2>1. v \in Nat /\ B * k \in Nat
    BY WordsWrap, WordSizes
  <2>2. PICK p \in Nat \ {0} : p = Manual!Pow2[B * k]
    BY <2>1, Pow2IsNat
  <2>3. v \div p \in Nat
    BY <2>1, SMT
  <2> QED
    BY <2>2, <2>3
<1>5. PICK t \in Nat : t = s % K /\ t < K
  BY Division
<1>6. PICK b \in Nat, l \in Nat : b = (s \div h) % 2 /\ l = s % h /\ b <= 1 /\ l < h
  <2>1. s \in Int
    OBVIOUS
  <2>2. PICK q \in Int : q = s \div h
    BY <2>1, Division
  <2>3. q % 2 \in Nat /\ q % 2 <= 1
    BY SMT
  <2>4. s % h \in Nat /\ s % h < h
    BY <2>1, Division
  <2> QED
    BY <2>2, <2>3, <2>4
<1>7. t = l + h * b
  <2>1. s % (h * 2) = (s % h) + h * ((s \div h) % 2)
    <3>1. 2 \in Nat \ {0}
      BY SMT
    <3> QED
      BY <3>1, DivisionTwice, ZenonT(40)
  <2> QED
    BY <1>2, <1>5, <1>6, <2>1
<1>8. Manual!Bytes(v)[k] = t
  BY <1>1, <1>4, <1>5 DEF Manual!Bytes
<1>9. Manual!signExtByte(v, k) = l + IF b = 1 THEN S - h ELSE 0
  BY <1>2, <1>3, <1>4, <1>6 DEF Manual!signExtByte
<1>10. Manual!Extended(t, B) = IF t >= h THEN (t - K) % S ELSE t
  BY <1>1, <1>2, <1>3 DEF Manual!Extended, Manual!Wrap
<1>11. CASE b = 0
  <2>1. t = l /\ ~(t >= h)
    BY <1>6, <1>7, <1>11, SMT
  <2> QED
    BY <1>8, <1>9, <1>10, <1>11, <2>1, SMT
<1>12. CASE b = 1
  <2>1. t = l + h /\ t >= h
    BY <1>7, <1>12, SMT
  <2>2. t - K = S * (-1) + (l + S - h) /\ l + S - h \in Nat /\ l + S - h < S
    <3>1. K = h + h /\ S * (-1) = -S
      BY <1>2, SMT
    <3> QED
      BY <1>3, <1>6, <2>1, <3>1, SMT
  <2>3. (t - K) % S = l + S - h
    <3>1. PICK r \in Nat : r = l + S - h
      BY <2>2
    <3> QED
      BY <2>2, <3>1, DivisionIsUnique
  <2>4. l + (S - h) = l + S - h
    BY SMT
  <2> QED
    BY <1>8, <1>9, <1>10, <1>12, <2>1, <2>3, <2>4
<1>13. b = 0 \/ b = 1
  BY <1>6, SMT
<1> QED
  BY <1>11, <1>12, <1>13

LEMMA HalfIsLoaded ==
    ASSUME NEW v \in Manual!Word
    PROVE  /\ Manual!zExtHWord(v, 0) = Manual!Half(v, 0)
           /\ Manual!zExtHWord(v, 1) = Manual!Half(v, 2)
<1>1. v \div 1 = v
  BY WordsWrap, SMT
<1>2. /\ 0 + 1 = 1 /\ 2 + 1 = 3
  BY SMT
<1>3. /\ Manual!zExtHWord(v, 0) = v % Manual!HalfSize
      /\ Manual!zExtHWord(v, 1) = (v \div Manual!HalfSize) % Manual!HalfSize
  BY <1>1, BytePlaces DEF Manual!zExtHWord
<1>4. /\ Manual!Half(v, 0) = Manual!Bytes(v)[0] + Manual!Bytes(v)[1] * Manual!Pow2[B]
      /\ Manual!Half(v, 2) = Manual!Bytes(v)[2] + Manual!Bytes(v)[3] * Manual!Pow2[B]
  BY <1>2 DEF Manual!Half
<1> QED
  BY <1>3, <1>4, BytesMakeWords

(* ... and that is stored in the word around it. *)
LEMMA ByteIsMerged ==
    ASSUME NEW v \in Manual!Word, NEW r \in Manual!Word, NEW k \in 0 .. 3
    PROVE  Manual!mergeByte(v, r, k)
             = Manual!FromBytes([Manual!Bytes(v) EXCEPT ![k] = Manual!Bytes(r)[0]])
<1>1. PICK K \in Nat \ {0} : K = Manual!Pow2[B]
  BY WordSizes
<1>2. PICK H \in Nat \ {0} : H = Manual!HalfSize
  BY WordSizes
<1>3. PICK b0 \in Nat, b1 \in Nat, b2 \in Nat, b3 \in Nat :
        /\ b0 = Manual!Bytes(v)[0] /\ b1 = Manual!Bytes(v)[1]
        /\ b2 = Manual!Bytes(v)[2] /\ b3 = Manual!Bytes(v)[3]
  <2>1. 0 \in 0 .. 3 /\ 1 \in 0 .. 3 /\ 2 \in 0 .. 3 /\ 3 \in 0 .. 3
    BY SMT
  <2> QED
    BY <2>1, BytesMakeWords
<1>4. v = b0 + b1 * K + b2 * H + b3 * (H * K)
  BY <1>1, <1>2, <1>3, BytesMakeWords
<1>5. PICK s \in Nat : s = Manual!Bytes(r)[0] /\ s = r % K
  <2>1. r \in Nat /\ r \div 1 = r
    BY WordsWrap, SMT
  <2>2. r % K \in Nat
    <3>1. r \in Int
      BY <2>1
    <3> QED
      BY <3>1, Division
  <2>3. Manual!Bytes(r)[0] = (r \div 1) % K
    BY <1>1, BytePlaces DEF Manual!Bytes
  <2> QED
    BY <2>1, <2>2, <2>3
<1>6. Manual!mergeByte(v, r, k) =
          v - Manual!Bytes(v)[k] * Manual!Pow2[B * k] + s * Manual!Pow2[B * k]
  BY <1>1, <1>5 DEF Manual!mergeByte, Manual!Merged, Manual!Bytes
<1>7. DOMAIN Manual!Bytes(v) = 0 .. 3
  BY DEF Manual!Bytes
<1> DEFINE f == [Manual!Bytes(v) EXCEPT ![k] = s]
<1>8. Manual!FromBytes(f) = f[0] + f[1] * K + f[2] * H + f[3] * (H * K)
  BY <1>1, <1>2, BytePlaces DEF Manual!FromBytes
<1>9. /\ f[0] = IF k = 0 THEN s ELSE b0
      /\ f[1] = IF k = 1 THEN s ELSE b1
      /\ f[2] = IF k = 2 THEN s ELSE b2
      /\ f[3] = IF k = 3 THEN s ELSE b3
  BY <1>3, <1>7
<1> HIDE DEF f
<1>10. CASE k = 0
  <2>1. Manual!mergeByte(v, r, k) = v - b0 * 1 + s * 1
    BY <1>3, <1>6, <1>10, BytePlaces
  <2> QED
    BY <1>4, <1>5, <1>8, <1>9, <1>10, <2>1, SMT DEF f
<1>11. CASE k = 1
  <2>1. Manual!mergeByte(v, r, k) = v - b1 * K + s * K
    BY <1>1, <1>3, <1>6, <1>11, BytePlaces
  <2> QED
    BY <1>4, <1>5, <1>8, <1>9, <1>11, <2>1, SMT DEF f
<1>12. CASE k = 2
  <2>1. Manual!mergeByte(v, r, k) = v - b2 * H + s * H
    BY <1>2, <1>3, <1>6, <1>12, BytePlaces
  <2> QED
    BY <1>4, <1>5, <1>8, <1>9, <1>12, <2>1, SMT DEF f
<1>13. CASE k = 3
  <2>1. Manual!mergeByte(v, r, k) = v - b3 * (H * K) + s * (H * K)
    BY <1>1, <1>2, <1>3, <1>6, <1>13, BytePlaces
  <2> QED
    BY <1>4, <1>5, <1>8, <1>9, <1>13, <2>1, SMT DEF f
<1>14. k = 0 \/ k = 1 \/ k = 2 \/ k = 3
  BY SMT
<1> QED
  BY <1>10, <1>11, <1>12, <1>13, <1>14

LEMMA HalfIsMerged ==
    ASSUME NEW v \in Manual!Word, NEW r \in Manual!Word
    PROVE  /\ Manual!mergeHWord(v, r, 0) = Manual!FromBytes(
                  [Manual!Bytes(v) EXCEPT ![0] = Manual!Bytes(r)[0],
                                          ![0 + 1] = Manual!Bytes(r)[1]])
           /\ Manual!mergeHWord(v, r, 1) = Manual!FromBytes(
                  [Manual!Bytes(v) EXCEPT ![2] = Manual!Bytes(r)[0],
                                          ![2 + 1] = Manual!Bytes(r)[1]])
<1>1. PICK K \in Nat \ {0} : K = Manual!Pow2[B]
  BY WordSizes
<1>2. PICK H \in Nat \ {0} : H = Manual!HalfSize
  BY WordSizes
<1>3. PICK b0 \in Nat, b1 \in Nat, b2 \in Nat, b3 \in Nat :
        /\ b0 = Manual!Bytes(v)[0] /\ b1 = Manual!Bytes(v)[1]
        /\ b2 = Manual!Bytes(v)[2] /\ b3 = Manual!Bytes(v)[3]
  <2>1. 0 \in 0 .. 3 /\ 1 \in 0 .. 3 /\ 2 \in 0 .. 3 /\ 3 \in 0 .. 3
    BY SMT
  <2> QED
    BY <2>1, BytesMakeWords
<1>4. /\ v = b0 + b1 * K + b2 * H + b3 * (H * K)
      /\ v % H = b0 + b1 * K /\ (v \div H) % H = b2 + b3 * K
  BY <1>1, <1>2, <1>3, BytesMakeWords
<1>5. PICK s0 \in Nat, s1 \in Nat :
        /\ s0 = Manual!Bytes(r)[0] /\ s1 = Manual!Bytes(r)[1] /\ r % H = s0 + s1 * K
  <2>1. 0 \in 0 .. 3 /\ 1 \in 0 .. 3
    BY SMT
  <2> QED
    BY <1>1, <1>2, <2>1, BytesMakeWords
<1>6. v \div 1 = v /\ v \in Nat
  BY WordsWrap, SMT
<1>7. DOMAIN Manual!Bytes(v) = 0 .. 3
  BY DEF Manual!Bytes
<1>8. \A f : Manual!FromBytes(f) = f[0] + f[1] * K + f[2] * H + f[3] * (H * K)
  BY <1>1, <1>2, BytePlaces DEF Manual!FromBytes
<1>9. Manual!mergeHWord(v, r, 0) = v - (b0 + b1 * K) * 1 + (s0 + s1 * K) * 1
  BY <1>2, <1>4, <1>5, <1>6, BytePlaces DEF Manual!mergeHWord, Manual!Merged
<1>10. Manual!mergeHWord(v, r, 1) = v - (b2 + b3 * K) * H + (s0 + s1 * K) * H
  BY <1>2, <1>4, <1>5, BytePlaces DEF Manual!mergeHWord, Manual!Merged
<1>11. 0 + 1 = 1 /\ 2 + 1 = 3
  BY SMT
<1> DEFINE f == [Manual!Bytes(v) EXCEPT ![0] = s0, ![0 + 1] = s1]
           g == [Manual!Bytes(v) EXCEPT ![2] = s0, ![2 + 1] = s1]
<1>12. f[0] = s0 /\ f[1] = s1 /\ f[2] = b2 /\ f[3] = b3
  BY <1>3, <1>7, <1>11
<1>13. g[0] = b0 /\ g[1] = b1 /\ g[2] = s0 /\ g[3] = s1
  BY <1>3, <1>7, <1>11
<1> HIDE DEF f, g
<1>14. /\ Manual!FromBytes(f) = s0 + s1 * K + b2 * H + b3 * (H * K)
       /\ Manual!FromBytes(g) = b0 + b1 * K + s0 * H + s1 * (H * K)
  BY <1>8, <1>12, <1>13
<1>15. (b2 + b3 * K) * H = b2 * H + b3 * (H * K) /\ (s0 + s1 * K) * H = s0 * H + s1 * (H * K)
  BY SMT
<1>16. Manual!mergeHWord(v, r, 0) = Manual!FromBytes(f)
  BY <1>4, <1>9, <1>14, SMT
<1>17. Manual!mergeHWord(v, r, 1) = Manual!FromBytes(g)
  BY <1>4, <1>10, <1>14, <1>15, SMT
<1> QED
  BY <1>5, <1>16, <1>17 DEF f, g

LEMMA ProductsGrow ==
    ASSUME NEW a \in Nat, NEW b \in Nat, NEW c \in Nat, NEW d \in Nat, a <= c, b <= d
    PROVE  a * b <= c * d
<1>1. \A x, y \in Nat : x * y >= 0
  BY SMT
<1>2. c - a \in Nat /\ d - b \in Nat
  BY SMT
<1>3. a * (d - b) >= 0 /\ (c - a) * d >= 0
  BY <1>1, <1>2
<1>4. a * (d - b) = a * d - a * b /\ (c - a) * d = c * d - a * d
  BY SMT
<1> QED
  BY <1>3, <1>4, SMT

(* The long multiplication, unless the middle products carry out of a word. *)
LEMMA LongProduct ==
    ASSUME NEW m \in Nat, m < Manual!Size, NEW n \in Nat, n < Manual!Size,
           ~Manual!Carries(m, n)
    PROVE  \E hi, lo \in Nat :
             /\ Manual!UnsMult(m, n) = <<hi, lo>>
             /\ hi < Manual!Size /\ lo < Manual!Size
             /\ m * n = Manual!Size * hi + lo
<1>1. PICK H \in Nat \ {0} : H = Manual!HalfSize
  BY WordSizes
<1>2. PICK S \in Nat \ {0} : S = Manual!Size /\ S = H * H
  BY <1>1, WordSizes
<1>3. PICK a \in Nat, b \in Nat : m = H * a + b /\ b < H /\ a = m \div H /\ b = m % H
  <2>1. m \div H \in Nat /\ m \in Int
    BY SMT
  <2> QED
    BY <2>1, Division
<1>4. PICK c \in Nat, d \in Nat : n = H * c + d /\ d < H /\ c = n \div H /\ d = n % H
  <2>1. n \div H \in Nat /\ n \in Int
    BY SMT
  <2> QED
    BY <2>1, Division
<1>5. PICK X \in Nat : X = a * d + b * c
  BY SMT
<1>6. PICK D \in Nat : D = b * d
  BY SMT
<1>7. PICK Q \in Nat, R \in Nat : D = H * Q + R /\ R < H /\ Q = D \div H /\ R = D % H
  <2>1. D \div H \in Nat /\ D \in Int
    BY SMT
  <2> QED
    BY <2>1, Division
<1>8. PICK Y \in Nat : Y = Q + X
  BY SMT
<1>9. Y < S
  <2>1. ~(X + Q >= S)
    BY <1>1, <1>2, <1>3, <1>4, <1>5, <1>6, <1>7 DEF Manual!Carries
  <2> QED
    BY <1>8, <2>1, SMT
<1>10. X < S
  BY <1>8, <1>9, SMT
<1>11. PICK U \in Nat, V \in Nat : Y = H * U + V /\ V < H /\ U = Y \div H /\ V = Y % H
  <2>1. Y \div H \in Nat /\ Y \in Int
    BY SMT
  <2> QED
    BY <2>1, Division
<1>12. PICK hi \in Nat, lo \in Nat : hi = U + a * c /\ lo = R + V * H
  BY SMT
<1>13. m * n = S * hi + lo
  <2>1. m * n = (H * a + b) * (H * c + d)
    BY <1>3, <1>4
  <2>2. (H * a + b) * (H * c + d) = (H * H) * (a * c) + H * (a * d + b * c) + b * d
    BY SMT
  <2>3. m * n = (H * H) * (a * c) + H * X + (H * Q + R)
    BY <1>5, <1>6, <1>7, <2>1, <2>2
  <2>4. H * Y = H * X + H * Q
    BY <1>8, SMT
  <2>5. H * Y = (H * H) * U + H * V
    BY <1>11, SMT
  <2>6. (H * H) * hi = (H * H) * U + (H * H) * (a * c)
    BY <1>12, SMT
  <2>7. V * H = H * V
    BY SMT
  <2>8. PICK t1 \in Nat, t2 \in Nat, t3 \in Nat, t4 \in Nat, t5 \in Nat, t6 \in Nat :
          /\ t1 = (H * H) * (a * c) /\ t2 = H * X /\ t3 = H * Q /\ t4 = (H * H) * U
          /\ t5 = H * V /\ t6 = (H * H) * hi
    BY SMT
  <2>9. m * n = t1 + t2 + (t3 + R) /\ t2 + t3 = t4 + t5 /\ t6 = t4 + t1 /\ lo = R + t5
    BY <1>12, <2>3, <2>4, <2>5, <2>6, <2>7, <2>8
  <2> QED
    BY <1>2, <2>8, <2>9, SMT
<1>14. lo < S
  <2>1. V * H <= (H - 1) * H
    <3>1. H - 1 \in Nat /\ V <= H - 1
      BY <1>11, SMT
    <3> QED
      BY <3>1, ProductsGrow
  <2>2. (H - 1) * H = H * H - H
    BY SMT
  <2>3. PICK z \in Nat, y \in Nat : z = H * H /\ y = V * H
    BY SMT
  <2>4. y <= z - H /\ lo = R + y /\ S = z
    BY <1>2, <1>12, <2>1, <2>2, <2>3
  <2> QED
    BY <1>7, <2>4, SMT
<1>15. hi < S
  <2>1. m * n <= (S - 1) * (S - 1)
    <3>1. S - 1 \in Nat /\ m <= S - 1 /\ n <= S - 1
      BY <1>2, SMT
    <3> QED
      BY <3>1, ProductsGrow
  <2>2. (S - 1) * (S - 1) = S * S - 2 * S + 1
    BY SMT
  <2>3. CASE hi >= S
    <3>1. S * S <= S * hi
      BY <2>3, ProductsGrow, SMT
    <3>2. PICK y \in Nat, z \in Nat : y = S * S /\ z = S * hi
      BY SMT
    <3> QED
      BY <1>13, <2>1, <2>2, <3>1, <3>2, SMT
  <2> QED
    BY <2>3, SMT
<1>16. \A x \in Nat : x < S => Manual!Wrap(x) = x
  BY <1>2, WordsWrap
<1>17. Manual!UnsMult(m, n) = <<hi, lo>>
  <2>1. /\ Manual!Wrap(a * d + b * c) = X
        /\ Manual!Wrap((b * d) \div H + X) = Y
        /\ Manual!Wrap(Y \div H + a * c) = hi
        /\ ((b * d) % H) + (Y % H) * H = lo
    BY <1>5, <1>6, <1>7, <1>8, <1>9, <1>10, <1>11, <1>12, <1>15, <1>16
  <2> QED
    BY <1>1, <1>3, <1>4, <2>1 DEF Manual!UnsMult
<1> QED
  BY <1>2, <1>13, <1>14, <1>15, <1>17

(* Nothing is carried when no operand is above the lowest integer. *)
LEMMA SmallOperands ==
    ASSUME NEW m \in Nat, m <= Manual!Size \div 2,
           NEW n \in Nat, n <= Manual!Size \div 2
    PROVE  ~Manual!Carries(m, n)
<1>1. PICK H \in Nat \ {0} : H = Manual!HalfSize
  BY WordSizes
<1>2. PICK e \in Nat \ {0} : H = 2 * e
  <2>1. PICK K \in Nat \ {0} : K = Manual!Pow2[B]
    BY WordSizes
  <2>2. PICK h \in Nat \ {0} : h = Manual!Pow2[B - 1] /\ K = 2 * h
    BY <2>1, WordSizes
  <2>3. H = K * K
    BY <1>1, <2>1, WordSizes
  <2>4. H = 2 * (h * K) /\ h * K \in Nat \ {0}
    BY <2>2, <2>3, SMT
  <2> QED
    BY <2>4
<1>3. PICK S \in Nat \ {0} : S = Manual!Size /\ S = H * H
  BY <1>1, WordSizes
<1>4. S \div 2 = e * H
  <2>1. S = 2 * (e * H)
    BY <1>2, <1>3, SMT
  <2>2. PICK z \in Nat : z = e * H
    BY SMT
  <2> QED
    BY <2>1, <2>2, SMT
<1>5. PICK a \in Nat, b \in Nat : m = H * a + b /\ b < H /\ a = m \div H /\ b = m % H
  <2>1. m \div H \in Nat /\ m \in Int
    BY SMT
  <2> QED
    BY <2>1, Division
<1>6. PICK c \in Nat, d \in Nat : n = H * c + d /\ d < H /\ c = n \div H /\ d = n % H
  <2>1. n \div H \in Nat /\ n \in Int
    BY SMT
  <2> QED
    BY <2>1, Division
<1>7. \A x \in Nat : x > e => H * x >= H * e + H
  <2> TAKE x \in Nat
  <2> HAVE x > e
  <2>1. e + 1 <= x /\ e + 1 \in Nat
    BY SMT
  <2>2. H * (e + 1) <= H * x
    BY <2>1, ProductsGrow, SMT
  <2> QED
    BY <2>2, SMT
<1>8. a <= e /\ c <= e
  <2>1. m <= H * e /\ n <= H * e
    BY <1>3, <1>4, SMT
  <2>2. PICK p \in Nat : p = H * e
    BY SMT
  <2>3. PICK q \in Nat : q = H * a
    BY SMT
  <2>4. PICK r \in Nat : r = H * c
    BY SMT
  <2> QED
    BY <1>5, <1>6, <1>7, <2>1, <2>2, <2>3, <2>4, SMT
<1>9. PICK X \in Nat : X = a * d + b * c
  BY SMT
<1>10. X <= H * H - H
  <2>1. a * d <= e * (H - 1) /\ b * c <= (H - 1) * e
    <3>1. H - 1 \in Nat /\ d <= H - 1 /\ b <= H - 1
      BY <1>5, <1>6, SMT
    <3>2. PICK g \in Nat : g = H - 1
      BY <3>1
    <3>3. a * d <= e * g /\ b * c <= g * e
      BY <1>8, <3>1, <3>2, ProductsGrow
    <3> QED
      BY <3>2, <3>3
  <2>2. e * (H - 1) = e * H - e /\ (H - 1) * e = e * H - e
    BY SMT
  <2>3. H * H = 2 * (e * H)
    BY <1>2, SMT
  <2>4. PICK z \in Nat : z = e * H
    BY SMT
  <2>5. PICK u \in Nat, v \in Nat : u = a * d /\ v = b * c
    BY SMT
  <2>6. u <= z - e /\ v <= z - e /\ X = u + v /\ H * H = 2 * z
    BY <1>9, <2>1, <2>2, <2>3, <2>4, <2>5
  <2> QED
    BY <1>2, <2>6, SMT
<1>11. PICK D \in Nat : D = b * d
  BY SMT
<1>12. PICK Q \in Nat, R \in Nat : D = H * Q + R /\ R < H /\ Q = D \div H /\ R = D % H
  <2>1. D \div H \in Nat /\ D \in Int
    BY SMT
  <2> QED
    BY <2>1, Division
<1>13. Q <= H - 1
  <2>1. D <= (H - 1) * (H - 1)
    <3>1. H - 1 \in Nat /\ d <= H - 1 /\ b <= H - 1
      BY <1>5, <1>6, SMT
    <3> QED
      BY <1>11, <3>1, ProductsGrow
  <2>2. (H - 1) * (H - 1) = H * H - 2 * H + 1
    BY SMT
  <2>3. CASE Q >= H
    <3>1. H * H <= H * Q
      BY <2>3, ProductsGrow, SMT
    <3>2. PICK z \in Nat : z = H * H
      BY SMT
    <3>3. PICK y \in Nat : y = H * Q
      BY SMT
    <3> QED
      BY <1>12, <2>1, <2>2, <3>1, <3>2, <3>3, SMT
  <2> QED
    BY <2>3, SMT
<1>14. X + Q < S
  <2>1. PICK z \in Nat : z = H * H
    BY SMT
  <2> QED
    BY <1>3, <1>10, <1>13, <2>1, SMT
<1>15. ~(X + Q >= S)
  BY <1>14, SMT
<1> QED
  BY <1>1, <1>3, <1>5, <1>6, <1>9, <1>11, <1>12, <1>15 DEF Manual!Carries

(* A word read as a signed number. *)
LEMMA SignedWords ==
    ASSUME NEW v \in Manual!Word
    PROVE  /\ Manual!Signed(v) \in Int
           /\ Manual!Magnitude(Manual!Signed(v)) \in Nat
           /\ Manual!Magnitude(Manual!Signed(v)) <= Manual!Size \div 2
           /\ Manual!Signed(v) >= 0 => Manual!Signed(v) = v /\ v < Manual!Size \div 2
           /\ Manual!Size \div 2 \in Nat
           /\ Manual!Wrap(Manual!Magnitude(Manual!Signed(v)))
                = Manual!Magnitude(Manual!Signed(v))
<1>1. PICK S \in Nat \ {0} : S = Manual!Size
  BY WordSizes
<1>2. PICK n \in Nat : v = n /\ n < S
  BY <1>1, WordsWrap
<1>3. PICK z \in Nat \ {0} : S = 2 * z /\ S \div 2 = z
  <2>1. PICK K \in Nat \ {0}, h \in Nat \ {0} : K = Manual!Pow2[B] /\ K = 2 * h
    BY WordSizes
  <2>2. S = (K * K) * (K * K)
    BY <1>1, <2>1, WordSizes
  <2>3. PICK y \in Nat \ {0} : y = h * (K * (K * K))
    <3>1. K * (K * K) \in Nat \ {0}
      BY SMT
    <3>2. h * (K * (K * K)) \in Nat \ {0}
      BY <3>1, SMT
    <3> QED
      BY <3>2
  <2>4. S = 2 * y
    BY <2>1, <2>2, <2>3, SMT
  <2> QED
    BY <2>4, SMT
<1>4. Manual!Signed(v) = IF n >= z THEN n - 2 * z ELSE n
  BY <1>1, <1>2, <1>3 DEF Manual!Signed
<1>5. PICK s \in Int : s = Manual!Signed(v) /\ s = IF n >= z THEN n - 2 * z ELSE n
  BY <1>4, SMT
<1>6. PICK m \in Nat : m = Manual!Magnitude(Manual!Signed(v)) /\ m <= z
  BY <1>2, <1>3, <1>5, SMT DEF Manual!Magnitude
<1>7. m < S
  BY <1>3, <1>6, SMT
<1>8. Manual!Wrap(m) = m
  BY <1>1, <1>7, WordsWrap
<1>9. s >= 0 => s = n /\ n < z
  BY <1>2, <1>3, <1>5, SMT
<1> QED
  BY <1>1, <1>2, <1>3, <1>5, <1>6, <1>8, <1>9

(* The high word of the product of signed numbers. *)
LEMMA SignedProduct ==
    ASSUME NEW a \in Manual!Word, NEW b \in Manual!Word
    PROVE  Manual!SignMult(a, b)[1]
             = Manual!Wrap((Manual!Signed(a) * Manual!Signed(b)) \div Manual!Size)
<1>1. PICK S \in Nat \ {0} : S = Manual!Size
  BY WordSizes
<1>2. PICK x \in Int, y \in Int : x = Manual!Signed(a) /\ y = Manual!Signed(b)
  BY SignedWords
<1>3. PICK m \in Nat, n \in Nat : m = Manual!Magnitude(x) /\ n = Manual!Magnitude(y)
  BY <1>2, SignedWords
<1>4. /\ m <= S \div 2 /\ n <= S \div 2
      /\ Manual!Wrap(m) = m /\ Manual!Wrap(n) = n
  BY <1>1, <1>2, <1>3, SignedWords
<1> DEFINE p == Manual!UnsMult(m, n)
<1>5. PICK hi \in Nat, lo \in Nat :
        /\ hi = p[1] /\ lo = p[2] /\ hi < S /\ lo < S
        /\ m * n = S * hi + lo
  <2>1. m < Manual!Size /\ n < Manual!Size /\ ~Manual!Carries(m, n)
    <3>1. m <= Manual!Size \div 2 /\ n <= Manual!Size \div 2
      BY <1>1, <1>4
    <3>2. Manual!Size \div 2 < Manual!Size
      BY <1>1, SMT
    <3> QED
      BY <1>1, <3>1, <3>2, SmallOperands, SMT
  <2>2. PICK h, l \in Nat :
          /\ p = <<h, l>>
          /\ h < Manual!Size /\ l < Manual!Size
          /\ m * n = Manual!Size * h + l
    BY <2>1, LongProduct, Zenon
  <2>3. p[1] = h /\ p[2] = l
    BY <2>2
  <2> QED
    BY <1>1, <2>2, <2>3
<1>6. Manual!SignMult(a, b) = IF (x < 0) # (y < 0) THEN Manual!Negated(p) ELSE p
  BY <1>2, <1>3, <1>4 DEF Manual!SignMult
<1> HIDE DEF p
<1>7. CASE (x < 0) = (y < 0)
  <2>1. x * y = m * n
    <3>1. CASE x < 0
      <4>1. m = -x /\ n = -y
        BY <1>3, <1>7, <3>1, SMT DEF Manual!Magnitude
      <4>2. (-x) * (-y) = x * y
        BY SMT
      <4> QED
        BY <4>1, <4>2
    <3>2. CASE ~(x < 0)
      BY <1>3, <1>7, <3>2, SMT DEF Manual!Magnitude
    <3> QED
      BY <3>1, <3>2
  <2>2. (x * y) \div S = hi
    <3>1. (S * hi + lo) \div S = hi
      <4>1. hi \in Int
        BY SMT
      <4> QED
        BY <1>5, <4>1, DivisionIsUnique, Zenon
    <3> QED
      BY <1>5, <2>1, <3>1
  <2>3. Manual!Wrap(hi) = hi
    BY <1>1, <1>5, WordsWrap
  <2> QED
    BY <1>1, <1>2, <1>5, <1>6, <1>7, <2>2, <2>3
<1>8. CASE (x < 0) # (y < 0)
  <2>1. x * y = -(m * n)
    <3>1. CASE x < 0 /\ ~(y < 0)
      <4>1. m = -x /\ n = y
        BY <1>3, <3>1, SMT DEF Manual!Magnitude
      <4>2. (-x) * y = -(x * y)
        BY SMT
      <4>3. x * y \in Int
        BY SMT
      <4> QED
        BY <4>1, <4>2, <4>3, SMT
    <3>2. CASE ~(x < 0) /\ y < 0
      <4>1. m = x /\ n = -y
        BY <1>3, <3>2, SMT DEF Manual!Magnitude
      <4>2. x * (-y) = -(x * y)
        BY SMT
      <4>3. x * y \in Int
        BY SMT
      <4> QED
        BY <4>1, <4>2, <4>3, SMT
    <3> QED
      BY <1>8, <3>1, <3>2
  <2>2. Manual!SignMult(a, b)[1]
          = Manual!Wrap((S - 1 - hi) + Manual!Flag(lo = 0))
    <3>1. Manual!Negated(p)[1] = Manual!Wrap((Manual!Size - 1 - p[1]) + Manual!Flag(p[2] = 0))
      BY DEF Manual!Negated
    <3> QED
      BY <1>1, <1>5, <1>6, <1>8, <3>1
  <2>3. CASE lo = 0
    <3>1. x * y = S * (-hi) + 0
      <4>1. S * (-hi) = -(S * hi)
        BY SMT
      <4>2. S * hi \in Nat
        BY SMT
      <4> QED
        BY <1>5, <2>1, <2>3, <4>1, <4>2, SMT
    <3>2. (x * y) \div S = -hi
      <4>1. -hi \in Int /\ 0 \in Nat /\ 0 < S
        BY SMT
      <4> QED
        BY <3>1, <4>1, DivisionIsUnique, Zenon
    <3>3. (S - 1 - hi) + Manual!Flag(lo = 0) = S - hi
      BY <2>3, SMT DEF Manual!Flag
    <3>4. (S - hi) % S = (-hi) % S
      <4>1. PICK q \in Int, r \in Nat : -hi = S * q + r /\ r < S /\ r = (-hi) % S
        <5>1. -hi \in Int
          BY SMT
        <5>2. /\ (-hi) \div S \in Int /\ (-hi) % S \in Nat
              /\ (-hi) % S < S
              /\ -hi = S * ((-hi) \div S) + ((-hi) % S)
          BY <5>1, Division, Zenon
        <5> QED
          BY <5>2
      <4>2. S * (q + 1) = S * q + S
        BY SMT
      <4>3. S - hi = S * (q + 1) + r /\ q + 1 \in Int
        BY <4>1, <4>2, SMT
      <4>4. (S * (q + 1) + r) % S = r
        BY <4>1, <4>3, DivisionIsUnique, Zenon
      <4> QED
        BY <4>1, <4>3, <4>4
    <3> QED
      BY <1>1, <1>2, <2>2, <3>2, <3>3, <3>4 DEF Manual!Wrap
  <2>4. CASE lo # 0
    <3>1. x * y = S * (-hi - 1) + (S - lo) /\ S - lo \in Nat /\ S - lo < S /\ -hi - 1 \in Int
      <4>1. S * (-hi - 1) = -(S * hi) - S
        BY SMT
      <4>2. S * hi \in Nat
        BY SMT
      <4> QED
        BY <1>5, <2>1, <2>4, <4>1, <4>2, SMT
    <3>2. (x * y) \div S = -hi - 1
      BY <3>1, DivisionIsUnique, Zenon
    <3>3. (S - 1 - hi) + Manual!Flag(lo = 0) = S - 1 - hi /\ S - 1 - hi \in Nat /\ S - 1 - hi < S
      BY <1>5, <2>4, SMT DEF Manual!Flag
    <3>4. -hi - 1 = S * (-1) + (S - 1 - hi)
      BY SMT
    <3>5. (-hi - 1) % S = S - 1 - hi
      <4>1. -1 \in Int
        BY SMT
      <4>2. PICK r \in Nat : r = S - 1 - hi
        BY <3>3
      <4>3. (S * (-1) + r) % S = r
        BY <3>3, <4>1, <4>2, DivisionIsUnique
      <4> QED
        BY <3>4, <4>2, <4>3
    <3>6. Manual!Wrap(S - 1 - hi) = S - 1 - hi
      BY <1>1, <3>3, WordsWrap
    <3> QED
      BY <1>1, <1>2, <2>2, <3>2, <3>3, <3>5, <3>6 DEF Manual!Wrap
  <2> QED
    BY <2>3, <2>4
<1> QED
  BY <1>7, <1>8

(* A division of numbers that are not negative, and its remainder. *)
LEMMA PlainQuotients ==
    ASSUME NEW a \in Manual!Word, NEW b \in Manual!Word, b # 0
    PROVE  /\ a \div b \in Nat /\ a \div b < Manual!Size
           /\ a - b * (a \div b) = a % b
           /\ a % b \in Nat /\ a % b < Manual!Size
           /\ Manual!Quotient(a, b) = a \div b
<1>1. PICK S \in Nat \ {0} : S = Manual!Size
  BY WordSizes
<1>2. PICK x \in Nat, y \in Nat \ {0} : a = x /\ b = y /\ x < S /\ y < S
  BY <1>1, WordsWrap
<1>3. PICK q \in Nat, r \in Nat : q = x \div y /\ r = x % y /\ r < y /\ x = y * q + r
  <2>1. x \div y \in Nat /\ x \in Int
    BY SMT
  <2> QED
    BY <2>1, Division
<1>4. q < S
  <2>1. q <= y * q
    <3>1. 1 * q <= y * q
      BY ProductsGrow, SMT
    <3> QED
      BY <3>1, SMT
  <2>2. PICK z \in Nat : z = y * q
    BY SMT
  <2> QED
    BY <1>2, <1>3, <2>1, <2>2, SMT
<1>5. x - y * q = r
  <2>1. PICK z \in Nat : z = y * q
    BY SMT
  <2> QED
    BY <1>3, <2>1, SMT
<1>6. Manual!Quotient(x, y) = q
  <2>1. Manual!Magnitude(x) = x /\ Manual!Magnitude(y) = y /\ (x < 0) = (y < 0)
    BY SMT DEF Manual!Magnitude
  <2> QED
    BY <1>3, <2>1 DEF Manual!Quotient
<1>7. r < S
  BY <1>2, <1>3, SMT
<1> QED
  BY <1>1, <1>2, <1>3, <1>4, <1>5, <1>6, <1>7

(* The high word of a product of numbers that are not negative. *)
LEMMA PlainProduct ==
    ASSUME NEW a \in Manual!Word, NEW b \in Manual!Word, ~Manual!Carries(a, b)
    PROVE  /\ Manual!UnsMult(a, b)[1] = (a * b) \div Manual!Size
           /\ Manual!Wrap((a * b) \div Manual!Size) = (a * b) \div Manual!Size
<1>1. PICK S \in Nat \ {0} : S = Manual!Size
  BY WordSizes
<1>2. PICK x \in Nat, y \in Nat : a = x /\ b = y /\ x < S /\ y < S
  BY <1>1, WordsWrap
<1>3. PICK hi \in Nat, lo \in Nat :
        /\ Manual!UnsMult(x, y) = <<hi, lo>>
        /\ hi < S /\ lo < S
        /\ x * y = S * hi + lo
  <2>1. x < Manual!Size /\ y < Manual!Size /\ ~Manual!Carries(x, y)
    BY <1>1, <1>2
  <2>2. PICK h, l \in Nat :
          /\ Manual!UnsMult(x, y) = <<h, l>>
          /\ h < Manual!Size /\ l < Manual!Size
          /\ x * y = Manual!Size * h + l
    BY <2>1, LongProduct, Zenon
  <2> QED
    BY <1>1, <2>2
<1>4. (S * hi + lo) \div S = hi
  <2>1. hi \in Int
    OBVIOUS
  <2> QED
    BY <1>3, <2>1, DivisionIsUnique, Zenon
<1>5. (x * y) \div S = hi
  BY <1>3, <1>4
<1>6. Manual!UnsMult(x, y)[1] = hi
  BY <1>3
<1>7. Manual!Wrap(hi) = hi
  BY <1>1, <1>3, WordsWrap
<1> QED
  BY <1>1, <1>2, <1>5, <1>6, <1>7

(* A shift to the right stays a word. *)
LEMMA ShiftedWord ==
    ASSUME NEW a \in Manual!Word, NEW n \in Nat
    PROVE  Manual!Wrap(a \div Manual!Pow2[n % Manual!w]) = a \div Manual!Pow2[n % Manual!w]
<1>1. PICK S \in Nat \ {0} : S = Manual!Size
  BY WordSizes
<1>2. PICK x \in Nat : a = x /\ x < S
  BY <1>1, WordsWrap
<1>3. PICK k \in Nat : k = n % Manual!w
  <2>1. Manual!w \in Nat \ {0}
    BY WordSizes, SMT DEF Manual!w
  <2>2. n \in Int
    OBVIOUS
  <2> QED
    BY <2>1, <2>2, Division
<1>4. PICK p \in Nat \ {0} : p = Manual!Pow2[k]
  BY Pow2IsNat
<1>5. PICK q \in Nat, r \in Nat : q = x \div p /\ x = p * q + r
  <2>1. x \div p \in Nat /\ x \in Int
    BY SMT
  <2> QED
    BY <2>1, Division
<1>6. q < S
  <2>1. 1 * q <= p * q
    BY ProductsGrow, SMT
  <2>2. PICK z \in Nat : z = p * q
    BY SMT
  <2> QED
    BY <1>2, <1>5, <2>1, <2>2, SMT
<1> QED
  BY <1>1, <1>2, <1>3, <1>4, <1>5, <1>6, WordsWrap

(* Even addresses stay even when they are taken modulo the size. *)
LEMMA EvenAddress ==
    ASSUME NEW n \in Int, n % 2 = 0
    PROVE  Manual!Wrap(n) % 4 = 0 \/ Manual!Wrap(n) % 4 = 2
<1>1. PICK S \in Nat \ {0} : S = Manual!Size
  BY WordSizes
<1>2. PICK z \in Nat : S = 2 * z
  <2>1. PICK K \in Nat \ {0}, h \in Nat \ {0} : K = Manual!Pow2[B] /\ K = 2 * h
    BY WordSizes
  <2>2. S = (K * K) * (K * K)
    BY <1>1, <2>1, WordSizes
  <2>3. PICK t \in Nat : t = h * (K * (K * K))
    <3>1. PICK u \in Nat : u = K * (K * K)
      BY SMT
    <3>2. h * u \in Nat
      BY SMT
    <3> QED
      BY <3>1, <3>2
  <2>4. S = 2 * t
    BY <2>1, <2>2, <2>3, SMT
  <2> QED
    BY <2>4
<1>3. PICK q \in Int, r \in Nat : r = n % S /\ n = S * q + r
  BY Division
<1>4. PICK t \in Int : t = z * q
  BY SMT
<1>5. S * q = 2 * t
  BY <1>2, <1>4, SMT
<1>6. r % 2 = 0
  BY <1>3, <1>5, SMT
<1>7. r % 4 = 0 \/ r % 4 = 2
  BY <1>6, SMT
<1> QED
  BY <1>1, <1>3, <1>7 DEF Manual!Wrap

LEMMA Places ==
    ASSUME NEW n \in Int
    PROVE  Manual!Wrap(n) % 4 \in 0 .. 3
<1>1. PICK m \in Nat : m = Manual!Wrap(n)
  BY WordsWrap
<1> QED
  BY <1>1, SMT

(* And bit by bit: the sum of the lowest bits, one more at each step. *)
LEMMA AndRecursive ==
    ASSUME NEW a \in Nat, NEW b \in Nat
    PROVE  \E f \in Functions(Nat) :
             /\ f[0] = 0
             /\ \A n \in Nat : f[n + 1] = f[n]
                    + Manual!Pow2[n] * (Manual!Bit(a, n) * Manual!Bit(b, n))
             /\ Manual!And(a, b) = f[Manual!w]
<1> DEFINE bit == [n \in Nat |-> Manual!Pow2[n] * (Manual!Bit(a, n) * Manual!Bit(b, n))]
           Step == [k \in Nat |-> [x \in Nat |-> x + bit[k]]]
           lowest == CHOOSE f : f = [k \in Nat |-> IF k = 0 THEN 0
                         ELSE f[k - 1] + Manual!Pow2[k - 1]
                                * (Manual!Bit(a, k - 1) * Manual!Bit(b, k - 1))]
<1>1. ASSUME NEW n \in Nat
      PROVE  Manual!Bit(a, n) \in Nat /\ Manual!Bit(b, n) \in Nat
  <2>1. PICK p \in Nat \ {0} : p = Manual!Pow2[n]
    BY Pow2IsNat
  <2>2. a \div p \in Nat /\ b \div p \in Nat
    BY SMT
  <2>3. (a \div p) % 2 \in Nat /\ (b \div p) % 2 \in Nat
    BY <2>2, SMT
  <2> QED
    BY <2>1, <2>3 DEF Manual!Bit
<1>2. ASSUME NEW n \in Nat
      PROVE  /\ bit[n] = Manual!Pow2[n] * (Manual!Bit(a, n) * Manual!Bit(b, n))
             /\ bit[n] \in Nat
  <2>1. PICK p \in Nat, x \in Nat, y \in Nat :
          p = Manual!Pow2[n] /\ x = Manual!Bit(a, n) /\ y = Manual!Bit(b, n)
    BY <1>1, Pow2IsNat
  <2>2. p * (x * y) \in Nat
    BY SMT
  <2> QED
    BY <2>1, <2>2
<1> HIDE DEF bit
<1>3. \A n \in Nat : \A x \in Nat : Step[n][x] = x + bit[n]
  OBVIOUS
<1>4. ASSUME NEW n \in Nat, NEW x \in Nat
      PROVE  Step[n][x] \in Nat
  <2>1. PICK y \in Nat : y = bit[n]
    BY <1>2
  <2>2. x + y \in Nat
    OBVIOUS
  <2> QED
    BY <1>3, <2>1, <2>2
<1>5. Step \in Steps(Nat)
  BY <1>4 DEF Steps
<1> HIDE DEF Step
<1>7. PICK f \in Functions(Nat) : IsRecursive(f, 0, Step)
  <2>1. 0 \in Nat
    OBVIOUS
  <2> QED
    BY <1>5, <2>1, FunctionExists, Zenon
<1>8. f[0] = 0 /\ \A n \in Nat : f[n] \in Nat /\ f[n + 1] = f[n] + bit[n]
  <2>1. f \in [Nat -> Nat]
    BY <1>7 DEF Functions
  <2>2. f[0] = 0 /\ \A n \in Nat : f[n + 1] = Step[n][f[n]]
    BY <1>7, Zenon DEF IsRecursive
  <2> QED
    BY <1>3, <2>1, <2>2
<1>9. ASSUME NEW k \in Nat
      PROVE  f[k] = IF k = 0 THEN 0
                    ELSE f[k - 1] + Manual!Pow2[k - 1]
                           * (Manual!Bit(a, k - 1) * Manual!Bit(b, k - 1))
  <2>1. CASE k = 0
    BY <1>8, <2>1
  <2>2. CASE k # 0
    <3>1. k - 1 \in Nat /\ (k - 1) + 1 = k
      BY <2>2
    <3> QED
      BY <1>2, <1>8, <2>2, <3>1
  <2> QED
    BY <2>1, <2>2
<1>10. f = [k \in Nat |-> IF k = 0 THEN 0
                         ELSE f[k - 1] + Manual!Pow2[k - 1]
                                * (Manual!Bit(a, k - 1) * Manual!Bit(b, k - 1))]
  BY <1>7, <1>9, Zenon DEF Functions
<1>11. lowest = [k \in Nat |-> IF k = 0 THEN 0
                         ELSE lowest[k - 1] + Manual!Pow2[k - 1]
                                * (Manual!Bit(a, k - 1) * Manual!Bit(b, k - 1))]
  BY <1>10
<1>12. Manual!And(a, b) = lowest[Manual!w]
  BY DEF Manual!And
<1> HIDE DEF lowest
<1>13. \A k \in Nat : lowest[k] = IF k = 0 THEN 0
                         ELSE lowest[k - 1] + Manual!Pow2[k - 1]
                                * (Manual!Bit(a, k - 1) * Manual!Bit(b, k - 1))
  BY <1>11
<1>14. ASSUME NEW n \in Nat
       PROVE  lowest[n + 1] = lowest[n] + Manual!Pow2[n]
                                * (Manual!Bit(a, n) * Manual!Bit(b, n))
  <2>1. n + 1 \in Nat /\ n + 1 # 0 /\ (n + 1) - 1 = n
    OBVIOUS
  <2> QED
    BY <1>13, <2>1
<1>15. lowest[0] = 0
  BY <1>13
<1>16. Nat \subseteq {n \in Nat : lowest[n] \in Nat}
  <2> DEFINE T == {n \in Nat : lowest[n] \in Nat}
  <2>1. 0 \in T
    BY <1>15
  <2>2. ASSUME NEW n \in Nat, n \in T
        PROVE  n + 1 \in T
    <3>1. PICK x \in Nat : x = bit[n]
      BY <1>2
    <3>2. lowest[n + 1] = lowest[n] + x
      BY <1>2, <1>14, <3>1
    <3> QED
      BY <2>2, <3>2
  <2> HIDE DEF T
  <2>3. Nat \subseteq T
    BY <2>1, <2>2, Induction
  <2> QED
    BY <2>3 DEF T
<1>17. lowest \in Functions(Nat)
  BY <1>11, <1>16 DEF Functions
<1> QED
  BY <1>12, <1>14, <1>15, <1>17

(* The greatest word has every bit. *)
LEMMA AllOnes ==
    ASSUME NEW n \in Nat, n + 1 <= Manual!w
    PROVE  Manual!Bit(Manual!Size - 1, n) = 1
<1>1. PICK bits \in Nat : bits = Manual!w
  BY WordSizes, SMT DEF Manual!w
<1>2. PICK m \in Nat : bits = n + (m + 1)
  <2>1. bits - n - 1 \in Nat /\ bits = n + ((bits - n - 1) + 1)
    BY <1>1, SMT
  <2> QED
    BY <2>1
<1>3. PICK p \in Nat \ {0}, q \in Nat \ {0} : p = Manual!Pow2[n] /\ q = Manual!Pow2[m]
  BY Pow2IsNat
<1>4. Manual!Size = p * (2 * q)
  <2>1. m + 1 \in Nat
    OBVIOUS
  <2>2. Manual!Pow2[n + (m + 1)] = Manual!Pow2[n] * Manual!Pow2[m + 1]
    BY <2>1, Pow2Sum
  <2>3. Manual!Pow2[m + 1] = 2 * Manual!Pow2[m]
    BY Pow2Recursive
  <2> QED
    BY <1>1, <1>2, <1>3, <2>2, <2>3 DEF Manual!Size
<1>5. p * (2 * q) - 1 = p * (2 * q - 1) + (p - 1)
  <2>1. p * (2 * q - 1) = p * (2 * q) - p
    BY SMT
  <2>2. PICK z \in Nat : z = p * (2 * q)
    BY SMT
  <2> QED
    BY <2>1, <2>2, SMT
<1>6. (p * (2 * q - 1) + (p - 1)) \div p = 2 * q - 1
  <2>1. PICK t \in Int, r \in Nat : t = 2 * q - 1 /\ r = p - 1 /\ r < p
    BY SMT
  <2>2. (p * t + r) \div p = t
    BY <2>1, DivisionIsUnique
  <2> QED
    BY <2>1, <2>2
<1>7. (2 * q - 1) % 2 = 1
  BY SMT
<1> QED
  BY <1>3, <1>4, <1>5, <1>6, <1>7 DEF Manual!Bit

(* To mask a word with it changes nothing. *)
LEMMA AndAllOnes ==
    ASSUME NEW v \in Manual!Word
    PROVE  Manual!And(v, Manual!Size - 1) = v
<1>1. PICK V \in Nat, M \in Nat :
        v = V /\ M = Manual!Size - 1 /\ V < Manual!Size
  BY WordSizes, WordsWrap, SMT
<1>2. PICK f \in Functions(Nat) :
        /\ f[0] = 0
        /\ \A n \in Nat : f[n + 1] = f[n]
               + Manual!Pow2[n] * (Manual!Bit(V, n) * Manual!Bit(M, n))
        /\ Manual!And(V, M) = f[Manual!w]
  BY AndRecursive
<1> DEFINE T == {n \in Nat : n <= Manual!w => f[n] = V % Manual!Pow2[n]}
<1>3. 0 \in T
  <2>1. V % 1 = 0
    BY SMT
  <2> QED
    BY <1>2, <2>1, Pow2Recursive
<1>4. ASSUME NEW n \in Nat, n \in T
      PROVE  n + 1 \in T
  <2> SUFFICES ASSUME n + 1 <= Manual!w
               PROVE  f[n + 1] = V % Manual!Pow2[n + 1]
    OBVIOUS
  <2>1. Manual!w \in Nat
    BY WordSizes, SMT DEF Manual!w
  <2>2. n <= Manual!w
    BY <2>1, SMT
  <2>3. PICK p \in Nat \ {0} : p = Manual!Pow2[n]
    BY Pow2IsNat
  <2>4. Manual!Bit(M, n) = 1
    BY <1>1, AllOnes
  <2>5. PICK x \in Nat : x = (V \div p) % 2
    <3>1. V \div p \in Nat
      BY SMT
    <3>2. (V \div p) % 2 \in Nat
      BY <3>1, SMT
    <3> QED
      BY <3>2
  <2>6. Manual!Bit(V, n) = x
    BY <2>3, <2>5 DEF Manual!Bit
  <2>7. f[n] = V % p
    BY <1>4, <2>2, <2>3
  <2>8. f[n + 1] = (V % p) + p * (x * 1)
    BY <1>2, <2>3, <2>4, <2>6, <2>7
  <2>9. V % (p * 2) = (V % p) + p * x
    <3>1. 2 \in Nat \ {0}
      BY SMT
    <3>2. V % (p * 2) = (V % p) + p * ((V \div p) % 2)
      BY <3>1, DivisionTwice, ZenonT(40)
    <3> QED
      BY <2>5, <3>2
  <2>10. Manual!Pow2[n + 1] = p * 2
    BY <2>3, Pow2Recursive, SMT
  <2>11. x * 1 = x
    BY SMT
  <2> QED
    BY <2>8, <2>9, <2>10, <2>11
<1> HIDE DEF T
<1>5. Nat \subseteq T
  BY <1>3, <1>4, Induction
<1>6. f[Manual!w] = V % Manual!Size
  <2>1. Manual!w \in Nat /\ Manual!w <= Manual!w
    BY WordSizes, SMT DEF Manual!w
  <2> QED
    BY <1>5, <2>1 DEF T, Manual!Size
<1>7. V % Manual!Size = V
  BY <1>1, WordsWrap DEF Manual!Wrap
<1> QED
  BY <1>1, <1>2, <1>6, <1>7

----------------------------------------------------------------------------
(* What instructions do. *)

(* What the manual says an instruction does, by opcode. *)
LEMMA EffectsByOpcode ==
    ASSUME NEW i, NEW rs, NEW c, NEW pc, Manual!Name(i) # "illegal"
    PROVE  /\ i.op = 51 => Manual!Effect(i, rs, c, pc) =
                <<Manual!Set(rs, i.rd, Manual!Value(Manual!Name(i), rs[i.rs1], rs[i.rs2])),
                  c, pc + 4, "none">>
           /\ i.op = 19 => Manual!Effect(i, rs, c, pc) =
                <<Manual!Set(rs, i.rd, Manual!Value(Manual!Name(i), rs[i.rs1], Manual!Last(i))),
                  c, pc + 4, "none">>
           /\ i.op = 3 => Manual!Effect(i, rs, c, pc) =
                <<Manual!Set(rs, i.rd, Manual!Loaded(Manual!Name(i), c,
                      Manual!Wrap(rs[i.rs1] + Manual!IImm(i)) % 4)),
                  c, pc + 4, "none">>
           /\ i.op = 35 => Manual!Effect(i, rs, c, pc) =
                <<rs, Manual!Stored(Manual!Name(i), c,
                          Manual!Wrap(rs[i.rs1] + Manual!SImm(i)) % 4, rs[i.rs2]),
                  pc + 4, "none">>
           /\ i.op = 99 => Manual!Effect(i, rs, c, pc) =
                <<rs, c, IF Manual!Taken(Manual!Name(i), rs[i.rs1], rs[i.rs2])
                         THEN pc + Manual!BImm(i) ELSE pc + 4, "none">>
           /\ i.op = 111 => Manual!Effect(i, rs, c, pc) =
                <<Manual!Set(rs, i.rd, Manual!Wrap(pc + 4)), c, pc + Manual!JImm(i), "none">>
           /\ i.op = 103 => Manual!Effect(i, rs, c, pc) =
                <<Manual!Set(rs, i.rd, Manual!Wrap(pc + 4)), c,
                  2 * (Manual!Wrap(rs[i.rs1] + Manual!IImm(i)) \div 2), "none">>
           /\ i.op = 55 => Manual!Effect(i, rs, c, pc) =
                <<Manual!Set(rs, i.rd,
                      Manual!Wrap(Manual!Upper(i) * Manual!Pow2[UShift])),
                  c, pc + 4, "none">>
           /\ i.op = 47 => Manual!Effect(i, rs, c, pc) =
                <<Manual!Set(rs, i.rd, c), rs[i.rs2], pc + 4, "none">>
           /\ i.op = 115 /\ i.f3 # 0 => Manual!Effect(i, rs, c, pc) =
                <<Manual!Set(rs, i.rd, c),
                  Manual!CsrValue(Manual!Name(i), c,
                      IF i.f3 < 4 THEN rs[i.rs1] ELSE i.rs1),
                  pc + 4, "none">>
<1> USE DEF Manual!LOAD, Manual!FENCE, Manual!OP_IMM, Manual!AUIPC, Manual!STORE,
           Manual!AMO, Manual!OP, Manual!LUI, Manual!BRANCH, Manual!JALR, Manual!JAL,
           Manual!SYSTEM
<1>1. ASSUME i.op = 51
      PROVE  Manual!Effect(i, rs, c, pc) =
                 <<Manual!Set(rs, i.rd, Manual!Value(Manual!Name(i), rs[i.rs1], rs[i.rs2])),
                   c, pc + 4, "none">>
  BY <1>1, SMTT(40) DEF Manual!Effect
<1>2. ASSUME i.op = 19
      PROVE  Manual!Effect(i, rs, c, pc) =
                 <<Manual!Set(rs, i.rd, Manual!Value(Manual!Name(i), rs[i.rs1], Manual!Last(i))),
                   c, pc + 4, "none">>
  BY <1>2, SMTT(40) DEF Manual!Effect
<1>3. ASSUME i.op = 3
      PROVE  Manual!Effect(i, rs, c, pc) =
                 <<Manual!Set(rs, i.rd, Manual!Loaded(Manual!Name(i), c,
                       Manual!Wrap(rs[i.rs1] + Manual!IImm(i)) % 4)),
                   c, pc + 4, "none">>
  BY <1>3, SMTT(40) DEF Manual!Effect
<1>4. ASSUME i.op = 35
      PROVE  Manual!Effect(i, rs, c, pc) =
                 <<rs, Manual!Stored(Manual!Name(i), c,
                           Manual!Wrap(rs[i.rs1] + Manual!SImm(i)) % 4, rs[i.rs2]),
                   pc + 4, "none">>
  BY <1>4, SMTT(40) DEF Manual!Effect
<1>5. ASSUME i.op = 99
      PROVE  Manual!Effect(i, rs, c, pc) =
                 <<rs, c, IF Manual!Taken(Manual!Name(i), rs[i.rs1], rs[i.rs2])
                          THEN pc + Manual!BImm(i) ELSE pc + 4, "none">>
  BY <1>5, SMTT(40) DEF Manual!Effect
<1>6. ASSUME i.op = 111
      PROVE  Manual!Effect(i, rs, c, pc) =
                 <<Manual!Set(rs, i.rd, Manual!Wrap(pc + 4)), c, pc + Manual!JImm(i), "none">>
  BY <1>6, SMTT(40) DEF Manual!Effect
<1>7. ASSUME i.op = 103
      PROVE  Manual!Effect(i, rs, c, pc) =
                 <<Manual!Set(rs, i.rd, Manual!Wrap(pc + 4)), c,
                   2 * (Manual!Wrap(rs[i.rs1] + Manual!IImm(i)) \div 2), "none">>
  BY <1>7, SMTT(40) DEF Manual!Effect
<1>8. ASSUME i.op = 55
      PROVE  Manual!Effect(i, rs, c, pc) =
                 <<Manual!Set(rs, i.rd,
                       Manual!Wrap(Manual!Upper(i) * Manual!Pow2[UShift])),
                   c, pc + 4, "none">>
  BY <1>8, SMTT(40) DEF Manual!Effect
<1>9. ASSUME i.op = 47
      PROVE  Manual!Effect(i, rs, c, pc) =
                 <<Manual!Set(rs, i.rd, c), rs[i.rs2], pc + 4, "none">>
  BY <1>9, SMTT(40) DEF Manual!Effect
<1>10. ASSUME i.op = 115 /\ i.f3 # 0
      PROVE  Manual!Effect(i, rs, c, pc) =
                 <<Manual!Set(rs, i.rd, c),
                   Manual!CsrValue(Manual!Name(i), c,
                       IF i.f3 < 4 THEN rs[i.rs1] ELSE i.rs1),
                   pc + 4, "none">>
  BY <1>10, SMTT(40) DEF Manual!Effect
<1> QED
  BY <1>1, <1>2, <1>3, <1>4, <1>5, <1>6, <1>7, <1>8, <1>9, <1>10, Zenon

LEMMA NoEffect ==
    ASSUME NEW i, NEW rs, NEW c, NEW pc, Manual!Name(i) = "illegal"
    PROVE  Manual!Effect(i, rs, c, pc) = <<rs, c, pc, "illegal">>
  BY DEF Manual!Effect

(* What the manual computes, by name. *)
LEMMA ValuesByName ==
    ASSUME NEW a, NEW b
    PROVE  /\ Manual!Value("add", a, b)  = Manual!Wrap(a + b)
           /\ Manual!Value("addi", a, b) = Manual!Wrap(a + b)
           /\ Manual!Value("sub", a, b)  = Manual!Wrap(a - b)
           /\ Manual!Value("sll", a, b)  = Manual!Wrap(a * Manual!Pow2[b % Manual!w])
           /\ Manual!Value("slli", a, b) = Manual!Wrap(a * Manual!Pow2[b % Manual!w])
           /\ Manual!Value("srl", a, b)  = a \div Manual!Pow2[b % Manual!w]
           /\ Manual!Value("srli", a, b) = a \div Manual!Pow2[b % Manual!w]
           /\ Manual!Value("sra", a, b)
                = Manual!Wrap(Manual!Signed(a) \div Manual!Pow2[b % Manual!w])
           /\ Manual!Value("srai", a, b)
                = Manual!Wrap(Manual!Signed(a) \div Manual!Pow2[b % Manual!w])
           /\ Manual!Value("slt", a, b)
                = Manual!Flag(Manual!Signed(a) < Manual!Signed(b))
           /\ Manual!Value("slti", a, b)
                = Manual!Flag(Manual!Signed(a) < Manual!Signed(b))
           /\ Manual!Value("sltu", a, b)  = Manual!Flag(a < b)
           /\ Manual!Value("sltiu", a, b) = Manual!Flag(a < b)
           /\ Manual!Value("xor", a, b)  = Manual!Xor(a, b)
           /\ Manual!Value("xori", a, b) = Manual!Xor(a, b)
           /\ Manual!Value("or", a, b)   = Manual!Or(a, b)
           /\ Manual!Value("ori", a, b)  = Manual!Or(a, b)
           /\ Manual!Value("and", a, b)  = Manual!And(a, b)
           /\ Manual!Value("andi", a, b) = Manual!And(a, b)
<1>1. /\ Manual!Value("add", a, b)  = Manual!Wrap(a + b)
      /\ Manual!Value("addi", a, b) = Manual!Wrap(a + b)
      /\ Manual!Value("sub", a, b)  = Manual!Wrap(a - b)
      /\ Manual!Value("sll", a, b)  = Manual!Wrap(a * Manual!Pow2[b % Manual!w])
      /\ Manual!Value("slli", a, b) = Manual!Wrap(a * Manual!Pow2[b % Manual!w])
  BY SMTT(40) DEF Manual!Value
<1>2. /\ Manual!Value("srl", a, b)  = a \div Manual!Pow2[b % Manual!w]
      /\ Manual!Value("srli", a, b) = a \div Manual!Pow2[b % Manual!w]
      /\ Manual!Value("sra", a, b)
           = Manual!Wrap(Manual!Signed(a) \div Manual!Pow2[b % Manual!w])
      /\ Manual!Value("srai", a, b)
           = Manual!Wrap(Manual!Signed(a) \div Manual!Pow2[b % Manual!w])
  BY SMTT(40) DEF Manual!Value
<1>3. /\ Manual!Value("slt", a, b)
           = Manual!Flag(Manual!Signed(a) < Manual!Signed(b))
      /\ Manual!Value("slti", a, b)
           = Manual!Flag(Manual!Signed(a) < Manual!Signed(b))
      /\ Manual!Value("sltu", a, b)  = Manual!Flag(a < b)
      /\ Manual!Value("sltiu", a, b) = Manual!Flag(a < b)
  BY SMTT(40) DEF Manual!Value
<1>4. /\ Manual!Value("xor", a, b)  = Manual!Xor(a, b)
      /\ Manual!Value("xori", a, b) = Manual!Xor(a, b)
      /\ Manual!Value("or", a, b)   = Manual!Or(a, b)
      /\ Manual!Value("ori", a, b)  = Manual!Or(a, b)
      /\ Manual!Value("and", a, b)  = Manual!And(a, b)
      /\ Manual!Value("andi", a, b) = Manual!And(a, b)
  BY SMTT(40) DEF Manual!Value
<1> QED
  BY <1>1, <1>2, <1>3, <1>4, Zenon

LEMMA ProductsByName ==
    ASSUME NEW a, NEW b
    PROVE  /\ Manual!Value("mul", a, b) = Manual!Wrap(a * b)
           /\ Manual!Value("mulh", a, b)
                = Manual!Wrap((Manual!Signed(a) * Manual!Signed(b)) \div Manual!Size)
           /\ Manual!Value("mulhsu", a, b)
                = Manual!Wrap((Manual!Signed(a) * b) \div Manual!Size)
           /\ Manual!Value("mulhu", a, b) = (a * b) \div Manual!Size
           /\ Manual!Value("div", a, b) = IF b = 0 THEN Manual!Size - 1
                ELSE Manual!Wrap(Manual!Quotient(Manual!Signed(a), Manual!Signed(b)))
           /\ Manual!Value("divu", a, b) = IF b = 0 THEN Manual!Size - 1 ELSE a \div b
           /\ Manual!Value("rem", a, b) = IF b = 0 THEN a
                ELSE Manual!Wrap(Manual!Signed(a) - Manual!Signed(b)
                         * Manual!Quotient(Manual!Signed(a), Manual!Signed(b)))
           /\ Manual!Value("remu", a, b) = IF b = 0 THEN a ELSE a % b
<1>1. /\ Manual!Value("mul", a, b) = Manual!Wrap(a * b)
      /\ Manual!Value("mulh", a, b)
           = Manual!Wrap((Manual!Signed(a) * Manual!Signed(b)) \div Manual!Size)
      /\ Manual!Value("mulhsu", a, b)
           = Manual!Wrap((Manual!Signed(a) * b) \div Manual!Size)
      /\ Manual!Value("mulhu", a, b) = (a * b) \div Manual!Size
  BY SMTT(40) DEF Manual!Value
<1>2. /\ Manual!Value("div", a, b) = IF b = 0 THEN Manual!Size - 1
           ELSE Manual!Wrap(Manual!Quotient(Manual!Signed(a), Manual!Signed(b)))
      /\ Manual!Value("divu", a, b) = IF b = 0 THEN Manual!Size - 1 ELSE a \div b
      /\ Manual!Value("rem", a, b) = IF b = 0 THEN a
           ELSE Manual!Wrap(Manual!Signed(a) - Manual!Signed(b)
                    * Manual!Quotient(Manual!Signed(a), Manual!Signed(b)))
      /\ Manual!Value("remu", a, b) = IF b = 0 THEN a ELSE a % b
  BY SMTT(40) DEF Manual!Value
<1> QED
  BY <1>1, <1>2, Zenon

(* An instruction and what it finds. *)
ProgramReady ==
    /\ Executable(instr)
    /\ gpr \in [Regs -> Manual!Word] /\ gpr[0] = 0
    /\ cell \in Manual!Word
    /\ works \in BOOLEAN
    /\ counter \in Nat

(* The step that RunsTheManual asks for. *)
AsTheManual ==
    <<gpr', cell', counter', exc'>> =
        IF instr.op \in {Manual!LOAD, Manual!STORE} /\ Manual!Name(instr) # "illegal" /\ ~works
        THEN <<gpr, cell, counter, "access">>
        ELSE Manual!Effect(instr, gpr, cell, counter)

LEMMA Operands ==
    ASSUME ProgramReady, NEW r \in Regs
    PROVE  Manual!RegRead(r) = gpr[r] /\ gpr[r] \in Manual!Word
  BY DEF ProgramReady, Manual!RegRead

(* What it means not to deviate. *)
LEMMA Complies ==
    ASSUME ~Manual!Deviates, NEW a, a = Manual!RegRead(instr.rs1),
           NEW b, b = Manual!RegRead(instr.rs2)
    PROVE  /\ Manual!Name(instr) = "illegal" => instr.op \notin {51, 47, 19, 103}
           /\ Manual!Name(instr) \notin {"fence", "auipc", "lh", "csrrwi"}
           /\ Manual!Name(instr) \in {"div", "divu", "rem", "remu"}
                => b # 0 /\ ~(Manual!Signed(a) < 0) /\ ~(Manual!Signed(b) < 0)
           /\ Manual!Name(instr) = "mulhsu" => ~(Manual!Signed(a) < 0)
           /\ Manual!Name(instr) \in {"mulhu", "mulhsu"}
                => ~Manual!Carries(a, b)
           /\ Manual!Name(instr) \in {"sra", "srai"} => ~(Manual!Signed(a) < 0)
           /\ Manual!Name(instr) = "lhu" => (a + Manual!IImm(instr)) % 2 # 1
           /\ Manual!Name(instr) = "sh"  => (a + Manual!SImm(instr)) % 2 # 1
           /\ instr.op = 99 => Manual!Fits(Manual!BImm(instr), 2048)
           /\ Manual!Name(instr) = "jal" => Manual!Fits(Manual!JImm(instr), 524288)
           /\ Manual!Name(instr) \in {"jalr", "csrrw", "csrrs", "csrrc"}
                => ~(instr.rd = instr.rs1 /\ instr.rd # 0)
           /\ Manual!Name(instr) = "csrrw" => instr.rs1 # 0
           /\ Manual!Name(instr) = "amoswap" => works
  BY SMT DEF Manual!Deviates, Manual!Aliased, Manual!OP, Manual!AMO, Manual!OP_IMM,
         Manual!JALR, Manual!BRANCH

LEMMA Ends ==
    ASSUME NEW rs
    PROVE  /\ Manual!Continues(rs) => gpr' = rs /\ counter' = counter + 4 /\ exc' = "none"
           /\ \A to : Manual!Goes(rs, to) => gpr' = rs /\ counter' = to /\ exc' = "none"
           /\ \A cause : Manual!Traps(cause)
                => gpr' = gpr /\ cell' = cell /\ counter' = counter /\ exc' = cause
           /\ \A r, v : Manual!Written(rs, r, v) = Manual!Set(rs, r, v)
  BY DEF Manual!Continues, Manual!Goes, Manual!Traps, Manual!WORDLEN, Manual!Written,
         Manual!Set

(* A step without a bus. *)
LEMMA Elsewhere ==
    ASSUME instr.op \notin {3, 35},
           <<gpr', cell', counter', exc'>> = Manual!Effect(instr, gpr, cell, counter)
    PROVE  AsTheManual
  BY DEF AsTheManual, Manual!LOAD, Manual!STORE

LEMMA Undecoded ==
    ASSUME NEW cause, cause = "illegal", Manual!Traps(cause), Manual!Name(instr) = "illegal"
    PROVE  AsTheManual
  BY NoEffect, Ends DEF AsTheManual

(* The name of an instruction on two registers, by its codes. *)
LEMMA RegisterNames ==
    ASSUME NEW i, i.op = 51, NEW f3 \in Nat, NEW f7 \in Nat, i.f3 = f3, i.f7 = f7
    PROVE  /\ f3 = 0 /\ f7 = 0  => Manual!Name(i) = "add"
           /\ f3 = 0 /\ f7 = 32 => Manual!Name(i) = "sub"
           /\ f3 = 1 /\ f7 = 0  => Manual!Name(i) = "sll"
           /\ f3 = 2 /\ f7 = 0  => Manual!Name(i) = "slt"
           /\ f3 = 3 /\ f7 = 0  => Manual!Name(i) = "sltu"
           /\ f3 = 4 /\ f7 = 0  => Manual!Name(i) = "xor"
           /\ f3 = 5 /\ f7 = 0  => Manual!Name(i) = "srl"
           /\ f3 = 5 /\ f7 = 32 => Manual!Name(i) = "sra"
           /\ f3 = 6 /\ f7 = 0  => Manual!Name(i) = "or"
           /\ f3 = 7 /\ f7 = 0  => Manual!Name(i) = "and"
           /\ f3 = 0 /\ f7 = 1  => Manual!Name(i) = "mul"
           /\ f3 = 1 /\ f7 = 1  => Manual!Name(i) = "mulh"
           /\ f3 = 2 /\ f7 = 1  => Manual!Name(i) = "mulhsu"
           /\ f3 = 3 /\ f7 = 1  => Manual!Name(i) = "mulhu"
           /\ f3 = 4 /\ f7 = 1  => Manual!Name(i) = "div"
           /\ f3 = 5 /\ f7 = 1  => Manual!Name(i) = "divu"
           /\ f3 = 6 /\ f7 = 1  => Manual!Name(i) = "rem"
           /\ f3 = 7 /\ f7 = 1  => Manual!Name(i) = "remu"
           /\ f3 = 2 /\ f7 \in 4 .. 7 => Manual!Name(i) = "illegal"
<1>1. Manual!Name(i) = Manual!OpName(i)
  BY NamesByOpcode
<1>2. f7 = 0 => Manual!OpName(i) = Manual!Nth(Manual!OpNames, f3)
  BY SMT DEF Manual!OpName
<1>3. f7 = 1 => Manual!OpName(i) = Manual!Nth(Manual!MulNames, f3)
  BY SMT DEF Manual!OpName
<1>4. /\ f3 = 0 /\ f7 = 32 => Manual!OpName(i) = "sub"
      /\ f3 = 5 /\ f7 = 32 => Manual!OpName(i) = "sra"
      /\ f3 = 2 /\ f7 \in 4 .. 7 => Manual!OpName(i) = "illegal"
  BY SMT DEF Manual!OpName
<1> QED
  BY <1>1, <1>2, <1>3, <1>4, ManualTables, SMTT(40)

(* What the code computes of two registers, when it does not deviate. *)
LEMMA RegistersAgree ==
    ASSUME ProgramReady, ~Manual!Deviates, instr.op = 51,
           <<instr.f3, instr.f7>> \in Manual!RCodes,
           NEW a \in Manual!Word, a = Manual!RegRead(instr.rs1),
           NEW b \in Manual!Word, b = Manual!RegRead(instr.rs2)
    PROVE  Manual!RResult(instr.f3, instr.f7, a, b) = Manual!Value(Manual!Name(instr), a, b)
<1>1. PICK f3 \in Nat, f7 \in Nat : instr.f3 = f3 /\ instr.f7 = f7
  BY FieldsAreNumbers DEF ProgramReady, Executable
<1>2. CASE f3 = 0 /\ f7 = 0
  BY <1>1, <1>2, RegisterNames, ValuesByName, SMT DEF Manual!RResult
<1>3. CASE f3 = 0 /\ f7 = 32
  BY <1>1, <1>3, RegisterNames, ValuesByName, SMT DEF Manual!RResult
<1>4. CASE f3 = 0 /\ f7 = 1
  BY <1>1, <1>4, RegisterNames, ProductsByName, SMT DEF Manual!RResult
<1>5. CASE f3 = 1 /\ f7 = 0
  BY <1>1, <1>5, RegisterNames, ValuesByName, SMT DEF Manual!RResult, Manual!ShiftLeft
<1>6. CASE f3 = 1 /\ f7 = 1
  <2>1. Manual!RResult(f3, f7, a, b) = Manual!SignMult(a, b)[1]
    BY <1>6, SMT DEF Manual!RResult
  <2>2. Manual!Name(instr) = "mulh"
    BY <1>1, <1>6, RegisterNames
  <2> QED
    BY <1>1, <2>1, <2>2, ProductsByName, SignedProduct
<1>7. CASE f3 = 2 /\ f7 = 0
  BY <1>1, <1>7, RegisterNames, ValuesByName, SMT DEF Manual!RResult
<1>8. CASE f3 = 2 /\ f7 = 1
  <2>1. Manual!RResult(f3, f7, a, b) = Manual!UnsMult(a, b)[1]
    BY <1>8, SMT DEF Manual!RResult, Manual!UnsSignMult
  <2>2. Manual!Name(instr) = "mulhsu"
    BY <1>1, <1>8, RegisterNames
  <2>3. ~(Manual!Signed(a) < 0) /\ ~Manual!Carries(a, b)
    BY <2>2, Complies
  <2>4. Manual!Signed(a) = a
    BY <2>3, SignedWords, SMT
  <2> QED
    BY <1>1, <2>1, <2>2, <2>3, <2>4, ProductsByName, PlainProduct
<1>9. CASE f3 = 3 /\ f7 = 0
  BY <1>1, <1>9, RegisterNames, ValuesByName, SMT DEF Manual!RResult
<1>10. CASE f3 = 3 /\ f7 = 1
  <2>1. Manual!RResult(f3, f7, a, b) = Manual!UnsMult(a, b)[1]
    BY <1>10, SMT DEF Manual!RResult
  <2>2. Manual!Name(instr) = "mulhu"
    BY <1>1, <1>10, RegisterNames
  <2>3. ~Manual!Carries(a, b)
    BY <2>2, Complies
  <2> QED
    BY <1>1, <2>1, <2>2, <2>3, ProductsByName, PlainProduct
<1>11. CASE f3 = 4 /\ f7 = 0
  BY <1>1, <1>11, RegisterNames, ValuesByName, SMT DEF Manual!RResult
<1>12. CASE f3 = 5 /\ f7 = 0
  BY <1>1, <1>12, RegisterNames, ValuesByName, SMT DEF Manual!RResult, Manual!ShiftRight
<1>13. CASE f3 = 5 /\ f7 = 32
  <2>1. Manual!RResult(f3, f7, a, b) = a \div Manual!Pow2[b % Manual!w]
    BY <1>13, SMT DEF Manual!RResult, Manual!ShiftArithmetic, Manual!ShiftRight
  <2>2. Manual!Name(instr) = "sra"
    BY <1>1, <1>13, RegisterNames
  <2>3. ~(Manual!Signed(a) < 0)
    BY <2>2, Complies
  <2>4. Manual!Signed(a) = a
    BY <2>3, SignedWords, SMT
  <2>5. b \in Nat
    BY WordsWrap
  <2> QED
    BY <1>1, <2>1, <2>2, <2>4, <2>5, ValuesByName, ShiftedWord
<1>14. CASE f3 = 6 /\ f7 = 0
  BY <1>1, <1>14, RegisterNames, ValuesByName, SMT DEF Manual!RResult
<1>15. CASE f3 = 7 /\ f7 = 0
  BY <1>1, <1>15, RegisterNames, ValuesByName, SMT DEF Manual!RResult
<1> QED
  BY <1>1, <1>2, <1>3, <1>4, <1>5, <1>6, <1>7, <1>8, <1>9, <1>10, <1>11, <1>12, <1>13,
     <1>14, <1>15, SMT DEF Manual!RCodes

(* A division by a number that is not 0, of numbers that are not negative. *)
LEMMA DivisionsAgree ==
    ASSUME ProgramReady, ~Manual!Deviates, instr.op = 51,
           <<instr.f3, instr.f7>> \in Manual!Divides,
           NEW a \in Manual!Word, a = Manual!RegRead(instr.rs1),
           NEW b \in Manual!Word, b = Manual!RegRead(instr.rs2)
    PROVE  /\ b # 0 /\ a # Manual!Size \div 2
           /\ Manual!Quotients(instr, a, b) = Manual!Value(Manual!Name(instr), a, b)
<1>1. PICK f3 \in Nat, f7 \in Nat : instr.f3 = f3 /\ instr.f7 = f7
  BY FieldsAreNumbers DEF ProgramReady, Executable
<1>2. f7 = 1 /\ f3 \in {4, 5, 6, 7}
  BY <1>1, SMT DEF Manual!Divides, Manual!DividesSigned, Manual!DividesUnsigned
<1>3. /\ f3 = 4 => Manual!Name(instr) = "div"
      /\ f3 = 5 => Manual!Name(instr) = "divu"
      /\ f3 = 6 => Manual!Name(instr) = "rem"
      /\ f3 = 7 => Manual!Name(instr) = "remu"
  BY <1>1, <1>2, RegisterNames, SMT
<1>4. b # 0 /\ ~(Manual!Signed(a) < 0) /\ ~(Manual!Signed(b) < 0)
  <2>1. Manual!Name(instr) \in {"div", "divu", "rem", "remu"}
    BY <1>2, <1>3, SMT
  <2> QED
    BY <2>1, Complies
<1>5. Manual!Signed(a) = a /\ Manual!Signed(b) = b /\ a # Manual!Size \div 2
  <2>1. Manual!Signed(a) = a /\ a < Manual!Size \div 2 /\ Manual!Signed(b) = b
    BY <1>4, SignedWords, SMT
  <2>2. a \in Nat /\ Manual!Size \div 2 \in Nat
    BY SignedWords, WordsWrap
  <2> QED
    BY <2>1, <2>2, SMT
<1> DEFINE q == a \div b
           r == a - b * q
<1>6. /\ q \in Nat /\ q < Manual!Size /\ r = a % b
      /\ a % b \in Nat /\ a % b < Manual!Size
      /\ Manual!Quotient(a, b) = q
  BY <1>4, PlainQuotients, Zenon
<1>7. Manual!Wrap(q) = q /\ Manual!Wrap(r) = a % b
  BY <1>6, WordsWrap
<1>8. Manual!Quotients(instr, a, b) = Manual!Wrap(IF f3 \in {4, 5} THEN q ELSE r)
  BY <1>1, <1>5, <1>6 DEF Manual!Quotients
<1> HIDE DEF q, r
<1>9. /\ f3 = 4 => Manual!Value(Manual!Name(instr), a, b) = Manual!Wrap(q)
      /\ f3 = 5 => Manual!Value(Manual!Name(instr), a, b) = q
      /\ f3 = 6 => Manual!Value(Manual!Name(instr), a, b) = Manual!Wrap(r)
      /\ f3 = 7 => Manual!Value(Manual!Name(instr), a, b) = a % b
  <2>1. CASE f3 = 4
    BY <1>3, <1>4, <1>5, <1>6, <2>1, ProductsByName, SMT
  <2>2. CASE f3 = 5
    BY <1>3, <1>4, <1>5, <1>6, <2>2, ProductsByName, SMT DEF q
  <2>3. CASE f3 = 6
    <3>1. Manual!Value("rem", a, b) = IF b = 0 THEN a
            ELSE Manual!Wrap(Manual!Signed(a) - Manual!Signed(b)
                         * Manual!Quotient(Manual!Signed(a), Manual!Signed(b)))
      BY ProductsByName
    <3> QED
      BY <1>3, <1>4, <1>5, <1>6, <2>3, <3>1, SMT DEF r
  <2>4. CASE f3 = 7
    BY <1>3, <1>4, <2>4, ProductsByName, SMT
  <2> QED
    BY <1>2, <2>1, <2>2, <2>3, <2>4
<1> QED
  BY <1>2, <1>4, <1>5, <1>7, <1>8, <1>9, SMT

LEMMA RegistersRun ==
    ASSUME ProgramReady, ~Manual!Deviates, Manual!ExecInstrR
    PROVE  AsTheManual
<1>1. PICK f3 \in Nat, f7 \in Nat : instr.f3 = f3 /\ instr.f7 = f7 /\ f3 <= 7 /\ f7 <= 127
  BY FieldsAreNumbers DEF ProgramReady, Executable
<1>2. instr.op = 51 \/ instr.op = 47
  BY Zenon DEF Manual!ExecInstrR, Manual!OP, Manual!AMO
<1>3. instr.rs1 \in Regs /\ instr.rs2 \in Regs
  BY <1>2 DEF ProgramReady, Executable, Manual!OP, Manual!AMO
<1> DEFINE a == gpr[instr.rs1]
           b == gpr[instr.rs2]
<1>4. /\ a \in Manual!Word /\ a = Manual!RegRead(instr.rs1)
      /\ b \in Manual!Word /\ b = Manual!RegRead(instr.rs2)
  BY <1>3, Operands
<1>5. Manual!Name(instr) # "illegal"
  BY <1>2, <1>4, Complies, SMT
<1> HIDE DEF a, b
<1> DEFINE key == <<instr.f3, instr.f7>>
           swaps == instr.f3 = 2 /\ instr.f7 \in 4 .. 7
<1>6. \/ /\ key \in Manual!RCodes
         /\ Manual!Continues(Manual!Written(gpr, instr.rd,
                Manual!RResult(instr.f3, instr.f7, a, b)))
         /\ cell' = cell
      \/ key \in Manual!Divides /\ Manual!Divide(instr, a, b)
      \/ key \in Manual!Divides /\ Manual!DividesTooFar(instr, a, b)
      \/ /\ swaps
         /\ \E garbage \in {0, Manual!Size - 1} : Manual!Amoswap(instr, garbage)
      \/ /\ key \notin Manual!RCodes \cup Manual!Divides /\ ~swaps
         /\ Manual!Traps("illegal")
  BY <1>4, Zenon DEF Manual!ExecInstrR
<1>7. CASE instr.op = 51
  <2>1. Manual!Effect(instr, gpr, cell, counter) =
          <<Manual!Set(gpr, instr.rd, Manual!Value(Manual!Name(instr), a, b)),
            cell, counter + 4, "none">>
    BY <1>5, <1>7, EffectsByOpcode DEF a, b
  <2>2. ~swaps
    BY <1>1, <1>5, <1>7, RegisterNames
  <2>3. key \in Manual!RCodes \cup Manual!Divides
    <3>1. Manual!Name(instr) = Manual!OpName(instr)
      BY <1>7, NamesByOpcode
    <3>2. f7 = 0 \/ f7 = 1 \/ (f7 = 32 /\ f3 \in {0, 5})
      BY <1>1, <1>5, <3>1, SMT DEF Manual!OpName
    <3>3. f3 \in {0, 1, 2, 3, 4, 5, 6, 7}
      BY <1>1, SMT
    <3> QED
      BY <1>1, <3>2, <3>3, SMT DEF Manual!RCodes, Manual!Divides, Manual!DividesSigned,
                                   Manual!DividesUnsigned
  <2> DEFINE v == Manual!Value(Manual!Name(instr), a, b)
  <2>4. Manual!Continues(Manual!Written(gpr, instr.rd, v)) /\ cell' = cell
    <3>1. CASE /\ key \in Manual!RCodes
               /\ Manual!Continues(Manual!Written(gpr, instr.rd,
                      Manual!RResult(instr.f3, instr.f7, a, b)))
               /\ cell' = cell
      <4>1. Manual!RResult(instr.f3, instr.f7, a, b) = v
        BY <1>4, <1>7, <3>1, RegistersAgree
      <4> QED
        BY <3>1, <4>1
    <3>2. CASE key \in Manual!Divides /\ Manual!Divide(instr, a, b)
      <4>1. b # 0 /\ Manual!Quotients(instr, a, b) = v
        BY <1>4, <1>7, <3>2, DivisionsAgree
      <4> QED
        BY <3>2, <4>1 DEF Manual!Divide
    <3>3. CASE key \in Manual!Divides /\ Manual!DividesTooFar(instr, a, b)
      <4>1. a # Manual!Size \div 2
        BY <1>4, <1>7, <3>3, DivisionsAgree
      <4> QED
        BY <3>3, <4>1 DEF Manual!DividesTooFar
    <3> QED
      BY <1>6, <2>2, <2>3, <3>1, <3>2, <3>3
  <2>5. /\ gpr' = Manual!Set(gpr, instr.rd, v) /\ cell' = cell
        /\ counter' = counter + 4 /\ exc' = "none"
    <3> HIDE DEF v
    <3> QED
      BY <2>4, Ends
  <2> QED
    BY <1>7, <2>1, <2>5 DEF AsTheManual, Manual!LOAD, Manual!STORE
<1>8. CASE instr.op = 47
  <2>1. Manual!Name(instr) = "amoswap" /\ swaps
    BY <1>5, <1>8, NamesByOpcode
  <2>2. works
    BY <1>4, <2>1, Complies
  <2>3. key \notin Manual!RCodes \cup Manual!Divides
    <3>1. f3 = 2 /\ f7 \in 4 .. 7
      BY <1>1, <2>1
    <3> QED
      BY <1>1, <3>1, SMT DEF Manual!RCodes, Manual!Divides, Manual!DividesSigned,
                                   Manual!DividesUnsigned
  <2>4. PICK garbage : Manual!Amoswap(instr, garbage)
    BY <1>6, <2>1, <2>3, Zenon
  <2>5. Manual!Continues(Manual!Written(gpr, instr.rd, cell)) /\ cell' = b
    BY <1>4, <2>2, <2>4, Zenon DEF Manual!Amoswap
  <2>6. /\ gpr' = Manual!Set(gpr, instr.rd, cell)
        /\ counter' = counter + 4 /\ exc' = "none"
    BY <2>5, Ends
  <2>7. Manual!Effect(instr, gpr, cell, counter) =
          <<Manual!Set(gpr, instr.rd, cell), b, counter + 4, "none">>
    BY <1>5, <1>8, EffectsByOpcode DEF b
  <2> QED
    BY <1>8, <2>5, <2>6, <2>7 DEF AsTheManual, Manual!LOAD, Manual!STORE
<1> QED
  BY <1>2, <1>7, <1>8

LEMMA ImmediatesAreNumbers ==
    ASSUME NEW i \in Manual!Instruction
    PROVE  Manual!IImm(i) \in Int /\ Manual!SImm(i) \in Int
<1>1. PICK rd \in Nat, rs2 \in Nat, f7 \in Nat : i.rd = rd /\ i.rs2 = rs2 /\ i.f7 = f7
  BY FieldsAreNumbers
<1> QED
  BY <1>1, SMT DEF Manual!IImm, Manual!SImm, Manual!Sign

(* The name of an instruction on a register and an immediate, by its codes. *)
LEMMA ImmediateNames ==
    ASSUME NEW i, NEW f3 \in Nat, NEW f7 \in Nat, i.f3 = f3, i.f7 = f7
    PROVE  /\ f3 = 0 => Manual!ImmName(i) = "addi"
           /\ f3 = 1 /\ f7 = 0  => Manual!ImmName(i) = "slli"
           /\ f3 = 1 /\ f7 # 0  => Manual!ImmName(i) = "illegal"
           /\ f3 = 2 => Manual!ImmName(i) = "slti"
           /\ f3 = 3 => Manual!ImmName(i) = "sltiu"
           /\ f3 = 4 => Manual!ImmName(i) = "xori"
           /\ f3 = 5 /\ f7 = 0  => Manual!ImmName(i) = "srli"
           /\ f3 = 5 /\ f7 = 32 => Manual!ImmName(i) = "srai"
           /\ f3 = 5 /\ f7 \notin {0, 32} => Manual!ImmName(i) = "illegal"
           /\ f3 = 6 => Manual!ImmName(i) = "ori"
           /\ f3 = 7 => Manual!ImmName(i) = "andi"
<1>1. f3 \notin {1, 5} \/ f7 = 0 => Manual!ImmName(i) = Manual!Nth(Manual!ImmNames, f3)
  BY SMT DEF Manual!ImmName
<1>2. f3 = 5 /\ f7 = 32 => Manual!ImmName(i) = "srai"
  BY SMT DEF Manual!ImmName
<1>3. f3 \in {1, 5} /\ f7 # 0 /\ ~(f3 = 5 /\ f7 = 32) => Manual!ImmName(i) = "illegal"
  BY SMT DEF Manual!ImmName
<1> QED
  BY <1>1, <1>2, <1>3, ManualTables, SMTT(40)

(* What the code computes of a register and an immediate, when it does not deviate. *)
LEMMA ImmediatesAgree ==
    ASSUME ProgramReady, ~Manual!Deviates, instr.op = 19,
           NEW a \in Manual!Word, a = Manual!RegRead(instr.rs1)
    PROVE  /\ Manual!Name(instr) # "illegal"
           /\ instr.f3 = 5 => instr.f7 \in {0, 32}
           /\ Manual!IResult(instr, a)
                = Manual!Value(Manual!Name(instr), a, Manual!Last(instr))
<1>1. PICK f3 \in Nat, f7 \in Nat, rs2 \in Nat :
        instr.f3 = f3 /\ instr.f7 = f7 /\ instr.rs2 = rs2 /\ f3 <= 7
  BY FieldsAreNumbers DEF ProgramReady, Executable
<1>2. Manual!Name(instr) = Manual!ImmName(instr)
  BY NamesByOpcode
<1>3. Manual!Name(instr) # "illegal"
  BY Complies
<1>4. PICK imm \in Manual!Word :
        /\ imm = Manual!Wrap(Manual!IImm(instr))
        /\ imm = Manual!Wrap(Manual!SIGN_EXTENSION(Manual!I_IMM(instr), Manual!I_IMM_SIZE))
  <2>1. instr \in Manual!Instruction
    BY DEF ProgramReady, Executable
  <2>2. Manual!SIGN_EXTENSION(Manual!I_IMM(instr), Manual!I_IMM_SIZE) = Manual!IImm(instr)
    BY <2>1, ImmediatesAreExtended DEF Manual!I_IMM_SIZE
  <2>3. Manual!IImm(instr) \in Int
    BY <2>1, ImmediatesAreNumbers
  <2> QED
    BY <2>2, <2>3, WordsWrap
<1>5. /\ Manual!Name(instr) \in {"slli", "srli", "srai"} => Manual!Last(instr) = rs2
      /\ Manual!Name(instr) \notin {"slli", "srli", "srai"} => Manual!Last(instr) = imm
  BY <1>1, <1>4 DEF Manual!Last
<1> DEFINE r == Manual!IResult(instr, a)
<1>6. /\ f3 = 0 => r = Manual!Wrap(a + imm)
      /\ f3 = 1 => r = Manual!Wrap(a * Manual!Pow2[rs2 % Manual!w])
      /\ f3 = 2 => r = Manual!Flag(Manual!Signed(a) < Manual!Signed(imm))
      /\ f3 = 3 => r = Manual!Flag(a < imm)
      /\ f3 = 4 => r = Manual!Xor(a, imm)
  BY <1>1, <1>4, SMTT(40) DEF Manual!IResult, Manual!ShiftLeft
<1>7. /\ f3 = 5 /\ f7 = 0  => r = a \div Manual!Pow2[rs2 % Manual!w]
      /\ f3 = 5 /\ f7 = 32 => r = a \div Manual!Pow2[rs2 % Manual!w]
      /\ f3 = 6 => r = Manual!Or(a, imm)
      /\ f3 = 7 => r = Manual!And(a, imm)
  BY <1>1, <1>4, SMTT(40) DEF Manual!IResult, Manual!ShiftRight, Manual!ShiftArithmetic
<1> HIDE DEF r
<1>8. f3 \in {0, 1, 2, 3, 4, 5, 6, 7}
  BY <1>1, SMT
<1>9. /\ f3 = 1 => f7 = 0
      /\ f3 = 5 => f7 = 0 \/ f7 = 32
  BY <1>1, <1>2, <1>3, ImmediateNames, SMT
<1>10. r = Manual!Value(Manual!Name(instr), a, Manual!Last(instr))
  <2>1. CASE f3 \in {0, 2, 3}
    BY <1>1, <1>2, <1>5, <1>6, <2>1, ImmediateNames, ValuesByName, SMT
  <2>2. CASE f3 \in {4, 6, 7}
    BY <1>1, <1>2, <1>5, <1>6, <1>7, <2>2, ImmediateNames, ValuesByName, SMT
  <2>3. CASE f3 = 1
    BY <1>1, <1>2, <1>5, <1>6, <1>9, <2>3, ImmediateNames, ValuesByName, SMT
  <2>4. CASE f3 = 5 /\ f7 = 0
    BY <1>1, <1>2, <1>5, <1>7, <2>4, ImmediateNames, ValuesByName, SMT
  <2>5. CASE f3 = 5 /\ f7 = 32
    <3>1. Manual!Name(instr) = "srai"
      BY <1>1, <1>2, <2>5, ImmediateNames
    <3>2. ~(Manual!Signed(a) < 0)
      BY <3>1, Complies
    <3>3. Manual!Signed(a) = a
      BY <3>2, SignedWords, SMT
    <3>4. Manual!Value("srai", a, rs2)
            = Manual!Wrap(Manual!Signed(a) \div Manual!Pow2[rs2 % Manual!w])
      BY ValuesByName
    <3>5. Manual!Last(instr) = rs2
      BY <1>5, <3>1
    <3> QED
      BY <1>7, <2>5, <3>1, <3>3, <3>4, <3>5, ShiftedWord
  <2> QED
    BY <1>8, <1>9, <2>1, <2>2, <2>3, <2>4, <2>5
<1> QED
  BY <1>1, <1>3, <1>9, <1>10 DEF r

LEMMA ImmediatesRun ==
    ASSUME ProgramReady, ~Manual!Deviates, Manual!ExecInstrI
    PROVE  AsTheManual
<1>1. instr.op = 19
  BY Zenon DEF Manual!ExecInstrI, Manual!OP_IMM
<1>2. instr.rs1 \in Regs
  BY DEF ProgramReady, Executable
<1> DEFINE a == gpr[instr.rs1]
           v == Manual!Value(Manual!Name(instr), a, Manual!Last(instr))
<1>3. a \in Manual!Word /\ a = Manual!RegRead(instr.rs1)
  BY <1>2, Operands
<1>4. /\ Manual!Name(instr) # "illegal"
      /\ instr.f3 = 5 => instr.f7 \in {0, 32}
      /\ Manual!IResult(instr, a) = v
  BY <1>1, <1>3, ImmediatesAgree
<1>5. Manual!Effect(instr, gpr, cell, counter) =
        <<Manual!Set(gpr, instr.rd, v), cell, counter + 4, "none">>
  BY <1>1, <1>4, EffectsByOpcode
<1> HIDE DEF a
<1>6. /\ Manual!Continues(Manual!Written(gpr, instr.rd, Manual!IResult(instr, a)))
      /\ cell' = cell
  BY <1>3, <1>4, Zenon DEF Manual!ExecInstrI
<1> HIDE DEF v
<1>7. /\ gpr' = Manual!Set(gpr, instr.rd, v)
      /\ counter' = counter + 4 /\ exc' = "none"
  BY <1>4, <1>6, Ends
<1> QED
  BY <1>1, <1>5, <1>6, <1>7, Elsewhere

(* What the manual loads, by name. *)
LEMMA LoadsByName ==
    ASSUME NEW v, NEW k
    PROVE  /\ Manual!Loaded("lb", v, k)  = Manual!Extended(Manual!Bytes(v)[k], B)
           /\ Manual!Loaded("lbu", v, k) = Manual!Bytes(v)[k]
           /\ Manual!Loaded("lhu", v, k) = Manual!Half(v, k)
           /\ Manual!Loaded("lw", v, k)  = v
  BY DEF Manual!Loaded

(* Half of a word is at an even address. *)
LEMMA HalfPlaces ==
    ASSUME NEW va, va % 4 = 0 \/ va % 4 = 2
    PROVE  \/ va % 4 = 0 /\ Manual!HWORDPOS(va) = 0
           \/ va % 4 = 2 /\ Manual!HWORDPOS(va) = 1
<1>1. 0 \div 2 = 0 /\ 2 \div 2 = 1
  BY SMT
<1> QED
  BY <1>1 DEF Manual!HWORDPOS

(* What the code loads from a word, when it does not deviate. *)
LEMMA LoadsAgree ==
    ASSUME ProgramReady, ~Manual!Deviates, instr.op = 3, instr.f3 \in {0, 1, 2, 4, 5},
           NEW va, va = Manual!Wrap(Manual!RegRead(instr.rs1) + Manual!IImm(instr))
    PROVE  /\ Manual!Name(instr) # "illegal"
           /\ Manual!Part(instr.f3, cell, va)
                = Manual!Loaded(Manual!Name(instr), cell, va % 4)
<1>1. PICK f3 \in Nat : instr.f3 = f3 /\ f3 \in {0, 1, 2, 4, 5}
  BY SMT
<1>2. Manual!Name(instr) = Manual!Nth(Manual!LoadNames, f3)
  BY <1>1, NamesByOpcode
<1>3. /\ f3 = 0 => Manual!Name(instr) = "lb"
      /\ f3 = 1 => Manual!Name(instr) = "lh"
      /\ f3 = 2 => Manual!Name(instr) = "lw"
      /\ f3 = 4 => Manual!Name(instr) = "lbu"
      /\ f3 = 5 => Manual!Name(instr) = "lhu"
  BY <1>2, ManualTables, SMT
<1>4. f3 # 1
  BY <1>3, Complies
<1>5. PICK n \in Int : n = Manual!RegRead(instr.rs1) + Manual!IImm(instr)
  <2>1. instr \in Manual!Instruction /\ instr.rs1 \in Regs
    BY DEF ProgramReady, Executable
  <2>2. PICK a \in Nat, m \in Int :
          a = Manual!RegRead(instr.rs1) /\ m = Manual!IImm(instr)
    BY <2>1, Operands, ImmediatesAreNumbers, WordsWrap
  <2>3. a + m \in Int
    BY SMT
  <2> QED
    BY <2>2, <2>3
<1>6. va = Manual!Wrap(n) /\ va % 4 \in 0 .. 3 /\ cell \in Manual!Word
  BY <1>5, Places DEF ProgramReady
<1> DEFINE k == va % 4
<1>7. k \in 0 .. 3 /\ k = va % 4
  BY <1>6
<1> HIDE DEF k
<1>8. CASE f3 = 0
  <2>1. Manual!Part(0, cell, va) = Manual!signExtByte(cell, va % 4)
    BY DEF Manual!Part, Manual!BYTEPOS
  <2>2. Manual!Loaded("lb", cell, k) = Manual!Extended(Manual!Bytes(cell)[k], B)
    BY LoadsByName
  <2>3. Manual!Name(instr) = "lb"
    BY <1>3, <1>8
  <2>4. Manual!signExtByte(cell, k) = Manual!Extended(Manual!Bytes(cell)[k], B)
    BY <1>6, <1>7, ByteIsExtended
  <2> QED
    BY <1>1, <1>8, <1>7, <2>1, <2>2, <2>3, <2>4
<1>9. CASE f3 = 2
  <2>1. Manual!Part(2, cell, va) = cell
    BY DEF Manual!Part
  <2>2. Manual!Loaded("lw", cell, k) = cell
    BY LoadsByName
  <2>3. Manual!Name(instr) = "lw"
    BY <1>3, <1>9
  <2> QED
    BY <1>1, <1>9, <1>7, <2>1, <2>2, <2>3
<1>10. CASE f3 = 4
  <2>1. Manual!Part(4, cell, va) = Manual!zExtByte(cell, va % 4)
    BY DEF Manual!Part, Manual!BYTEPOS
  <2>2. Manual!zExtByte(cell, va % 4) = Manual!Bytes(cell)[va % 4]
    BY <1>6 DEF Manual!zExtByte, Manual!Bytes
  <2>3. Manual!Loaded("lbu", cell, k) = Manual!Bytes(cell)[k]
    BY LoadsByName
  <2>4. Manual!Name(instr) = "lbu"
    BY <1>3, <1>10
  <2> QED
    BY <1>1, <1>10, <1>7, <2>1, <2>2, <2>3, <2>4
<1>11. CASE f3 = 5
  <2>1. Manual!Part(5, cell, va) = Manual!zExtHWord(cell, Manual!HWORDPOS(va))
    BY DEF Manual!Part
  <2>2. n % 2 = 0
    <3>1. n % 2 # 1
      BY <1>3, <1>5, <1>11, Complies
    <3> QED
      BY <3>1, SMT
  <2>3. \/ va % 4 = 0 /\ Manual!HWORDPOS(va) = 0
        \/ va % 4 = 2 /\ Manual!HWORDPOS(va) = 1
    BY <1>6, <2>2, EvenAddress, HalfPlaces
  <2>4. Manual!zExtHWord(cell, Manual!HWORDPOS(va)) = Manual!Half(cell, va % 4)
    BY <1>6, <2>3, HalfIsLoaded
  <2>5. Manual!Loaded("lhu", cell, k) = Manual!Half(cell, k)
    BY LoadsByName
  <2>6. Manual!Name(instr) = "lhu"
    BY <1>3, <1>11
  <2> QED
    BY <1>1, <1>11, <1>7, <2>1, <2>4, <2>5, <2>6
<1> QED
  BY <1>1, <1>3, <1>4, <1>8, <1>9, <1>10, <1>11

LEMMA LoadsRun ==
    ASSUME ProgramReady, ~Manual!Deviates, Manual!ExecInstrL
    PROVE  AsTheManual
<1>1. instr.op = 3
  BY Zenon DEF Manual!ExecInstrL, Manual!LOAD
<1>2. instr \in Manual!Instruction /\ instr.rs1 \in Regs
  BY DEF ProgramReady, Executable
<1>3. /\ Manual!SIGN_EXTENSION(Manual!I_IMM(instr), Manual!I_IMM_SIZE) = Manual!IImm(instr)
      /\ Manual!RegRead(instr.rs1) = gpr[instr.rs1]
  BY <1>2, Operands, ImmediatesAreExtended DEF Manual!I_IMM_SIZE
<1> DEFINE va    == Manual!Wrap(Manual!RegRead(instr.rs1) + Manual!IImm(instr))
           known == instr.f3 \in {0, 1, 2, 4, 5}
           v     == Manual!Part(instr.f3, cell, va)
<1>4. \/ /\ known /\ works
         /\ Manual!Continues(Manual!Written(gpr, instr.rd, v))
         /\ cell' = cell
      \/ known /\ ~works /\ Manual!Traps("access")
      \/ ~known /\ Manual!Traps("illegal")
  BY <1>3, Zenon DEF Manual!ExecInstrL
<1>5. known => /\ Manual!Name(instr) # "illegal"
               /\ v = Manual!Loaded(Manual!Name(instr), cell, va % 4)
  BY <1>1, LoadsAgree
<1>6. CASE known /\ works
  <2>1. Manual!Effect(instr, gpr, cell, counter) =
          <<Manual!Set(gpr, instr.rd, v), cell, counter + 4, "none">>
    BY <1>1, <1>3, <1>5, <1>6, EffectsByOpcode
  <2> HIDE DEF v
  <2>2. /\ gpr' = Manual!Set(gpr, instr.rd, v) /\ cell' = cell
        /\ counter' = counter + 4 /\ exc' = "none"
    BY <1>4, <1>6, Ends
  <2> QED
    BY <1>6, <2>1, <2>2 DEF AsTheManual
<1>7. CASE known /\ ~works
  <2> HIDE DEF v
  <2>1. /\ gpr' = gpr /\ cell' = cell /\ counter' = counter /\ exc' = "access"
    BY <1>4, <1>7, Ends
  <2> QED
    BY <1>1, <1>5, <1>7, <2>1 DEF AsTheManual, Manual!LOAD
<1>8. CASE ~known
  <2>1. Manual!Name(instr) = "illegal"
    <3>1. PICK f3 \in Nat : instr.f3 = f3 /\ f3 <= 7
      BY <1>2, FieldsAreNumbers
    <3> QED
      BY <1>1, <1>8, <3>1, NamesByOpcode, ManualTables, SMT
  <2>2. Manual!Traps("illegal")
    BY <1>4, <1>8
  <2> QED
    BY <2>1, <2>2, Undecoded
<1> QED
  BY <1>6, <1>7, <1>8

(* What the code stores into a word, when it does not deviate. *)
LEMMA StoresAgree ==
    ASSUME ProgramReady, ~Manual!Deviates, instr.op = 35, instr.f3 \in {0, 1, 2},
           NEW b \in Manual!Word, b = Manual!RegRead(instr.rs2),
           NEW va, va = Manual!Wrap(Manual!RegRead(instr.rs1) + Manual!SImm(instr))
    PROVE  /\ Manual!Name(instr) # "illegal"
           /\ Manual!WithPart(instr.f3, cell, b, va)
                = Manual!Stored(Manual!Name(instr), cell, va % 4, b)
<1>1. PICK f3 \in Nat : instr.f3 = f3 /\ f3 \in {0, 1, 2}
  BY SMT
<1>2. Manual!Name(instr) = Manual!Nth(Manual!StoreNames, f3)
  BY <1>1, NamesByOpcode
<1>3. /\ f3 = 0 => Manual!Name(instr) = "sb"
      /\ f3 = 1 => Manual!Name(instr) = "sh"
      /\ f3 = 2 => Manual!Name(instr) = "sw"
  BY <1>2, ManualTables, SMT
<1>4. PICK n \in Int : n = Manual!RegRead(instr.rs1) + Manual!SImm(instr)
  <2>1. instr \in Manual!Instruction /\ instr.rs1 \in Regs
    BY DEF ProgramReady, Executable
  <2>2. PICK a \in Nat, m \in Int :
          a = Manual!RegRead(instr.rs1) /\ m = Manual!SImm(instr)
    BY <2>1, Operands, ImmediatesAreNumbers, WordsWrap
  <2>3. a + m \in Int
    BY SMT
  <2> QED
    BY <2>2, <2>3
<1>5. va = Manual!Wrap(n) /\ va % 4 \in 0 .. 3 /\ cell \in Manual!Word
  BY <1>4, Places DEF ProgramReady
<1> DEFINE k == va % 4
<1>6. k \in 0 .. 3 /\ k = va % 4
  BY <1>5
<1> HIDE DEF k
<1>7. CASE f3 = 0
  <2>1. Manual!WithPart(0, cell, b, va) = Manual!mergeByte(cell, b, va % 4)
    BY DEF Manual!WithPart, Manual!BYTEPOS
  <2>2. Manual!Stored("sb", cell, k, b) = Manual!FromBytes(
            [Manual!Bytes(cell) EXCEPT ![k] = Manual!Bytes(b)[0]])
    BY DEF Manual!Stored
  <2>3. Manual!mergeByte(cell, b, k) = Manual!FromBytes(
            [Manual!Bytes(cell) EXCEPT ![k] = Manual!Bytes(b)[0]])
    BY <1>5, <1>6, ByteIsMerged
  <2>4. Manual!Name(instr) = "sb"
    BY <1>3, <1>7
  <2> QED
    BY <1>1, <1>6, <1>7, <2>1, <2>2, <2>3, <2>4
<1>8. CASE f3 = 1
  <2>1. Manual!WithPart(1, cell, b, va) = Manual!mergeHWord(cell, b, Manual!HWORDPOS(va))
    BY DEF Manual!WithPart
  <2>2. Manual!Stored("sh", cell, k, b) = Manual!FromBytes(
            [Manual!Bytes(cell) EXCEPT ![k] = Manual!Bytes(b)[0],
                                       ![k + 1] = Manual!Bytes(b)[1]])
    BY DEF Manual!Stored
  <2>3. Manual!Name(instr) = "sh"
    BY <1>3, <1>8
  <2>4. n % 2 = 0
    <3>1. n % 2 # 1
      BY <1>4, <2>3, Complies
    <3> QED
      BY <3>1, SMT
  <2>5. \/ k = 0 /\ Manual!HWORDPOS(va) = 0
        \/ k = 2 /\ Manual!HWORDPOS(va) = 1
    BY <1>5, <1>6, <2>4, EvenAddress, HalfPlaces
  <2>6. CASE k = 0 /\ Manual!HWORDPOS(va) = 0
    <3>1. Manual!mergeHWord(cell, b, 0) = Manual!FromBytes(
              [Manual!Bytes(cell) EXCEPT ![0] = Manual!Bytes(b)[0],
                                         ![0 + 1] = Manual!Bytes(b)[1]])
      BY <1>5, HalfIsMerged
    <3> QED
      BY <1>1, <1>6, <1>8, <2>1, <2>2, <2>3, <2>6, <3>1
  <2>7. CASE k = 2 /\ Manual!HWORDPOS(va) = 1
    BY <1>1, <1>5, <1>6, <1>8, <2>1, <2>2, <2>3, <2>7, HalfIsMerged
  <2> QED
    BY <2>5, <2>6, <2>7
<1>9. CASE f3 = 2
  <2>1. Manual!WithPart(2, cell, b, va) = b
    BY DEF Manual!WithPart
  <2>2. Manual!Stored("sw", cell, k, b) = Manual!FromBytes(Manual!Bytes(b))
    BY DEF Manual!Stored
  <2>3. Manual!FromBytes(Manual!Bytes(b)) = b
    BY FromBytesOfBytes
  <2>4. Manual!Name(instr) = "sw"
    BY <1>3, <1>9
  <2> QED
    BY <1>1, <1>6, <1>9, <2>1, <2>2, <2>3, <2>4
<1> QED
  BY <1>1, <1>7, <1>8, <1>9

LEMMA StoresRun ==
    ASSUME ProgramReady, ~Manual!Deviates, Manual!ExecInstrS
    PROVE  AsTheManual
<1>1. instr.op = 35
  BY Zenon DEF Manual!ExecInstrS, Manual!STORE
<1>2. instr \in Manual!Instruction /\ instr.rs1 \in Regs /\ instr.rs2 \in Regs
  BY <1>1 DEF ProgramReady, Executable, Manual!STORE
<1>3. /\ Manual!SIGN_EXTENSION(Manual!S_IMM(instr), Manual!S_IMM_SIZE) = Manual!SImm(instr)
      /\ Manual!RegRead(instr.rs1) = gpr[instr.rs1]
      /\ Manual!RegRead(instr.rs2) = gpr[instr.rs2]
      /\ Manual!RegRead(instr.rs2) \in Manual!Word
  BY <1>2, Operands, ImmediatesAreExtended DEF Manual!S_IMM_SIZE
<1>4. PICK f3 \in Nat : instr.f3 = f3 /\ f3 <= 7
  BY <1>2, FieldsAreNumbers
<1> DEFINE va    == Manual!Wrap(Manual!RegRead(instr.rs1) + Manual!SImm(instr))
           known == instr.f3 \in {0, 1, 2}
           v     == Manual!WithPart(instr.f3, cell, Manual!RegRead(instr.rs2), va)
<1>5. (known <=> instr.f3 <= 2) /\ (~known <=> instr.f3 > 2)
  BY <1>4, SMT
<1>6. \/ /\ known /\ works
         /\ cell' = v
         /\ Manual!Continues(gpr)
      \/ known /\ ~works /\ Manual!Traps("access")
      \/ ~known /\ Manual!Traps("illegal")
  BY <1>3, <1>5, Zenon DEF Manual!ExecInstrS
<1>7. known => /\ Manual!Name(instr) # "illegal"
               /\ v = Manual!Stored(Manual!Name(instr), cell, va % 4, gpr[instr.rs2])
  BY <1>1, <1>3, StoresAgree
<1>8. CASE known /\ works
  <2>1. Manual!Effect(instr, gpr, cell, counter) = <<gpr, v, counter + 4, "none">>
    BY <1>1, <1>3, <1>7, <1>8, EffectsByOpcode
  <2> HIDE DEF v
  <2>2. /\ gpr' = gpr /\ cell' = v
        /\ counter' = counter + 4 /\ exc' = "none"
    BY <1>6, <1>8, Ends
  <2> QED
    BY <1>8, <2>1, <2>2 DEF AsTheManual
<1>9. CASE known /\ ~works
  <2> HIDE DEF v
  <2>1. /\ gpr' = gpr /\ cell' = cell /\ counter' = counter /\ exc' = "access"
    BY <1>6, <1>9, Ends
  <2> QED
    BY <1>1, <1>7, <1>9, <2>1 DEF AsTheManual, Manual!STORE
<1>10. CASE ~known
  <2>1. Manual!Name(instr) = "illegal"
    BY <1>1, <1>4, <1>10, NamesByOpcode, ManualTables, SMT
  <2>2. Manual!Traps("illegal")
    BY <1>6, <1>10
  <2> QED
    BY <2>1, <2>2, Undecoded
<1> QED
  BY <1>8, <1>9, <1>10

(* When the manual takes a branch, by name. *)
LEMMA TakenByName ==
    ASSUME NEW a, NEW b
    PROVE  /\ Manual!Taken("beq", a, b)  <=> a = b
           /\ Manual!Taken("bne", a, b)  <=> a # b
           /\ Manual!Taken("blt", a, b)  <=> Manual!Signed(a) < Manual!Signed(b)
           /\ Manual!Taken("bge", a, b)  <=> Manual!Signed(a) >= Manual!Signed(b)
           /\ Manual!Taken("bltu", a, b) <=> a < b
           /\ Manual!Taken("bgeu", a, b) <=> a >= b
  BY SMT DEF Manual!Taken

LEMMA BranchesRun ==
    ASSUME ProgramReady, ~Manual!Deviates, Manual!ExecInstrB
    PROVE  AsTheManual
<1>1. instr.op = 99
  BY Zenon DEF Manual!ExecInstrB, Manual!BRANCH
<1>2. instr \in Manual!Instruction /\ instr.rs1 \in Regs /\ instr.rs2 \in Regs
  BY <1>1 DEF ProgramReady, Executable, Manual!BRANCH
<1>3. PICK f3 \in Nat : instr.f3 = f3 /\ f3 <= 7
  BY <1>2, FieldsAreNumbers
<1>4. Manual!BranchOffset(instr) = Manual!BImm(instr)
  <2>1. Manual!Fits(Manual!BImm(instr), 2048)
    BY <1>1, Complies
  <2> QED
    BY <1>2, <2>1, BranchesAreExtended DEF Manual!BranchOffset, Manual!I_IMM_SIZE
<1> DEFINE a == gpr[instr.rs1]
           b == gpr[instr.rs2]
           taken == Manual!Branches(instr.f3, a, b)
<1>5. a = Manual!RegRead(instr.rs1) /\ b = Manual!RegRead(instr.rs2)
  BY <1>2, Operands
<1>6. \/ /\ instr.f3 \notin {2, 3}
         /\ cell' = cell
         /\ \/ taken /\ Manual!Goes(gpr, counter + Manual!BImm(instr))
            \/ ~taken /\ Manual!Continues(gpr)
      \/ instr.f3 \in {2, 3} /\ Manual!Traps("illegal")
  BY <1>4, <1>5, Zenon DEF Manual!ExecInstrB
<1>7. Manual!Name(instr) = Manual!Nth(Manual!BranchNames, f3)
  BY <1>1, <1>3, NamesByOpcode
<1> HIDE DEF a, b
<1>8. CASE f3 \notin {2, 3}
  <2>1. f3 \in {0, 1, 4, 5, 6, 7}
    BY <1>3, <1>8, SMT
  <2>2. /\ f3 = 0 => Manual!Name(instr) = "beq"
        /\ f3 = 1 => Manual!Name(instr) = "bne"
        /\ f3 = 4 => Manual!Name(instr) = "blt"
        /\ f3 = 5 => Manual!Name(instr) = "bge"
        /\ f3 = 6 => Manual!Name(instr) = "bltu"
        /\ f3 = 7 => Manual!Name(instr) = "bgeu"
    BY <1>7, ManualTables, SMT
  <2>3. Manual!Name(instr) # "illegal"
    BY <2>1, <2>2, SMT
  <2>4. taken <=> Manual!Taken(Manual!Name(instr), a, b)
    <3>1. CASE f3 \in {0, 1}
      BY <1>3, <2>2, <3>1, TakenByName, SMT DEF Manual!Branches
    <3>2. CASE f3 \in {4, 5}
      BY <1>3, <2>2, <3>2, TakenByName, SMT DEF Manual!Branches
    <3>3. CASE f3 \in {6, 7}
      BY <1>3, <2>2, <3>3, TakenByName, SMT DEF Manual!Branches
    <3> QED
      BY <2>1, <3>1, <3>2, <3>3
  <2>5. Manual!Effect(instr, gpr, cell, counter) =
          <<gpr, cell, IF Manual!Taken(Manual!Name(instr), a, b)
                       THEN counter + Manual!BImm(instr) ELSE counter + 4, "none">>
    BY <1>1, <2>3, EffectsByOpcode DEF a, b
  <2> HIDE DEF taken
  <2>6. CASE taken
    <3>1. /\ gpr' = gpr /\ cell' = cell
          /\ counter' = counter + Manual!BImm(instr) /\ exc' = "none"
      BY <1>3, <1>6, <1>8, <2>6, Ends
    <3> QED
      BY <1>1, <2>4, <2>5, <2>6, <3>1, Elsewhere
  <2>7. CASE ~taken
    <3>1. /\ gpr' = gpr /\ cell' = cell
          /\ counter' = counter + 4 /\ exc' = "none"
      BY <1>3, <1>6, <1>8, <2>7, Ends
    <3> QED
      BY <1>1, <2>4, <2>5, <2>7, <3>1, Elsewhere
  <2> QED
    BY <2>6, <2>7
<1>9. CASE f3 \in {2, 3}
  <2>1. Manual!Name(instr) = "illegal"
    BY <1>7, <1>9, ManualTables, SMT
  <2>2. Manual!Traps("illegal")
    BY <1>3, <1>6, <1>9
  <2> QED
    BY <2>1, <2>2, Undecoded
<1> QED
  BY <1>8, <1>9

LEMMA JumpsRun ==
    ASSUME ProgramReady, ~Manual!Deviates, Manual!Jal
    PROVE  AsTheManual
<1>1. instr.op = 111 /\ instr \in Manual!Instruction
  BY DEF Manual!Jal, Manual!JAL, ProgramReady, Executable
<1>2. Manual!Name(instr) = "jal"
  BY <1>1, NamesByOpcode
<1>3. Manual!Name(instr) # "illegal"
  BY <1>2
<1>4. Manual!SIGN_EXTENSION(Manual!J_IMM(instr), Manual!J_IMM_SIZE) = Manual!JImm(instr)
  <2>1. Manual!Fits(Manual!JImm(instr), 524288)
    BY <1>2, Complies, SMT
  <2> QED
    BY <1>1, <2>1, JumpsAreExtended DEF Manual!J_IMM_SIZE
<1>5. /\ Manual!Goes(Manual!Written(gpr, instr.rd, Manual!Wrap(counter + 4)),
                     counter + Manual!JImm(instr))
      /\ cell' = cell
  BY <1>4 DEF Manual!Jal, Manual!WORDLEN
<1>6. /\ gpr' = Manual!Set(gpr, instr.rd, Manual!Wrap(counter + 4))
      /\ counter' = counter + Manual!JImm(instr) /\ exc' = "none"
  BY <1>5, Ends
<1>7. Manual!Effect(instr, gpr, cell, counter) =
        <<Manual!Set(gpr, instr.rd, Manual!Wrap(counter + 4)), cell,
          counter + Manual!JImm(instr), "none">>
  BY <1>1, <1>3, EffectsByOpcode
<1> QED
  BY <1>1, <1>5, <1>6, <1>7, Elsewhere

(* A register that an instruction does not write keeps its value. *)
LEMMA OtherRegisters ==
    ASSUME ProgramReady, ~(instr.rd = instr.rs1 /\ instr.rd # 0), NEW v
    PROVE  (IF instr.rs1 = 0 THEN 0 ELSE Manual!Written(gpr, instr.rd, v)[instr.rs1])
             = gpr[instr.rs1]
<1>1. instr.rs1 \in Regs /\ gpr \in [Regs -> Manual!Word] /\ gpr[0] = 0
  BY DEF ProgramReady, Executable
<1> QED
  BY <1>1 DEF Manual!Written

LEMMA RegisterJumpsRun ==
    ASSUME ProgramReady, ~Manual!Deviates, Manual!Jalr
    PROVE  AsTheManual
<1>1. instr.op = 103 /\ instr \in Manual!Instruction
  BY DEF Manual!Jalr, Manual!JALR, ProgramReady, Executable
<1>2. Manual!Name(instr) = "jalr"
  <2>1. Manual!Name(instr) # "illegal"
    BY <1>1, Complies, SMT
  <2> QED
    BY <1>1, <2>1, NamesByOpcode
<1>3. Manual!Name(instr) # "illegal"
  BY <1>2
<1>4. Manual!SIGN_EXTENSION(Manual!I_IMM(instr), Manual!I_IMM_SIZE) = Manual!IImm(instr)
  BY <1>1, ImmediatesAreExtended DEF Manual!I_IMM_SIZE
<1>5. ~(instr.rd = instr.rs1 /\ instr.rd # 0)
  BY <1>2, Complies
<1> DEFINE linked == Manual!Written(gpr, instr.rd, Manual!Wrap(counter + 4))
           to == 2 * (Manual!Wrap(gpr[instr.rs1] + Manual!IImm(instr)) \div 2)
<1>6. (IF instr.rs1 = 0 THEN 0 ELSE linked[instr.rs1]) = gpr[instr.rs1]
  BY <1>5, OtherRegisters
<1>7. Manual!Goes(linked, to) /\ cell' = cell
  BY <1>4, <1>6 DEF Manual!Jalr, Manual!WORDLEN
<1>8. Manual!Effect(instr, gpr, cell, counter) =
        <<Manual!Set(gpr, instr.rd, Manual!Wrap(counter + 4)), cell, to, "none">>
  BY <1>1, <1>3, EffectsByOpcode
<1> HIDE DEF to
<1>9. /\ gpr' = Manual!Set(gpr, instr.rd, Manual!Wrap(counter + 4))
      /\ counter' = to /\ exc' = "none"
  BY <1>7, Ends
<1> QED
  BY <1>1, <1>7, <1>8, <1>9, Elsewhere

LEMMA UppersRun ==
    ASSUME Manual!Lui
    PROVE  AsTheManual
<1>1. instr.op = 55
  BY DEF Manual!Lui, Manual!LUI
<1>2. Manual!Name(instr) = "lui"
  BY <1>1, NamesByOpcode
<1>3. Manual!Name(instr) # "illegal"
  BY <1>2
<1> DEFINE v == Manual!Wrap(Manual!Upper(instr) * Manual!Pow2[UShift])
<1>4. Manual!Continues(Manual!Written(gpr, instr.rd, v)) /\ cell' = cell
  BY DEF Manual!Lui, Manual!U_IMM
<1>5. Manual!Effect(instr, gpr, cell, counter) =
        <<Manual!Set(gpr, instr.rd, v), cell, counter + 4, "none">>
  BY <1>1, <1>3, EffectsByOpcode
<1> HIDE DEF v
<1>6. /\ gpr' = Manual!Set(gpr, instr.rd, v)
      /\ counter' = counter + 4 /\ exc' = "none"
  BY <1>4, Ends
<1> QED
  BY <1>1, <1>4, <1>5, <1>6, Elsewhere

(* An instruction that does not deviate is not one that is added to the
   program counter without its shift, or that is not known. *)
LEMMA OthersRun ==
    ASSUME ~Manual!Deviates
    PROVE  ~Manual!Auipc /\ (Manual!Unknown => AsTheManual)
<1>1. ASSUME Manual!Auipc
      PROVE  FALSE
  <2>1. instr.op = 23
    BY <1>1 DEF Manual!Auipc, Manual!AUIPC
  <2>2. Manual!Name(instr) = "auipc"
    BY <2>1, NamesByOpcode
  <2> QED
    BY <2>2, Complies
<1>2. ASSUME Manual!Unknown
      PROVE  AsTheManual
  <2>1. instr.op \notin {3, 51, 19, 115, 99, 35, 47, 23, 55, 111, 103}
    BY <1>2 DEF Manual!Unknown, Manual!LOAD, Manual!OP, Manual!OP_IMM, Manual!SYSTEM,
                Manual!BRANCH, Manual!STORE, Manual!AMO, Manual!AUIPC, Manual!LUI,
                Manual!JAL, Manual!JALR
  <2>2. Manual!Name(instr) = "illegal" \/ Manual!Name(instr) = "fence"
    BY <2>1, NamesByOpcode
  <2>3. Manual!Name(instr) = "illegal"
    BY <2>2, Complies
  <2>4. Manual!Traps("illegal")
    BY <1>2 DEF Manual!Unknown
  <2> QED
    BY <2>3, <2>4, Undecoded
<1> QED
  BY <1>1, <1>2

(* What the manual makes of a control and status register, by name. *)
LEMMA CsrsByName ==
    ASSUME NEW v, NEW r
    PROVE  /\ Manual!CsrValue("csrrw", v, r)  = r
           /\ Manual!CsrValue("csrrs", v, r)  = Manual!Or(v, r)
           /\ Manual!CsrValue("csrrsi", v, r) = Manual!Or(v, r)
           /\ Manual!CsrValue("csrrc", v, r)  = Manual!And(v, Manual!Size - 1 - r)
           /\ Manual!CsrValue("csrrci", v, r) = Manual!And(v, Manual!Size - 1 - r)
  BY SMT DEF Manual!CsrValue

(* To clear the bits of 0 clears nothing. *)
LEMMA NothingToClear ==
    ASSUME NEW v \in Manual!Word
    PROVE  Manual!And(v, Manual!Size - 1 - 0) = v
<1>1. Manual!Size - 1 - 0 = Manual!Size - 1
  BY WordSizes, SMT
<1> QED
  BY <1>1, AndAllOnes

(* What the code makes of a control and status register, when it does not
   deviate; the operand is read after rd has been written. *)
LEMMA CsrsAgree ==
    ASSUME ProgramReady, ~Manual!Deviates, instr.op = 115, instr.f3 # 0, instr.f3 # 4,
           NEW r, r = (IF instr.rs1 = 0 THEN 0
                       ELSE Manual!Written(gpr, instr.rd, cell)[instr.rs1])
    PROVE  /\ Manual!Name(instr) # "illegal"
           /\ Manual!CsrWritten(instr, cell, r)
                = Manual!CsrValue(Manual!Name(instr), cell,
                      IF instr.f3 < 4 THEN gpr[instr.rs1] ELSE instr.rs1)
<1>1. PICK f3 \in Nat : instr.f3 = f3 /\ f3 \in {1, 2, 3, 5, 6, 7}
  <2>1. instr \in Manual!Instruction
    BY DEF ProgramReady, Executable
  <2>2. PICK f3 \in Nat : instr.f3 = f3 /\ f3 <= 7
    BY <2>1, FieldsAreNumbers
  <2>3. f3 \in {1, 2, 3, 5, 6, 7}
    BY <2>2, SMT
  <2> QED
    BY <2>2, <2>3
<1>2. Manual!Name(instr) = Manual!Nth(Manual!CsrNames, f3)
  BY <1>1, NamesByOpcode
<1>3. /\ f3 = 1 => Manual!Name(instr) = "csrrw"
      /\ f3 = 2 => Manual!Name(instr) = "csrrs"
      /\ f3 = 3 => Manual!Name(instr) = "csrrc"
      /\ f3 = 5 => Manual!Name(instr) = "csrrwi"
      /\ f3 = 6 => Manual!Name(instr) = "csrrsi"
      /\ f3 = 7 => Manual!Name(instr) = "csrrci"
  BY <1>2, ManualTables, SMT
<1>4. f3 # 5
  BY <1>3, Complies
<1>5. f3 \in {1, 2, 3} => r = gpr[instr.rs1]
  <2> SUFFICES ASSUME f3 \in {1, 2, 3}
               PROVE  r = gpr[instr.rs1]
    OBVIOUS
  <2>1. Manual!Name(instr) \in {"csrrw", "csrrs", "csrrc"}
    BY <1>3
  <2>2. ~(instr.rd = instr.rs1 /\ instr.rd # 0)
    BY <2>1, Complies
  <2> QED
    BY <2>2, OtherRegisters
<1> DEFINE operand == IF instr.f3 < 4 THEN gpr[instr.rs1] ELSE instr.rs1
<1>6. /\ f3 \in {1, 2, 3} => operand = r
      /\ f3 \in {6, 7} => operand = instr.rs1
  BY <1>1, <1>5, SMT
<1>7. cell \in Manual!Word
  BY DEF ProgramReady
<1> HIDE DEF operand
<1>8. CASE f3 = 1
  <2>1. Manual!Name(instr) = "csrrw"
    BY <1>3, <1>8
  <2>2. instr.rs1 # 0
    BY <2>1, Complies
  <2>3. Manual!CsrWritten(instr, cell, r) = r
    BY <1>1, <1>8, <2>2, SMT DEF Manual!CsrWritten
  <2> QED
    BY <1>6, <1>8, <2>1, <2>3, CsrsByName DEF operand
<1>9. CASE f3 = 2
  <2>1. Manual!Name(instr) = "csrrs"
    BY <1>3, <1>9
  <2>2. Manual!CsrWritten(instr, cell, r) = Manual!Or(cell, r)
    BY <1>1, <1>9, SMT DEF Manual!CsrWritten
  <2> QED
    BY <1>6, <1>9, <2>1, <2>2, CsrsByName DEF operand
<1>10. CASE f3 = 3
  <2>1. Manual!Name(instr) = "csrrc"
    BY <1>3, <1>10
  <2>2. Manual!CsrWritten(instr, cell, r) =
          IF instr.rs1 = 0 THEN cell ELSE Manual!And(cell, Manual!Complement(r))
    BY <1>1, <1>10, SMT DEF Manual!CsrWritten
  <2>3. CASE instr.rs1 = 0
    <3>1. r = 0
      BY <2>3
    <3>2. Manual!And(cell, Manual!Size - 1 - r) = cell
      BY <1>7, <3>1, NothingToClear
    <3> QED
      BY <1>6, <1>10, <2>1, <2>2, <2>3, <3>2, CsrsByName DEF operand
  <2>4. CASE instr.rs1 # 0
    BY <1>6, <1>10, <2>1, <2>2, <2>4, CsrsByName DEF operand, Manual!Complement
  <2> QED
    BY <2>3, <2>4
<1>11. CASE f3 = 6
  <2>1. Manual!Name(instr) = "csrrsi"
    BY <1>3, <1>11
  <2>2. Manual!CsrWritten(instr, cell, r) = Manual!Or(cell, instr.rs1)
    BY <1>1, <1>11, SMT DEF Manual!CsrWritten
  <2> QED
    BY <1>6, <1>11, <2>1, <2>2, CsrsByName DEF operand
<1>12. CASE f3 = 7
  <2>1. Manual!Name(instr) = "csrrci"
    BY <1>3, <1>12
  <2>2. Manual!CsrWritten(instr, cell, r) = Manual!And(cell, Manual!Complement(instr.rs1))
    BY <1>1, <1>12, SMT DEF Manual!CsrWritten
  <2> QED
    BY <1>6, <1>12, <2>1, <2>2, CsrsByName DEF operand, Manual!Complement
<1> QED
  BY <1>1, <1>4, <1>8, <1>9, <1>10, <1>11, <1>12

LEMMA CsrsRun ==
    ASSUME ProgramReady, ~Manual!Deviates, Manual!ExecInstrI2
    PROVE  AsTheManual
<1>1. instr.op = 115 /\ instr.f3 # 0
  BY Zenon DEF Manual!ExecInstrI2, Manual!SYSTEM
<1> DEFINE r == IF instr.rs1 = 0 THEN 0
                ELSE Manual!Written(gpr, instr.rd, cell)[instr.rs1]
           new == Manual!CsrWritten(instr, cell, r)
<1>2. \/ /\ instr.f3 # 4
         /\ cell' = new
         /\ Manual!Continues(Manual!Written(gpr, instr.rd, cell))
      \/ instr.f3 = 4 /\ Manual!Traps("illegal")
  BY Zenon DEF Manual!ExecInstrI2
<1>3. CASE instr.f3 # 4
  <2>1. /\ Manual!Name(instr) # "illegal"
        /\ new = Manual!CsrValue(Manual!Name(instr), cell,
                     IF instr.f3 < 4 THEN gpr[instr.rs1] ELSE instr.rs1)
    BY <1>1, <1>3, CsrsAgree
  <2>2. Manual!Effect(instr, gpr, cell, counter) =
          <<Manual!Set(gpr, instr.rd, cell), new, counter + 4, "none">>
    BY <1>1, <2>1, EffectsByOpcode
  <2> HIDE DEF new
  <2>3. /\ gpr' = Manual!Set(gpr, instr.rd, cell)
        /\ cell' = new /\ counter' = counter + 4 /\ exc' = "none"
    BY <1>2, <1>3, Ends
  <2> QED
    BY <1>1, <2>2, <2>3, Elsewhere
<1>4. CASE instr.f3 = 4
  <2>1. Manual!Name(instr) = Manual!Nth(Manual!CsrNames, 4)
    BY <1>1, <1>4, NamesByOpcode
  <2>2. Manual!Name(instr) = "illegal"
    BY <2>1, ManualTables, SMT
  <2>3. Manual!Traps("illegal")
    BY <1>2, <1>4
  <2> QED
    BY <2>2, <2>3, Undecoded
<1> QED
  BY <1>3, <1>4

(* An instruction that does not deviate runs as the manual says. *)
LEMMA InstructionsRun ==
    ASSUME ProgramReady, ~Manual!Deviates, Manual!ExecInstr
    PROVE  AsTheManual
<1>1. CASE Manual!ExecInstrR
  BY <1>1, RegistersRun
<1>2. CASE Manual!ExecInstrI
  BY <1>2, ImmediatesRun
<1>3. CASE Manual!ExecInstrL
  BY <1>3, LoadsRun
<1>4. CASE Manual!ExecInstrS
  BY <1>4, StoresRun
<1>5. CASE Manual!ExecInstrB
  BY <1>5, BranchesRun
<1>6. CASE Manual!Jal
  BY <1>6, JumpsRun
<1>7. CASE Manual!Jalr
  BY <1>7, RegisterJumpsRun
<1>8. CASE Manual!Lui
  BY <1>8, UppersRun
<1>9. CASE Manual!ExecInstrI2
  BY <1>9, CsrsRun
<1>10. CASE Manual!Auipc \/ Manual!Unknown
  BY <1>10, OthersRun
<1> QED
  BY <1>1, <1>2, <1>3, <1>4, <1>5, <1>6, <1>7, <1>8, <1>9, <1>10 DEF Manual!ExecInstr

(* One instruction is executed: until then it is as it was found. *)
ProgramInv == Executable(instr) /\ (exc = "fetched" => ProgramReady)

LEMMA ExecutionEnds ==
    ASSUME Manual!ExecInstr
    PROVE  exc' # "fetched"
<1>1. ASSUME NEW rs, NEW to, Manual!Goes(rs, to)
      PROVE  exc' # "fetched"
  BY <1>1 DEF Manual!Goes
<1>2. ASSUME NEW rs, Manual!Continues(rs)
      PROVE  exc' # "fetched"
  BY <1>2 DEF Manual!Continues, Manual!Goes
<1>3. Manual!Traps("illegal") \/ Manual!Traps("access") \/ Manual!Traps("crash")
        => exc' # "fetched"
  BY DEF Manual!Traps
<1>4. CASE Manual!ExecInstrR
  BY <1>2, <1>3, <1>4, Zenon DEF Manual!ExecInstrR, Manual!Divide, Manual!DividesTooFar,
                          Manual!Amoswap
<1>5. CASE Manual!ExecInstrI \/ Manual!ExecInstrL \/ Manual!ExecInstrS \/ Manual!ExecInstrI2
  BY <1>2, <1>3, <1>5, Zenon DEF Manual!ExecInstrI, Manual!ExecInstrL, Manual!ExecInstrS,
                          Manual!ExecInstrI2
<1>6. CASE Manual!ExecInstrB \/ Manual!Jal \/ Manual!Jalr
  BY <1>1, <1>2, <1>3, <1>6, Zenon DEF Manual!ExecInstrB, Manual!Jal, Manual!Jalr
<1>7. CASE Manual!Auipc \/ Manual!Lui \/ Manual!Unknown
  BY <1>2, <1>3, <1>7, Zenon DEF Manual!Auipc, Manual!Lui, Manual!Unknown
<1> QED
  BY <1>4, <1>5, <1>6, <1>7 DEF Manual!ExecInstr

LEMMA ProgramStarts ==
    ASSUME Manual!Init
    PROVE  ProgramInv
<1>1. PICK f \in Inputs :
        /\ instr \in f.instrs
        /\ gpr \in [Regs -> f.values] /\ gpr[0] = 0
        /\ cell \in f.cells
        /\ works \in f.bus
  BY Zenon DEF Manual!Init
<1>2. /\ Executable(instr)
      /\ f.values \subseteq Manual!Word /\ f.cells \subseteq Manual!Word
      /\ f.bus \subseteq BOOLEAN
  BY <1>1, ProgramAssumption
<1>3. gpr \in [Regs -> Manual!Word]
  BY <1>1, <1>2
<1>4. counter \in Nat
  BY ProgramAssumption DEF Manual!Init
<1> QED
  BY <1>1, <1>2, <1>3, <1>4 DEF ProgramInv, ProgramReady

LEMMA ProgramInvHolds ==
    Manual!Spec => []ProgramInv
<1>1. ASSUME ProgramInv, [Manual!Next]_(Manual!vars)
      PROVE  ProgramInv'
  <2>1. CASE Manual!Next
    BY <1>1, <2>1, InstructionStays, ExecutionEnds DEF ProgramInv, Executable, Manual!Next
  <2>2. CASE UNCHANGED Manual!vars
    BY <1>1, <2>2 DEF ProgramInv, ProgramReady, Executable, Manual!vars, Manual!RegRead
  <2> QED
    BY <1>1, <2>1, <2>2
<1> QED
  BY <1>1, ProgramStarts, PTL DEF Manual!Spec

(* On any operands, in words of any size, an instruction that is not listed as
   deviating leaves registers, memory and the program counter as the manual says;
   one that traps, and one that the bus refuses, leaves them alone. *)
THEOREM ProgramsRunAsTheManualSays ==
    Manual!Spec => RunsTheManual
<1>1. ASSUME ProgramInv, [Manual!Next]_(Manual!vars)
      PROVE  [exc # "fetched" \/ Manual!Deviates \/ AsTheManual]_(Manual!vars)
  BY <1>1, InstructionsRun DEF ProgramInv, Manual!Next
<1>2. [exc # "fetched" \/ Manual!Deviates \/ AsTheManual]_(Manual!vars)
        => [\/ exc # "fetched" \/ Manual!Deviates
            \/ <<gpr', cell', counter', exc'>> =
                 IF instr.op \in {Manual!LOAD, Manual!STORE}
                      /\ Manual!Name(instr) # "illegal" /\ ~works
                 THEN <<gpr, cell, counter, "access">>
                 ELSE Manual!Effect(instr, gpr, cell, counter)]_(Manual!vars)
  BY DEF AsTheManual
<1> QED
  BY <1>1, <1>2, ProgramInvHolds, PTL DEF RunsTheManual, Manual!RunsTheManual, Manual!Spec
==================================================================================
