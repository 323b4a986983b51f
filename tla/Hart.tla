---------------------------------- MODULE Hart ----------------------------------
(***************************************************************************)
(* The core as the guest's programmer sees it: one program counter, and    *)
(* traps that are precise.  A trap - an exception, an interrupt or a fetch *)
(* that fails - keeps where the program has got to, its mode and whether   *)
(* interrupts were on, and goes to the handler in machine mode with        *)
(* interrupts off; a return puts them back.  A step executes an            *)
(* instruction, then takes an interrupt if they are on, then looks for the *)
(* next instruction.                                                       *)
(***************************************************************************)
EXTENDS Integers

CONSTANTS Space,         \* number of addresses
          Targets,       \* the addresses programs jump to
          Vectors,       \* the handlers they install
          StatusValues,  \* ... and what they write to MSTATUS
          ExecFaults,    \* the exceptions of an instruction
          FetchFaults,   \* ... of a fetch
          Lines          \* the interrupts

VARIABLES hart,          \* the program counter, the mode and the trap registers
          status         \* running, asleep or halted

vars == <<hart, status>>

Trapped(h, cause) ==
    [pc |-> h.vector, vector |-> h.vector, mepc |-> h.pc, mcause |-> cause,
     mode |-> "M", mpp |-> h.mode, mie |-> FALSE, mpie |-> h.mie]

Returned(h) ==
    [pc |-> h.mepc, vector |-> h.vector, mepc |-> h.mepc, mcause |-> h.mcause,
     mode |-> h.mpp, mpp |-> "U", mie |-> h.mpie, mpie |-> FALSE]

(* MSTATUS is written: s is <<mie, mpie, mpp>>. *)
Stacked(h, s) ==
    [pc |-> h.pc, vector |-> h.vector, mepc |-> h.mepc, mcause |-> h.mcause,
     mode |-> h.mode, mpp |-> s[3], mie |-> s[1], mpie |-> s[2]]

On(h) == [h EXCEPT !.pc = (h.pc + 4) % Space]

(* The next instruction is found, or the search traps. *)
Fetched(h, g) ==
    g = h \/ (g.mcause \in FetchFaults /\ g = Trapped(h, g.mcause))

(* An instruction has left h: an interrupt may come, then the fetch. *)
Continues(h) ==
    \/ Fetched(h, hart')
    \/ h.mie /\ \E l \in Lines : Fetched(Trapped(h, l), hart')

(* What an instruction may do: go on, jump, write one of the registers of
   the traps, return or trap; or nothing, where there was none. *)
Executes(h) ==
    \/ Continues(On(h))
    \/ Continues(h)
    \/ \E cause \in ExecFaults : Continues(Trapped(h, cause))
    \/ \E a \in Targets : Continues([h EXCEPT !.pc = a])
    \/ \E a \in Targets : Continues([On(h) EXCEPT !.mepc = a])
    \/ \E v \in Vectors : Continues([On(h) EXCEPT !.vector = v])
    \/ \E s \in StatusValues : Continues(Stacked(On(h), s))
    \/ Continues(Returned(h))

(* A step of a core that runs, or that its timer has just woken. *)
Step ==
    /\ status # "HALTED" /\ status' = "RUNNING"
    /\ Executes(hart)

(* The core goes to sleep and wakes up before the same instruction; once it
   is halted only a reset starts it. *)
Pause ==
    /\ status # "HALTED"
    /\ UNCHANGED hart

Reset(pc) ==
    /\ status' = "RUNNING"
    /\ hart' = [pc |-> pc, vector |-> 0, mepc |-> hart.mepc, mcause |-> 0,
                mode |-> "M", mpp |-> "M", mie |-> FALSE, mpie |-> FALSE]

Init == status = "HALTED" /\ hart.mode = "M" /\ ~hart.mie

Next == Step \/ Pause \/ \E pc \in Targets : Reset(pc)

Spec == Init /\ [][Next]_vars
=============================================================================
