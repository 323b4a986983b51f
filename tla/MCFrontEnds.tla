------------------------------ MODULE MCFrontEnds ------------------------------
(***************************************************************************)
(* For TLC: what is around the machine.  A behaviour is one of the stop    *)
(* points, of the GDB server, of the configuration, or a JSON text; the    *)
(* others stay as they are.                                                *)
(***************************************************************************)
EXTENDS FrontEnds, TLC

CONSTANTS
    Scenarios,          \* of "stoppoints", "gdb", "config", "json"
    Marks, MaxLength, Values        \* see Json

VARIABLES
    scenario,
    kind,
    text, written

jsonVars == <<text, written>>
mcVars   == <<vars, kind, gdbVars, configVars, jsonVars, scenario>>

JsonIO == INSTANCE Json

-----------------------------------------------------------------------------
(* Two versions of a program, in words, the second also for another space. *)
Sym(name, type, start, size) ==
    [name |-> name, type |-> type, start |-> start, size |-> size]
First  == <<Sym("g", "F", 2, 1), Sym("f", "F", 0, 2), Sym("v", "O", 3, 1)>>
Second == <<Sym("f", "F", 1, 1), Sym("v", "O", 4, 1), Sym("g", "F", 3, 1)>>
MCSymbols == {[asid |-> 0, symbols |-> First], [asid |-> 0, symbols |-> Second],
              [asid |-> 1, symbols |-> Second]}

At(asid, start, end) == [asid |-> asid, start |-> start, end |-> end]
MCRanges == {At(0, 1, 2), At(0, 3, 3), At(0, 2, 2), At(1, 0, 0), At(1, 1, 3)}

(* Configurations: sizes and floors with one set of files, and files with one
   set of sizes. *)
RamTop  == 0
NoFloor == 1048575
NoFile  == "no name"
NoAddress == "no address"

Num(cpus, tlb, ram) ==
    "num-processors" :> cpus @@ "tlb-size" :> tlb @@ "num-ram-frames" :> ram
Configured(num, floor, rom, name, enabled, mac) ==
    [num |-> num, floor |-> floor, roms |-> [r \in {"boot", "bios", "stab"} |-> rom],
     dev |-> [d \in Slots |-> [file |-> name, enabled |-> enabled]],
     mac |-> [n \in Nets |-> mac]]
MCChosen ==
    {Configured(num, floor, "plain", "plain", TRUE, NoAddress) :
        num \in {Num(1, 16, 8), Num(2, 4, 512)}, floor \in {RamTop, 262144}}
    \cup
    {Configured(Num(1, 16, 8), NoFloor, names[1], names[2], enabled, mac) :
        names \in {<<"plain", NoFile>>, <<NoFile, "plain">>,
                   <<"plain", "with quote">>},
        enabled \in BOOLEAN, mac \in Macs \cup {NoAddress}}
MCFilesByHand ==
    {[damage |-> d] : d \in {"syntax", "type", "floor"}} \cup
    {[damage |-> "none", numbers |-> n, floor |-> f,
      roms |-> <<>>, dev |-> <<>>, mac |-> <<>>] :
        n \in {<<>>, "num-ram-frames" :> 100, "tlb-size" :> 20 @@ "num-processors" :> -1},
        f \in {{}, {RamTop}, {140000}}}

(* JSON values, up to three levels deep. *)
Leaves == {[number |-> n] : n \in {0, 7, 70}} \cup
          {[keyword |-> k] : k \in {"true", "false", "null"}} \cup
          {[string |-> t] : t \in {<<>>, <<"x">>, <<",", "x">>, <<"quote">>}}
Members == {{}, {<<"x">>}, {<<>>, <<"7", "}">>}}
Arrays(nodes) == {[array |-> t] : t \in {<<>>} \cup {<<a>> : a \in nodes} \cup
                                   {<<a, b>> : a \in nodes, b \in nodes}}
Objects(nodes) == {[object |-> f] : f \in UNION {[ns -> nodes] : ns \in Members}}
Small == {[number |-> 70], [string |-> <<"x">>],
          [array |-> <<[keyword |-> "null"]>>], [object |-> <<>>]}
MCValues == Leaves \cup Arrays(Leaves) \cup Objects(Leaves) \cup
            Objects(Objects(Small)) \cup Arrays(Objects({[number |-> 7]}))

-----------------------------------------------------------------------------
(* Bound: only breakpoints meet a table for another space. *)
Bounded == table.asid = 0 \/ kind = "breakpoint"

(* A scenario that is not chosen has one state. *)
MCInit ==
    /\ scenario \in Scenarios
    /\ Init
    /\ IF scenario = "stoppoints" THEN kind \in Kinds /\ Bounded
       ELSE kind = "none" /\ table = Table(CHOOSE f \in Symbols : TRUE)
    /\ Gdb!Init
    /\ IF scenario = "config" THEN Config!Init
       ELSE /\ config = NoConfig /\ file = {} /\ built = Off
            /\ editable = FALSE /\ alive = TRUE
    /\ IF scenario = "json" THEN JsonIO!Init ELSE text = <<>> /\ written = {}

(* A behaviour uses one of the sets of stop points. *)
StopPointStep == /\ scenario = "stoppoints" /\ Next
                 /\ \A k \in Kinds \ {kind} : set'[k] = Empty
                 /\ UNCHANGED <<gdbVars, configVars, jsonVars, scenario, kind>>
                 /\ Bounded'
GdbStep(A) == /\ scenario = "gdb" /\ A
              /\ UNCHANGED <<vars, kind, configVars, jsonVars, scenario>>
ConfigStep == /\ scenario = "config" /\ Config!Next
              /\ UNCHANGED <<vars, kind, gdbVars, jsonVars, scenario>>
JsonStep == /\ scenario = "json" /\ JsonIO!Next
            /\ UNCHANGED <<vars, kind, gdbVars, configVars, scenario>>

MCNext == StopPointStep \/ GdbStep(Gdb!Next) \/ ConfigStep \/ JsonStep

(* The fairness of GDBServer. *)
MCSpec ==
    /\ MCInit /\ [][MCNext]_mcVars
    /\ WF_mcVars(GdbStep(Gdb!Server)) /\ WF_mcVars(GdbStep(Gdb!Stepper))

(* Of the configuration that mkconfig makes, and of the JSON texts; the other
   properties are in StopPoints and FrontEnds. *)
FloorIsOutsideMemory == scenario = "config" => Config!FloorIsOutsideMemory
JsonInv == scenario = "json" => JsonIO!JsonInv
=============================================================================
