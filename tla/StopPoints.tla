------------------------------- MODULE StopPoints -------------------------------
(***************************************************************************)
(* The stop points of the debugger: sets of address ranges with an         *)
(* identifier (uriscv/stoppoint.cc), kept twice, in the order of insertion *)
(* and ordered by address; the views that show them by row                 *)
(* (stoppoint_list_model.cc, trace_browser.cc); the accesses of the        *)
(* machine that hit them (machine.cc); and their relocation when the       *)
(* machine is reset and the symbol table has changed (debug_session.cc,    *)
(* symbol_table.cc).  An address stands for a word.                        *)
(***************************************************************************)
EXTENDS Integers, SequencesExt

CONSTANTS
    LastAddr,   \* bound: the addresses that are accessed are 0..LastAddr
    MAXASID,    \* bound: address spaces; this one stands for physical memory
    Cpus,
    Kinds,      \* the sets the run looks at, of "breakpoint", "suspect", "trace"
    Ranges,     \* bound: the ranges [asid, start, end] that are asked for
    Symbols,    \* bound: symbol table files, and the address space they are for
    MaxPoints   \* bound: stop points of a set

VARIABLES
    set,        \* of each kind: points, in order of insertion, and addressMap
    marks,      \* of each kind: for each row of its view, who has hit it
    table,      \* the symbol table
    machine,    \* "halted", "stopped" or "running"
    stopRequested,
    hits        \* history: the hits of each identifier since the marks were reset

vars == <<set, marks, table, machine, stopRequested, hits>>

Addr  == 0..LastAddr
Asids == 0..MAXASID
Ids   == 0..MaxPoints
Modes == {"EXEC", "READ", "WRITE"}

AddressRange == {r \in [asid : Asids, start : Nat, end : Nat] : r.start <= r.end}
Point == [id : Ids, range : AddressRange, mode : SUBSET Modes, enabled : BOOLEAN]
Key   == Asids \X Nat

(* AddressRange *)
KeyOf(r)       == <<r.asid, r.start>>
LessThan(k, l) == k[1] < l[1] \/ (k[1] = l[1] /\ k[2] < l[2])
Overlaps(r, q) == ~(r.asid # q.asid \/ q.end < r.start \/ q.start > r.end)
Covers(r, asid, addr) == r.asid = asid /\ r.start <= addr /\ addr <= r.end
Matches(p, asid, addr, mode) ==
    p.enabled /\ Covers(p.range, asid, addr) /\ mode \in p.mode

-----------------------------------------------------------------------------
(* StoppointSet *)

Empty == [points |-> <<>>, addressMap |-> [k \in {} |-> 0]]

NextId(points) == Max({0} \cup {p.id + 1 : p \in ToSet(points)})

CanInsert(points, range) ==
    \A i \in DOMAIN points : ~Overlaps(points[i].range, range)

(* Add, with an identifier that is at least the next one. *)
Added(s, range, mode, id, enabled) ==
    IF ~CanInsert(s.points, range) THEN s
    ELSE LET new == [id |-> Max({id, NextId(s.points)}), range |-> range,
                     mode |-> mode, enabled |-> enabled]
         IN  [points     |-> Append(s.points, new),
              addressMap |-> [k \in DOMAIN s.addressMap \cup {KeyOf(range)} |->
                                 IF k = KeyOf(range) THEN new.id
                                 ELSE s.addressMap[k]]]

Removed(s, i) ==
    LET key == KeyOf(s.points[i].range)
    IN  [points     |-> RemoveAt(s.points, i),
         addressMap |-> [k \in DOMAIN s.addressMap \ {key} |-> s.addressMap[k]]]

Least(keys)    == CHOOSE k \in keys : \A l \in keys : ~LessThan(l, k)
Greatest(keys) == CHOOSE k \in keys : \A l \in keys : ~LessThan(k, l)
Before(keys, k) == {l \in keys : LessThan(l, k)}

WithId(points, id) == CHOOSE p \in ToSet(points) : p.id = id

(* Probe: the range that starts last at or before the address is the one
   that can contain it.  A plausible bug: the iterator is not moved back. *)
ProbeForward(s, asid, addr, mode) ==
    LET keys  == DOMAIN s.addressMap
        above == keys \ Before(keys, <<asid, addr>>)
        p     == WithId(s.points, s.addressMap[Least(above)])
    IN  IF s.points # <<>> /\ above # {} /\ Matches(p, asid, addr, mode)
        THEN {p} ELSE {}
Probe(s, asid, addr, mode) ==
    LET keys  == DOMAIN s.addressMap
        q     == <<asid, addr>>
        above == keys \ Before(keys, q)
        lower == Least(above)
        it    == IF above = {} \/ (LessThan(q, lower) /\ Before(keys, lower) # {})
                 THEN Greatest(keys \ above) ELSE lower
        p     == WithId(s.points, s.addressMap[it])
    IN  IF s.points # <<>> /\ Matches(p, asid, addr, mode) THEN {p} ELSE {}

(* GetStoppointsInRange: those that start in it. *)
InRange(s, asid, start, end) ==
    {s.addressMap[k] : k \in {l \in DOMAIN s.addressMap :
                ~LessThan(l, <<asid, start>>) /\ ~LessThan(<<asid, end>>, l)}}

RowOf(s, p) == CHOOSE i \in DOMAIN s.points : s.points[i] = p

-----------------------------------------------------------------------------
(* Symbol *)

(* A symbol has a name, is a function or an object, and starts somewhere; a
   file gives its size, in words, which is 1 at least. *)
Symbol == [name : STRING, type : {"F", "O"}, start : Nat, size : Nat]
WithinSymbol(sym, a) == sym.start <= a /\ a < sym.start + sym.size
ByStart(x, y) == x.start < y.start

(* The tables as they are loaded: sorted, and with the functions of one word
   extended up to the next function. *)
Sorted(syms, type) == SortSeq(SelectSeq(syms, LAMBDA x : x.type = type), ByStart)
Backpatched(t) ==
    [i \in DOMAIN t |-> IF i < Len(t) /\ t[i].size = 1
                        THEN [t[i] EXCEPT !.size = t[i + 1].start - t[i].start]
                        ELSE t[i]]
Table(file) == [asid |-> file.asid,
                funs |-> Backpatched(Sorted(file.symbols, "F")),
                objs |-> Sorted(file.symbols, "O")]

NOTFOUND == -1

(* The binary search: from everything to what is left, a to c, until the
   middle is what is searched. *)
Middle(l) == (l[1] + l[2]) \div 2
FoundIn(t, pos, l) == l[1] <= l[2] /\ WithinSymbol(t[Middle(l) + 1], pos)
Narrowed(t, pos, l) ==
    LET b == Middle(l)
    IN  IF l[1] > l[2] \/ FoundIn(t, pos, l) THEN l
        ELSE IF pos >= t[b + 1].start + t[b + 1].size THEN <<b + 1, l[2]>>
        ELSE <<l[1], b - 1>>
Search(t, pos) ==
    LET left[n \in 0..Len(t)] == IF n = 0 THEN <<0, Len(t) - 1>>
                                 ELSE Narrowed(t, pos, left[n - 1])
    IN  IF FoundIn(t, pos, left[Len(t)]) THEN Middle(left[Len(t)]) ELSE NOTFOUND

(* SymbolTable::Probe over both tables, and Lookup by name and type: where
   it finds them. *)
SymbolAt(tab, a) ==
    IF Search(tab.funs, a) # NOTFOUND THEN {tab.funs[Search(tab.funs, a) + 1]}
    ELSE IF Search(tab.objs, a) # NOTFOUND THEN {tab.objs[Search(tab.objs, a) + 1]}
    ELSE {}
All(tab) == tab.funs \o tab.objs
Lookup(tab, name, type) ==
    {i \in DOMAIN All(tab) : All(tab)[i].name = name /\ All(tab)[i].type = type}
OneFound(places) == \E i \in places : places = {i}

-----------------------------------------------------------------------------
(* relocateStoppoints: a range moves with the symbol it starts in, if the new
   table has one symbol of that name and type.  A plausible bug: it moves to
   the start of the symbol. *)
MovedToStart(old, new, r) ==
    LET syms  == SymbolAt(old, r.start)
        x     == CHOOSE y \in syms : TRUE
        dest  == Lookup(new, x.name, x.type)
        start == All(new)[CHOOSE i \in dest : TRUE].start
    IN  IF syms # {} /\ OneFound(dest)
        THEN [r EXCEPT !.start = start, !.end = start + (r.end - r.start)]
        ELSE r
Moved(old, new, r) ==
    LET syms  == SymbolAt(old, r.start)
        x     == CHOOSE y \in syms : TRUE
        dest  == Lookup(new, x.name, x.type)
        start == All(new)[CHOOSE i \in dest : TRUE].start + (r.start - x.start)
    IN  IF syms # {} /\ OneFound(dest)
        THEN [r EXCEPT !.start = start, !.end = start + (r.end - r.start)]
        ELSE r

(* SymbolTable::Probe knows no address space but its own.  A point that
   collides with one that has been moved before is gone. *)
Place(old, new, p) ==
    IF p.range.asid = old.asid THEN Moved(old, new, p.range) ELSE p.range
Relocated(s, old, new) ==
    LET first[n \in 0..Len(s.points)] ==
            IF n = 0 THEN Empty
            ELSE LET p == s.points[n]
                 IN  Added(first[n - 1], Place(old, new, p), p.mode, p.id, p.enabled)
    IN  first[Len(s.points)]

(* The bounds are numbers, what is asked for are ranges, and the tables hold
   symbols. *)
ASSUME StopPointAssumption ==
    /\ LastAddr \in Nat /\ MAXASID \in Nat /\ MaxPoints \in Nat
    /\ Ranges \subseteq AddressRange
    /\ \A f \in Symbols : f.asid \in Asids /\ Table(f).funs \in Seq(Symbol)
                                            /\ Table(f).objs \in Seq(Symbol)

-----------------------------------------------------------------------------

NoHits == [i \in Ids |-> {}]

Init ==
    /\ set = [k \in Kinds |-> Empty]
    /\ marks = [k \in Kinds |-> <<>>]
    /\ table \in {Table(f) : f \in Symbols}
    /\ machine = "halted"
    /\ stopRequested = FALSE
    /\ hits = [k \in Kinds |-> NoHits]

On == machine # "halted"

Fresh(s) == [i \in DOMAIN s.points |-> {}]

(* BaseStoppointListModel::Add, from a dialog or the margin of the code. *)
Add(k, range) ==
    /\ On /\ Len(set[k].points) < MaxPoints     \* bound
    /\ NextId(set[k].points) \in Ids            \* bound
    /\ k = "breakpoint" => range.start = range.end
    /\ k = "trace" => range.asid = MAXASID
    /\ CanInsert(set[k].points, range)
    /\ set' = [set EXCEPT ![k] = Added(@, range, IF k = "breakpoint" THEN {"EXEC"}
                                                 ELSE {"WRITE"}, 0, TRUE)]
    /\ marks' = [marks EXCEPT ![k] = Append(@, {})]
    /\ UNCHANGED <<table, machine, stopRequested, hits>>

MarksWithout(k, i) == RemoveAt(marks[k], i)

RemovePoint(k, i) ==
    /\ On /\ i \in DOMAIN set[k].points
    /\ set' = [set EXCEPT ![k] = Removed(@, i)]
    /\ marks' = [marks EXCEPT ![k] = MarksWithout(k, i)]
    /\ hits' = [hits EXCEPT ![k][set[k].points[i].id] = {}]
    /\ UNCHANGED <<table, machine, stopRequested>>

SetEnabled(k, i) ==
    /\ On /\ i \in DOMAIN set[k].points
    /\ set' = [set EXCEPT ![k].points[i].enabled = ~@]
    /\ UNCHANGED <<marks, table, machine, stopRequested, hits>>

(* The type of an access can be edited for suspects only. *)
SetAccessMode(i, mode) ==
    /\ On /\ "suspect" \in Kinds /\ i \in DOMAIN set["suspect"].points
    /\ set' = [set EXCEPT !["suspect"].points[i].mode = mode]
    /\ UNCHANGED <<marks, table, machine, stopRequested, hits>>

(* The sets that an access is looked up in, with the stop mask allowing it. *)
LookedUp(mode, masked) ==
    Kinds \cap ((IF masked THEN {} ELSE IF mode = "EXEC" THEN {"breakpoint"}
                 ELSE {"suspect"})
                \cup (IF mode = "WRITE" THEN {"trace"} ELSE {}))

(* HandleBusAccess and HandleVMAccess: the set looked up says who was hit, to
   its view; a trace does not stop the machine and does not say by whom.  It
   is looked up by physical address only. *)
Access(cpu, asid, addr, mode, masked) ==
    LET sets  == {k \in LookedUp(mode, masked) : k = "trace" => asid = MAXASID}
        found == [k \in Kinds |-> IF k \in sets THEN Probe(set[k], asid, addr, mode)
                                  ELSE {}]
        by(k) == IF k = "trace" THEN {"dirty"} ELSE {cpu}
    IN
    /\ machine = "running"
    /\ marks' = [k \in Kinds |-> [i \in DOMAIN marks[k] |->
            IF \E p \in found[k] : i = RowOf(set[k], p)
            THEN marks[k][i] \cup by(k) ELSE marks[k][i]]]
    /\ hits' = [k \in Kinds |-> [i \in Ids |->
            IF \E p \in found[k] : p.id = i THEN hits[k][i] \cup by(k) ELSE hits[k][i]]]
    /\ stopRequested' = (stopRequested \/ \E k \in Kinds \ {"trace"} : found[k] # {})
    /\ UNCHANGED <<set, table, machine>>

(* The end of a cycle in which a stop was asked for. *)
Stop ==
    /\ machine = "running" /\ stopRequested
    /\ machine' = "stopped"
    /\ UNCHANGED <<set, marks, table, stopRequested, hits>>

(* MachineRan: the marks of breakpoints and suspects are of one run. *)
Run ==
    /\ machine = "stopped"
    /\ machine' = "running"
    /\ stopRequested' = FALSE
    /\ marks' = [k \in Kinds |-> IF k = "trace" THEN marks[k] ELSE Fresh(set[k])]
    /\ hits' = [k \in Kinds |-> IF k = "trace" THEN hits[k] ELSE NoHits]
    /\ UNCHANGED <<set, table>>

(* refreshView: the trace that is selected is shown. *)
RefreshView(i) ==
    /\ On /\ "trace" \in Kinds /\ i \in DOMAIN set["trace"].points
    /\ marks' = [marks EXCEPT !["trace"][i] = {}]
    /\ hits' = [hits EXCEPT !["trace"][set["trace"].points[i].id] = {}]
    /\ UNCHANGED <<set, table, machine, stopRequested>>

(* initializeMachine, at power on and at a reset: the symbol table is read
   again, the stop points follow it if it is for the same address space, and
   the views are new. *)
Initialize(new) ==
    /\ set' = IF new.asid = table.asid
              THEN [k \in Kinds |-> Relocated(set[k], table, new)] ELSE set
    /\ table' = new
    /\ machine' = "stopped"
    /\ marks' = [k \in Kinds |-> Fresh(set'[k])]
    /\ hits' = [k \in Kinds |-> NoHits]
    /\ stopRequested' = FALSE

Halt ==
    /\ On
    /\ machine' = "halted"
    /\ marks' = [k \in Kinds |-> <<>>]
    /\ hits' = [k \in Kinds |-> NoHits]
    /\ UNCHANGED <<set, table, stopRequested>>

(* onMachineConfigChanged *)
Clear ==
    /\ ~On
    /\ set' = [k \in Kinds |-> Empty]
    /\ UNCHANGED <<marks, table, machine, stopRequested, hits>>

Edits ==
    \/ \E k \in Kinds :
        \/ \E r \in Ranges : Add(k, r)
        \/ \E i \in DOMAIN set[k].points : RemovePoint(k, i) \/ SetEnabled(k, i)
    \/ "suspect" \in Kinds /\ \E i \in DOMAIN set["suspect"].points :
            SetAccessMode(i, {"READ"})
    \/ "trace" \in Kinds /\ \E i \in DOMAIN set["trace"].points : RefreshView(i)

Next ==
    \/ Edits
    \/ \E cpu \in Cpus, asid \in Asids, a \in Addr, mode \in Modes, m \in BOOLEAN :
            Access(cpu, asid, a, mode, m)
    \/ Stop \/ Run
    \/ \E f \in Symbols : Initialize(Table(f))
    \/ Halt \/ Clear

Spec == Init /\ [][Next]_vars

-----------------------------------------------------------------------------

TypeOK ==
    /\ \A k \in Kinds :
        /\ \A i \in DOMAIN set[k].points : set[k].points[i] \in Point
        /\ DOMAIN set[k].addressMap \subseteq Key
        /\ \A i \in DOMAIN marks[k] : marks[k][i] \subseteq Cpus \cup {"dirty"}
    /\ machine \in {"halted", "stopped", "running"}
    /\ stopRequested \in BOOLEAN

(* No two stop points of a set share an address: what SortedByAddress and
   with it Probe rely on, also after a relocation. *)
Disjoint == \A k \in Kinds : \A i, j \in DOMAIN set[k].points :
    i # j => ~Overlaps(set[k].points[i].range, set[k].points[j].range)

(* The two copies of a set list the same stop points. *)
MapAgrees == \A k \in Kinds :
    LET s == set[k] IN
    /\ DOMAIN s.addressMap = {KeyOf(p.range) : p \in ToSet(s.points)}
    /\ \A p \in ToSet(s.points) : s.addressMap[KeyOf(p.range)] = p.id

(* Identifiers tell stop points apart, and a relocation can keep them. *)
IdsIncrease == \A k \in Kinds : \A i, j \in DOMAIN set[k].points :
    i < j => set[k].points[i].id < set[k].points[j].id

(* A row of a view marks the hits of the stop point it shows. *)
MarksAgree == \A k \in Kinds : On =>
    /\ Len(marks[k]) = Len(set[k].points)
    /\ \A i \in DOMAIN marks[k] : marks[k][i] = hits[k][set[k].points[i].id]

(* Probe finds the stop point that an access hits, whichever it is: the
   search by address agrees with the definition of Matches. *)
ProbeIsRight == \A k \in Kinds, asid \in Asids, a \in Addr, mode \in Modes :
    Probe(set[k], asid, a, mode)
        = {p \in ToSet(set[k].points) : Matches(p, asid, a, mode)}

(* The stop points can be found, told apart and shown by row, and an access
   hits the one that contains it. *)
StopPointsInv ==
    TypeOK /\ Disjoint /\ MapAgrees /\ IdsIncrease /\ MarksAgree /\ ProbeIsRight

(* A relocation keeps identifier, access, space and length of a stop point and
   its distance from the symbol it is in, if that symbol is told by its name in
   a new table for the same space, and the place of any other; one that is lost
   would have overlapped another that was moved. *)
CanFollow(p, old, new) ==
    /\ p.range.asid = old.asid /\ new.asid = old.asid
    /\ \E x \in SymbolAt(old, p.range.start) : OneFound(Lookup(new, x.name, x.type))
Follows(p, q, old, new) ==
    /\ q.id = p.id /\ q.mode = p.mode /\ q.enabled = p.enabled
    /\ q.range.asid = p.range.asid
    /\ q.range.end - q.range.start = p.range.end - p.range.start
    /\ IF CanFollow(p, old, new)
       THEN \E x \in SymbolAt(old, p.range.start) : \E y \in ToSet(All(new)) :
                /\ y.name = x.name /\ y.type = x.type
                /\ q.range.start - y.start = p.range.start - x.start
       ELSE q.range = p.range
RelocationKeeps ==
    [][\A k \in Kinds : table' # table =>
        /\ \A q \in ToSet(set'[k].points) : \E p \in ToSet(set[k].points) :
                Follows(p, q, table, table')
        /\ \A p \in ToSet(set[k].points) :
            \/ \E q \in ToSet(set'[k].points) : q.id = p.id
            \/ \E q \in ToSet(set'[k].points) :
                    Overlaps(q.range, Place(table, table', p))]_vars
=============================================================================
