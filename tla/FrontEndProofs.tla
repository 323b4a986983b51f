----------------------------- MODULE FrontEndProofs -----------------------------
(***************************************************************************)
(* Theorems about what is around the machine: a session of the GDB server  *)
(* (GDBServer), the configuration (MachineConfig) and the stop points      *)
(* (StopPoints), as FrontEnds has them, for every bound, name and range.   *)
(***************************************************************************)
EXTENDS FrontEnds, Recursion, TLAPS

-----------------------------------------------------------------------------
(* A session of the GDB server. *)

(* What std::remove keeps is all that is to be kept. *)
LEMMA WithoutKeeps ==
    ASSUME NEW S, NEW list \in Seq(S), NEW a
    PROVE  /\ Gdb!Without(list, a) \in Seq(S)
           /\ Len(Gdb!Without(list, a)) <= Len(list)
           /\ \A i \in 1..Len(list) : list[i] # a =>
                \E j \in 1..Len(Gdb!Without(list, a)) : Gdb!Without(list, a)[j] = list[i]
<1> SUFFICES ASSUME NEW n \in Nat, n = Len(list)
             PROVE  /\ Gdb!Without(list, a) \in Seq(S)
                    /\ Len(Gdb!Without(list, a)) <= n
                    /\ \A i \in 1..n : list[i] # a =>
                         \E j \in 1..Len(Gdb!Without(list, a)) :
                            Gdb!Without(list, a)[j] = list[i]
  OBVIOUS
<1>1. PICK F \in Moves(n, Seq(S)) : \A k \in 1..n, x \in Seq(S) :
          F[k][x] = IF list[k] = a THEN x ELSE Append(x, list[k])
  <2> DEFINE G == [k \in 1..n |-> [x \in Seq(S) |->
                    IF list[k] = a THEN x ELSE Append(x, list[k])]]
  <2>1. G \in [1..n -> [Seq(S) -> Seq(S)]] /\ \A k \in 1..n, x \in Seq(S) :
          G[k][x] = IF list[k] = a THEN x ELSE Append(x, list[k])
    OBVIOUS
  <2> HIDE DEF G
  <2> QED
    BY <2>1 DEF Moves
<1>2. PICK v \in Seq(S) : v = <<>>
  <2> <<>> \in Seq(S)
    OBVIOUS
  <2> QED OBVIOUS
<1>3. PICK f \in RunsOf(n, Seq(S)) : IsRun(f, n, v, F)
    BY RunExists, Zenon
<1>4. \A k \in 0..n : f[k] = IF k = 0 THEN <<>>
                            ELSE IF list[k] = a THEN f[k - 1]
                            ELSE Append(f[k - 1], list[k])
  <2>1. \A k \in 0..n : k # 0 => k \in 1..n /\ k - 1 \in 0..n /\ f[k - 1] \in Seq(S)
    BY <1>3 DEF RunsOf
  <2> QED
    BY <1>2, <1>1, <1>3, <2>1 DEF IsRun
<1> DEFINE g == CHOOSE h : h = [k \in 0..n |-> IF k = 0 THEN <<>>
                                              ELSE IF list[k] = a THEN h[k - 1]
                                              ELSE Append(h[k - 1], list[k])]
<1>5. f = [k \in 0..n |-> IF k = 0 THEN <<>>
                         ELSE IF list[k] = a THEN f[k - 1]
                         ELSE Append(f[k - 1], list[k])]
  BY <1>3, <1>4 DEF RunsOf
<1>6. g = [k \in 0..n |-> IF k = 0 THEN <<>>
                         ELSE IF list[k] = a THEN g[k - 1]
                         ELSE Append(g[k - 1], list[k])]
  BY <1>5
<1>7. Gdb!Without(list, a) = g[n]
  BY DEF Gdb!Without
<1> HIDE DEF g
<1>8. /\ g[0] = <<>>
      /\ \A k \in Nat : k + 1 <= n =>
            g[k + 1] = IF list[k + 1] = a THEN g[k] ELSE Append(g[k], list[k + 1])
  <2>1. 0 \in 0..n /\ \A k \in Nat : k + 1 <= n => k + 1 \in 0..n /\ k + 1 # 0 /\ (k + 1) - 1 = k
    OBVIOUS
  <2> QED
    BY <1>6, <2>1
<1> DEFINE Good == {k \in Nat : k <= n =>
                      /\ g[k] \in Seq(S) /\ Len(g[k]) <= k
                      /\ \A i \in 1..k : list[i] # a =>
                           \E j \in 1..Len(g[k]) : g[k][j] = list[i]}
<1>9. 0 \in Good
  <2>1. g[0] = <<>> /\ <<>> \in Seq(S) /\ Len(<<>>) <= 0
    BY <1>8
  <2>2. \A i \in 1..0 : list[i] # a => \E j \in 1..Len(g[0]) : g[0][j] = list[i]
    OBVIOUS
  <2> QED
    BY <2>1, <2>2
<1>10. ASSUME NEW k \in Nat, k \in Good PROVE k + 1 \in Good
  <2> SUFFICES ASSUME k + 1 <= n
               PROVE  /\ g[k + 1] \in Seq(S) /\ Len(g[k + 1]) <= k + 1
                      /\ \A i \in 1..(k + 1) : list[i] # a =>
                           \E j \in 1..Len(g[k + 1]) : g[k + 1][j] = list[i]
    OBVIOUS
  <2>1. /\ g[k] \in Seq(S) /\ Len(g[k]) <= k
        /\ \A i \in 1..k : list[i] # a =>
             \E j \in 1..Len(g[k]) : g[k][j] = list[i]
    BY <1>10
  <2>2. k + 1 \in 1..Len(list)
    OBVIOUS
  <2>3. g[k + 1] = IF list[k + 1] = a THEN g[k] ELSE Append(g[k], list[k + 1])
    BY <1>8
  <2>4. list[k + 1] \in S
    BY <2>2
  <2>5. CASE list[k + 1] = a
    BY <2>1, <2>3, <2>5
  <2>6. CASE list[k + 1] # a
    <3>1. g[k + 1] = Append(g[k], list[k + 1])
      BY <2>3, <2>6
    <3>2. /\ g[k + 1] \in Seq(S) /\ Len(g[k + 1]) = Len(g[k]) + 1
          /\ \A j \in 1..Len(g[k]) : g[k + 1][j] = g[k][j]
          /\ g[k + 1][Len(g[k]) + 1] = list[k + 1]
      BY <2>1, <2>4, <3>1
    <3> HIDE DEF Good
    <3>3. ASSUME NEW i \in 1..(k + 1), list[i] # a
          PROVE  \E j \in 1..Len(g[k + 1]) : g[k + 1][j] = list[i]
      <4>1. CASE i = k + 1
        <5>1. Len(g[k]) + 1 \in 1..Len(g[k + 1])
          BY <2>1, <3>2
        <5> QED
          BY <3>2, <4>1, <5>1
      <4>2. CASE i # k + 1
        <5>1. i \in 1..k
          BY <4>2
        <5>2. PICK j \in 1..Len(g[k]) : g[k][j] = list[i]
          BY <2>1, <3>3, <5>1
        <5>3. j \in 1..Len(g[k + 1])
          BY <2>1, <3>2
        <5> QED
          BY <3>2, <5>2, <5>3
      <4> QED
        BY <4>1, <4>2
    <3> QED
      BY <2>1, <3>2, <3>3
  <2> QED
    BY <2>5, <2>6
<1> HIDE DEF Good
<1>11. n \in Good
  BY <1>9, <1>10, Induction
<1> QED
  BY <1>7, <1>11 DEF Good

(* The kinds of packets, and which carry an address. *)
LEMMA PacketKinds ==
    ASSUME NEW p \in Gdb!Packets
    PROVE  /\ p[1] \in {"c", "k", "g", "+", "int", "Z", "z", "P"}
           /\ p[1] \in {"Z", "z", "P"} => p[2] \in Gdb!Address
           /\ p[1] = "c" <=> p = <<"c">>
           /\ p[1] = "int" <=> p = <<"int">>
  BY DEF Gdb!Packets

(* removeBreakpoint: the list is as long as before and has all it had but
   the one that is removed. *)
LEMMA RemovedKeeps ==
    ASSUME NEW S, NEW list \in Seq(S), NEW a
    PROVE  /\ Gdb!Removed(list, a) \in Seq(S)
           /\ Len(Gdb!Removed(list, a)) = Len(list)
           /\ \A x \in Gdb!ToSet(list) : x # a => x \in Gdb!ToSet(Gdb!Removed(list, a))
<1>1. PICK kept : kept = Gdb!Without(list, a)
  OBVIOUS
<1>2. /\ kept \in Seq(S) /\ Len(kept) <= Len(list)
      /\ \A i \in 1..Len(list) : list[i] # a => \E j \in 1..Len(kept) : kept[j] = list[i]
  BY <1>1, WithoutKeeps
<1>3. PICK rest : rest = SubSeq(list, Len(kept) + 1, Len(list))
  OBVIOUS
<1>4. rest \in Seq(S) /\ Len(rest) = Len(list) - Len(kept)
  BY <1>2, <1>3
<1>5. Gdb!Removed(list, a) = kept \o rest
  BY <1>1, <1>3 DEF Gdb!Removed
<1>6. /\ kept \o rest \in Seq(S) /\ Len(kept \o rest) = Len(list)
      /\ \A j \in 1..Len(kept) : (kept \o rest)[j] = kept[j]
  BY <1>2, <1>4
<1>7. ASSUME NEW x \in Gdb!ToSet(list), x # a PROVE x \in Gdb!ToSet(kept \o rest)
  <2>1. PICK i \in 1..Len(list) : list[i] = x
    BY DEF Gdb!ToSet
  <2>2. PICK j \in 1..Len(kept) : kept[j] = x
    BY <1>2, <1>7, <2>1
  <2>3. j \in DOMAIN (kept \o rest) /\ (kept \o rest)[j] = x
    BY <1>2, <1>6, <2>2
  <2> HIDE <1>6
  <2> QED
    BY <2>3 DEF Gdb!ToSet
<1> QED
  BY <1>5, <1>6, <1>7

-----------------------------------------------------------------------------
(* What an unanswered continue, a thread that is not waiting and a stop that
   is not yet reported have in common: the debugger waits, for one of them. *)
Continues == \E i \in DOMAIN inbox : inbox[i] = <<"c">>
Stepping == stepper \notin {"enter", "wait"}

(* Of the continues that are sent, handled, under way and not yet told. *)
OneAtATime ==
    /\ \A i \in DOMAIN inbox : inbox[i] # <<"int">>
    /\ Continues => inbox = <<<<"c">>>> /\ ~Stepping /\ ~stopped
    /\ ~(Stepping /\ stopped)
    /\ Continues \/ Stepping \/ stopped => debugger = "running"

(* What a session never leaves. *)
GdbInv ==
    /\ Gdb!TypeOK
    /\ Gdb!WantedAreListed
    /\ ~disturbed => OneAtATime
    /\ stepper = "step" => pc \notin wanted \ fresh

(* The read of a buffer: what it means is one of the packets in it, or
   nothing. *)
LEMMA MeaningIsSent ==
    ASSUME NEW buffer \in Seq(Gdb!Packets), buffer # <<>>
    PROVE  /\ Gdb!Meaning(buffer) \in Gdb!Packets
           /\ Gdb!Meaning(buffer) # <<"+">> =>
                \E i \in 1..Len(buffer) : buffer[i] = Gdb!Meaning(buffer)
<1>1. CASE buffer[1] = <<"int">>
  <2>1. 1 \in 1..Len(buffer) /\ buffer[1] \in Gdb!Packets
    OBVIOUS
  <2> QED
    BY <1>1, <2>1 DEF Gdb!Meaning
<1>2. CASE buffer[1] # <<"int">>
  <2> DEFINE requests == {i \in DOMAIN buffer : buffer[i] \notin {<<"+">>, <<"int">>}}
  <2>1. CASE requests = {}
    BY <1>2, <2>1 DEF Gdb!Meaning, Gdb!Packets
  <2>2. CASE requests # {}
    <3>1. requests \subseteq 1..Len(buffer)
      OBVIOUS
    <3>2. \E i \in requests : \A j \in requests : j <= i
      <4> DEFINE back == {Len(buffer) - i : i \in requests}
      <4>1. back \subseteq Nat /\ back # {}
        BY <2>2, <3>1
      <4> HIDE DEF requests
      <4>2. PICK k \in back : \A l \in back : k <= l
        <5> HIDE DEF back
        <5> QED
          BY <4>1, LeastNat
      <4>3. PICK i \in requests : k = Len(buffer) - i
        BY <4>2
      <4>4. ASSUME NEW j \in requests PROVE j <= i
        <5>1. Len(buffer) - j \in back
          OBVIOUS
        <5>2. Len(buffer) - i <= Len(buffer) - j
          BY <4>2, <4>3, <5>1
        <5> QED
          BY <3>1, <5>2
      <4> QED
        BY <4>4
    <3>3. PICK m : m = CHOOSE i \in requests : \A j \in requests : j <= i
      OBVIOUS
    <3>4. m \in requests
      BY <3>2, <3>3
    <3>5. Gdb!Meaning(buffer) = buffer[m]
      BY <1>2, <2>2, <3>3 DEF Gdb!Meaning
    <3>6. m \in 1..Len(buffer) /\ buffer[m] \in Gdb!Packets
      BY <3>1, <3>4
    <3> QED
      BY <3>5, <3>6
  <2> QED
    BY <2>1, <2>2
<1> QED
  BY <1>1, <1>2

(* What the type invariant of the server says, by its name here. *)
GdbTyped ==
    /\ pc \in Gdb!Address
    /\ breakpoints \in Seq(Gdb!Address) /\ Len(breakpoints) <= MaxList
    /\ stopped \in BOOLEAN /\ s \in BOOLEAN /\ disturbed \in BOOLEAN
    /\ stepper \in {"enter", "wait", "first", "step", "look", "check", "stop"}
    /\ server \in {"accept", "poll", "report", "closing", "terminated"}
    /\ inbox \in Seq(Gdb!Packets) /\ Len(inbox) <= MaxInbox
    /\ debugger \in {"away", "stopped", "running"}
    /\ wanted \subseteq Gdb!Address /\ fresh \subseteq Gdb!Address

LEMMA GdbTypes == Gdb!TypeOK <=> GdbTyped
  BY DEF Gdb!TypeOK, GdbTyped

(* The same of the next state. *)
LEMMA GdbTypesNext == Gdb!TypeOK' <=> GdbTyped'
  BY GdbTypes, PTL

(* A session starts with nothing listed and undisturbed. *)
LEMMA SessionStarts == Gdb!Init => GdbInv
<1> SUFFICES ASSUME Gdb!Init PROVE GdbInv
  OBVIOUS
<1>1. Gdb!TypeOK
  <2>1. /\ 0 \in Gdb!Address /\ <<>> \in Seq(Gdb!Address) /\ <<>> \in Seq(Gdb!Packets)
        /\ Len(<<>>) = 0 /\ 0 <= MaxList /\ 0 <= MaxInbox
    BY SessionAssumption DEF SessionAssumption, Gdb!Address
  <2> QED
    BY <2>1, GdbTypes DEF GdbTyped, Gdb!Init
<1>2. Gdb!WantedAreListed /\ (stepper = "step" => pc \notin wanted \ fresh)
  BY DEF Gdb!Init, Gdb!WantedAreListed
<1>3. OneAtATime
  BY DEF Gdb!Init, OneAtATime, Continues, Stepping
<1> QED
  BY <1>1, <1>2, <1>3 DEF GdbInv

(* A packet that is sent puts no continue beside another. *)
LEMMA SendKeeps ==
    ASSUME GdbInv, NEW p \in Gdb!Packets, Gdb!Send(p)
    PROVE  /\ inbox' \in Seq(Gdb!Packets) /\ Len(inbox') <= MaxInbox
           /\ inbox = <<>> => inbox' = <<p>>
<1>1. inbox \in Seq(Gdb!Packets) /\ Len(inbox) < MaxInbox /\ inbox' = Append(inbox, p)
  BY GdbTypes DEF GdbTyped, GdbInv, Gdb!Send
<1>2. MaxInbox \in Nat
  BY SessionAssumption DEF SessionAssumption
<1>3. /\ Append(inbox, p) \in Seq(Gdb!Packets)
      /\ Len(Append(inbox, p)) = Len(inbox) + 1
  BY <1>1
<1>4. inbox = <<>> => Append(inbox, p) = <<p>>
  OBVIOUS
<1>5. Len(inbox) \in Nat
  BY <1>1
<1> QED
  BY <1>1, <1>2, <1>3, <1>4, <1>5

(* What the debugger does: it takes an answer, sends, or goes away. *)
LEMMA DebuggerKeeps ==
    ASSUME GdbInv,
           \/ Gdb!Connect \/ Gdb!Interrupt
           \/ \E p \in Gdb!Packets : Gdb!Request(p)
    PROVE  GdbInv'
<1>1. CASE Gdb!Connect
  <2>1. Gdb!TypeOK'
    BY <1>1, GdbTypes, GdbTypesNext DEF GdbTyped, GdbInv, Gdb!Connect
  <2>2. OneAtATime => OneAtATime'
    BY <1>1 DEF OneAtATime, Continues, Stepping, Gdb!Connect
  <2> QED
    BY <1>1, <2>1, <2>2 DEF GdbInv, Gdb!WantedAreListed, Gdb!Connect
<1>2. CASE Gdb!Interrupt
  <2>1. <<"int">> \in Gdb!Packets
    BY DEF Gdb!Packets
  <2>2. inbox' \in Seq(Gdb!Packets) /\ Len(inbox') <= MaxInbox
    BY <1>2, <2>1, SendKeeps DEF Gdb!Interrupt
  <2>3. Gdb!TypeOK'
    BY <1>2, <2>2, GdbTypes, GdbTypesNext DEF GdbTyped, GdbInv, Gdb!Interrupt
  <2> QED
    BY <1>2, <2>3 DEF GdbInv, Gdb!WantedAreListed, Gdb!Interrupt
<1>3. CASE \E p \in Gdb!Packets : Gdb!Request(p)
  <2>1. PICK p \in Gdb!Packets : Gdb!Request(p)
    BY <1>3
  <2>2. /\ inbox' \in Seq(Gdb!Packets) /\ Len(inbox') <= MaxInbox
        /\ inbox = <<>> /\ inbox' = <<p>> /\ debugger = "stopped" /\ p # <<"int">>
        /\ p = <<"c">> \/ debugger' = "stopped"
        /\ p = <<"c">> => debugger' = "running"
    BY <2>1, SendKeeps, PacketKinds DEF Gdb!Request
  <2>3. Gdb!TypeOK'
    BY <2>1, <2>2, GdbTypes, GdbTypesNext DEF GdbTyped, GdbInv, Gdb!Request
  <2>4. ASSUME OneAtATime PROVE OneAtATime'
    <3>1. ~Stepping /\ ~stopped
      BY <2>2, <2>4 DEF OneAtATime
    <3>2. UNCHANGED <<stepper, stopped>>
      BY <2>1 DEF Gdb!Request
    <3>3. Continues' => p = <<"c">>
      BY <2>2 DEF Continues
    <3>4. \A i \in DOMAIN inbox' : inbox'[i] # <<"int">>
      BY <2>2
    <3>5. Continues' => inbox' = <<<<"c">>>> /\ debugger' = "running"
      BY <2>2, <3>3
    <3> QED
      BY <3>1, <3>2, <3>4, <3>5 DEF OneAtATime, Stepping
  <2> QED
    BY <2>1, <2>3, <2>4 DEF GdbInv, Gdb!WantedAreListed, Gdb!Request
<1> QED
  BY <1>1, <1>2, <1>3

(* A packet that is handled: the list goes on to have what is wanted. *)
LEMMA HandleKeepsList ==
    ASSUME Gdb!TypeOK, Gdb!WantedAreListed, NEW p \in Gdb!Packets,
           MaxList > Len(breakpoints) \/ p[1] # "Z", Gdb!Handle(p)
    PROVE  /\ breakpoints' \in Seq(Gdb!Address) /\ Len(breakpoints') <= MaxList
           /\ pc' \in Gdb!Address
           /\ wanted' \subseteq Gdb!Address /\ fresh' \subseteq Gdb!Address
           /\ wanted' \subseteq Gdb!ToSet(breakpoints')
           /\ pc' \in wanted' \ fresh' => pc \in wanted \ fresh
<1> USE GdbTypes, PacketKinds DEF GdbTyped
<1>1. MaxList \in Nat
  BY SessionAssumption DEF SessionAssumption
<1>2. CASE p[1] = "Z"
  <2>1. /\ p[2] \in Gdb!Address
        /\ breakpoints' = IF Gdb!Contains(breakpoints, p[2]) THEN breakpoints
                          ELSE Append(breakpoints, p[2])
        /\ wanted' = wanted \cup {p[2]} /\ fresh' = fresh \cup {p[2]} /\ pc' = pc
    BY <1>2 DEF Gdb!Handle
  <2>2. /\ breakpoints' \in Seq(Gdb!Address) /\ Len(breakpoints') <= MaxList
        /\ \A i \in 1..Len(breakpoints) : i \in 1..Len(breakpoints')
                                          /\ breakpoints'[i] = breakpoints[i]
        /\ \E i \in 1..Len(breakpoints') : breakpoints'[i] = p[2]
    <3>1. CASE Gdb!Contains(breakpoints, p[2])
      BY <2>1, <3>1 DEF Gdb!Contains
    <3>2. CASE ~Gdb!Contains(breakpoints, p[2])
      <4>1. Len(breakpoints) + 1 <= MaxList
        BY <1>1, <1>2
      <4>2. breakpoints' = Append(breakpoints, p[2])
        BY <2>1, <3>2
      <4>3. /\ breakpoints' \in Seq(Gdb!Address) /\ Len(breakpoints') = Len(breakpoints) + 1
            /\ \A i \in 1..Len(breakpoints) : breakpoints'[i] = breakpoints[i]
            /\ breakpoints'[Len(breakpoints) + 1] = p[2]
        BY <2>1, <4>2
      <4>4. Len(breakpoints) \in Nat
        OBVIOUS
      <4> QED
        BY <4>1, <4>3, <4>4, SMTT(40)
    <3> QED
      BY <3>1, <3>2
  <2>3. wanted' \subseteq Gdb!ToSet(breakpoints')
    BY <2>1, <2>2, SMTT(40) DEF Gdb!WantedAreListed, Gdb!ToSet
  <2> QED
    BY <2>1, <2>2, <2>3
<1>3. CASE p[1] = "z"
  <2>1. /\ breakpoints' = Gdb!Removed(breakpoints, p[2])
        /\ wanted' = wanted \ {p[2]} /\ fresh' = fresh /\ pc' = pc
    BY <1>3 DEF Gdb!Handle
  <2>2. /\ breakpoints' \in Seq(Gdb!Address) /\ Len(breakpoints') <= MaxList
        /\ \A x \in Gdb!ToSet(breakpoints) : x # p[2] => x \in Gdb!ToSet(breakpoints')
    BY <1>1, <2>1, RemovedKeeps
  <2> QED
    BY <2>1, <2>2 DEF Gdb!WantedAreListed
<1>4. CASE p[1] = "P"
  <2>1. /\ p[2] \in Gdb!Address /\ pc' = p[2] /\ fresh' = fresh \cup {p[2]}
        /\ UNCHANGED <<breakpoints, wanted>>
    BY <1>4 DEF Gdb!Handle
  <2> QED
    BY <2>1 DEF Gdb!WantedAreListed
<1>5. CASE p[1] \in {"c", "k", "g", "+", "int"}
  <2>1. UNCHANGED <<pc, breakpoints, wanted, fresh>>
    BY <1>5 DEF Gdb!Handle
  <2> QED
    BY <2>1 DEF Gdb!WantedAreListed
<1> QED
  BY <1>2, <1>3, <1>4, <1>5

(* ... and what it does to the flag and to the stepping thread. *)
LEMMA HandleMoves ==
    ASSUME Gdb!TypeOK, NEW p \in Gdb!Packets, Gdb!Handle(p)
    PROVE  /\ stopped' = (stopped \/ p = <<"int">>)
           /\ stepper' = IF p = <<"c">> /\ stepper = "wait" THEN "first" ELSE stepper
<1> USE GdbTypes, PacketKinds DEF GdbTyped
<1>1. stopped' = (stopped \/ p = <<"int">>)
  BY DEF Gdb!Handle, Gdb!Asked
<1>2. CASE p[1] \in {"Z", "z", "P"}
  BY <1>1, <1>2 DEF Gdb!Handle
<1>3. CASE p[1] = "c"
  BY <1>1, <1>3 DEF Gdb!Handle
<1>4. CASE p[1] \in {"k", "g", "+", "int"}
  BY <1>1, <1>4 DEF Gdb!Handle
<1> QED
  BY <1>2, <1>3, <1>4

(* The server takes the first packet and answers it. *)
LEMMA PollKeeps ==
    ASSUME GdbInv, Gdb!Poll
    PROVE  GdbInv'
<1> USE GdbTypes, GdbTypesNext DEF GdbInv
<1>1. GdbTyped /\ UNCHANGED <<s, debugger, disturbed>>
  BY DEF Gdb!Poll
<1>2. CASE inbox = <<>> /\ server' = "report"
           /\ UNCHANGED <<pc, breakpoints, stopped, stepper, inbox, wanted, fresh>>
  BY <1>1, <1>2 DEF GdbTyped, OneAtATime, Continues, Stepping, Gdb!WantedAreListed
<1>3. ASSUME NEW n \in DOMAIN inbox,
             LET p == Gdb!Meaning(SubSeq(inbox, 1, n))
             IN  /\ MaxList > Len(breakpoints) \/ p[1] # "Z"
                 /\ Gdb!Handle(p)
                 /\ server' = IF p[1] = "k" THEN "closing" ELSE "report"
                 /\ inbox' = SubSeq(inbox, n + 1, Len(inbox))
                                \o (IF p[1] = "+" THEN <<>> ELSE <<<<"+">>>>)
      PROVE  GdbInv'
  <2>1. PICK buffer : buffer = SubSeq(inbox, 1, n)
    OBVIOUS
  <2>2. PICK rest : rest = SubSeq(inbox, n + 1, Len(inbox))
    OBVIOUS
  <2>3. PICK p : p = Gdb!Meaning(buffer)
    OBVIOUS
  <2>4. PICK more : more = IF p[1] = "+" THEN <<>> ELSE <<<<"+">>>>
    OBVIOUS
  <2>5. /\ MaxList > Len(breakpoints) \/ p[1] # "Z"
        /\ Gdb!Handle(p)
        /\ server' \in {"report", "closing"}
        /\ inbox' = rest \o more
    BY <1>3, <2>1, <2>2, <2>3, <2>4
  <2>6. /\ inbox \in Seq(Gdb!Packets) /\ Len(inbox) <= MaxInbox
        /\ n \in 1..Len(inbox) /\ MaxInbox \in Nat
    BY <1>1, SessionAssumption DEF GdbTyped, SessionAssumption
  <2>7. /\ buffer \in Seq(Gdb!Packets) /\ buffer # <<>> /\ Len(buffer) = n
        /\ \A i \in 1..n : buffer[i] = inbox[i]
    BY <2>1, <2>6
  <2>8. /\ p \in Gdb!Packets
        /\ p # <<"+">> => \E i \in 1..n : inbox[i] = p
    BY <2>3, <2>7, MeaningIsSent
  <2>9. /\ rest \in Seq(Gdb!Packets) /\ Len(rest) = Len(inbox) - n
        /\ \A i \in 1..Len(rest) : rest[i] = inbox[i + n] /\ i + n \in 1..Len(inbox)
    BY <2>2, <2>6
  <2>10. /\ more \in Seq(Gdb!Packets) /\ Len(more) <= 1
         /\ \A i \in 1..Len(more) : more[i] = <<"+">>
    <3>1. <<"+">> \in Gdb!Packets
      BY DEF Gdb!Packets
    <3> QED
      BY <2>4, <3>1
  <2>11. /\ inbox' \in Seq(Gdb!Packets) /\ Len(inbox') <= MaxInbox
         /\ \A i \in 1..Len(inbox') : inbox'[i] # <<"+">> =>
               i \in 1..Len(rest) /\ inbox'[i] = rest[i]
    <3>1. /\ rest \o more \in Seq(Gdb!Packets)
          /\ Len(rest \o more) = Len(rest) + Len(more)
          /\ \A i \in 1..Len(rest) : (rest \o more)[i] = rest[i]
          /\ \A i \in (Len(rest) + 1)..(Len(rest) + Len(more)) :
                (rest \o more)[i] = more[i - Len(rest)] /\ i - Len(rest) \in 1..Len(more)
      <4>1. rest \in Seq(Gdb!Packets) /\ more \in Seq(Gdb!Packets)
        BY <2>9, <2>10
      <4>2. rest \o more \in Seq(Gdb!Packets) /\ Len(rest \o more) = Len(rest) + Len(more)
        BY <4>1
      <4>3. \A i \in 1..Len(rest) : (rest \o more)[i] = rest[i]
        BY <4>1
      <4>4. \A i \in (Len(rest) + 1)..(Len(rest) + Len(more)) :
               i - Len(rest) \in 1..Len(more)
        BY <4>1
      <4>5. ASSUME NEW i \in (Len(rest) + 1)..(Len(rest) + Len(more))
            PROVE  (rest \o more)[i] = more[i - Len(rest)]
        <5>1. i \in 1..(Len(rest) + Len(more)) /\ ~(i <= Len(rest))
          BY <4>1
        <5> QED
          BY <4>1, <5>1
      <4> QED
        BY <4>2, <4>3, <4>4, <4>5
    <3>2. Len(rest) \in Nat /\ Len(more) \in Nat /\ Len(rest) + Len(more) <= MaxInbox
      BY <2>6, <2>9, <2>10
    <3>3. \A i \in 1..(Len(rest) + Len(more)) :
             i \in 1..Len(rest) \/ i \in (Len(rest) + 1)..(Len(rest) + Len(more))
      BY <3>2
    <3> QED
      BY <2>5, <2>10, <3>1, <3>2, <3>3
  <2>12. Gdb!TypeOK' /\ Gdb!WantedAreListed'
         /\ (pc' \in wanted' \ fresh' => pc \in wanted \ fresh)
    <3>1. /\ breakpoints' \in Seq(Gdb!Address) /\ Len(breakpoints') <= MaxList
          /\ pc' \in Gdb!Address
          /\ wanted' \subseteq Gdb!Address /\ fresh' \subseteq Gdb!Address
          /\ wanted' \subseteq Gdb!ToSet(breakpoints')
          /\ pc' \in wanted' \ fresh' => pc \in wanted \ fresh
      BY <2>5, <2>8, HandleKeepsList
    <3>2. /\ stopped' \in BOOLEAN
          /\ stepper' \in {"enter", "wait", "first", "step", "look", "check", "stop"}
      BY <1>1, <2>5, <2>8, HandleMoves DEF GdbTyped
    <3> QED
      BY <1>1, <2>5, <2>11, <3>1, <3>2 DEF GdbTyped, Gdb!WantedAreListed
  <2>13. stepper' = "step" => pc' \notin wanted' \ fresh'
    BY <2>5, <2>8, <2>12, HandleMoves
  <2>14. ASSUME OneAtATime PROVE OneAtATime'
    <3>1. p # <<"int">>
      BY <2>6, <2>8, <2>14 DEF OneAtATime
    <3>2. \A i \in 1..Len(inbox') : inbox'[i] # <<"int">> /\ inbox'[i] # <<"c">>
      <4> SUFFICES ASSUME NEW i \in 1..Len(inbox'), inbox'[i] \in {<<"int">>, <<"c">>}
                   PROVE  FALSE
        OBVIOUS
      <4>1. i + n \in 1..Len(inbox) /\ inbox[i + n] = inbox'[i] /\ i \in Nat /\ i # 0
        BY <2>9, <2>11
      <4>2. inbox[i + n] # <<"int">>
        BY <2>6, <2>14, <4>1 DEF OneAtATime
      <4>3. inbox[i + n] = <<"c">> => Len(inbox) = 1
        <5>1. i + n \in DOMAIN inbox
          BY <2>6, <4>1
        <5>2. inbox[i + n] = <<"c">> => inbox = <<<<"c">>>>
          BY <2>14, <5>1 DEF OneAtATime, Continues
        <5> QED
          BY <5>2
      <4> QED
        BY <2>6, <4>1, <4>2, <4>3
    <3>3. ~Continues' /\ \A i \in DOMAIN inbox' : inbox'[i] # <<"int">>
      BY <2>11, <3>2 DEF Continues
    <3>4. stopped' = stopped
      BY <1>1, <2>5, <2>8, <3>1, HandleMoves DEF GdbTyped
    <3>5. CASE p = <<"c">>
      <4>1. Continues
        BY <2>6, <2>8, <3>5 DEF Continues
      <4>2. ~stopped /\ debugger = "running"
        BY <2>14, <4>1 DEF OneAtATime
      <4> QED
        BY <1>1, <3>3, <3>4, <4>2 DEF OneAtATime
    <3>6. CASE p # <<"c">>
      <4>1. stepper' = stepper
        BY <2>5, <2>8, <3>6, HandleMoves
      <4> QED
        BY <1>1, <2>14, <3>3, <3>4, <4>1 DEF OneAtATime, Stepping
    <3> QED
      BY <3>5, <3>6
  <2> QED
    BY <1>1, <2>12, <2>13, <2>14
<1> QED
  BY <1>2, <1>3 DEF Gdb!Poll

(* The server reports that the machine has stopped. *)
LEMMA ReportKeeps ==
    ASSUME GdbInv, Gdb!Report
    PROVE  GdbInv'
<1>1. Gdb!TypeOK'
  BY GdbTypes, GdbTypesNext DEF GdbInv, GdbTyped, Gdb!Report
<1>2. ASSUME OneAtATime PROVE OneAtATime'
  BY <1>2 DEF Gdb!Report, OneAtATime, Continues, Stepping
<1> QED
  BY <1>1, <1>2 DEF GdbInv, Gdb!WantedAreListed, Gdb!Report

(* The stepping thread. *)
LEMMA StepperKeeps ==
    ASSUME GdbInv, Gdb!Stepper
    PROVE  GdbInv'
<1> USE GdbTypes, GdbTypesNext DEF GdbInv
<1>1. CASE Gdb!Enter
  <2>1. Gdb!TypeOK'
    BY <1>1 DEF GdbTyped, Gdb!Enter
  <2>2. ASSUME OneAtATime PROVE OneAtATime'
    BY <1>1, <2>2 DEF Gdb!Enter, OneAtATime, Continues, Stepping
  <2> QED
    BY <1>1, <2>1, <2>2 DEF Gdb!WantedAreListed, Gdb!Enter
<1>2. CASE Gdb!Step
  <2>1. (pc + 1) % Addrs \in Gdb!Address
    BY SessionAssumption DEF SessionAssumption, GdbTyped, Gdb!Address
  <2>2. Gdb!TypeOK'
    BY <1>2, <2>1 DEF GdbTyped, Gdb!Step
  <2>3. ASSUME OneAtATime PROVE OneAtATime'
    BY <1>2, <2>3 DEF Gdb!Step, OneAtATime, Continues, Stepping
  <2> QED
    BY <1>2, <2>2, <2>3 DEF Gdb!WantedAreListed, Gdb!Step
<1>3. CASE Gdb!Look
  <2>1. Gdb!TypeOK'
    BY <1>3 DEF GdbTyped, Gdb!Look
  <2>2. ASSUME OneAtATime PROVE OneAtATime'
    BY <1>3, <2>2 DEF Gdb!Look, OneAtATime, Continues, Stepping
  <2> QED
    BY <1>3, <2>1, <2>2 DEF Gdb!WantedAreListed, Gdb!Look
<1>4. CASE Gdb!Check
  <2>1. Gdb!TypeOK'
    BY <1>4 DEF GdbTyped, Gdb!Check
  <2>2. ASSUME OneAtATime PROVE OneAtATime'
    BY <1>4, <2>2 DEF Gdb!Check, OneAtATime, Continues, Stepping
  <2>3. stepper' = "step" => pc \notin Gdb!ToSet(breakpoints)
    BY <1>4 DEF Gdb!Check, Gdb!Contains, Gdb!ToSet, GdbTyped
  <2> QED
    BY <1>4, <2>1, <2>2, <2>3 DEF Gdb!WantedAreListed, Gdb!Check
<1>5. CASE Gdb!Stop
  <2>1. Gdb!TypeOK'
    BY <1>5 DEF GdbTyped, Gdb!Stop
  <2>2. ASSUME OneAtATime PROVE OneAtATime'
    BY <1>5, <2>2 DEF Gdb!Stop, OneAtATime, Continues, Stepping
  <2> QED
    BY <1>5, <2>1, <2>2 DEF Gdb!WantedAreListed, Gdb!Stop
<1> QED
  BY <1>1, <1>2, <1>3, <1>4, <1>5 DEF Gdb!Stepper

(* ... and when it wakes up unasked, which excuses what follows. *)
LEMMA WakeKeeps ==
    ASSUME GdbInv, Gdb!Wake
    PROVE  GdbInv'
<1>1. Gdb!TypeOK'
  BY GdbTypes, GdbTypesNext DEF GdbInv, GdbTyped, Gdb!Wake
<1> QED
  BY <1>1 DEF GdbInv, Gdb!WantedAreListed, Gdb!Wake

(* Every step of a session keeps the invariant and is one that stops at the
   breakpoints. *)
LEMMA GdbStep ==
    ASSUME GdbInv, [Gdb!Next]_(Gdb!vars)
    PROVE  GdbInv'
<1>1. CASE Gdb!Next
  BY <1>1, DebuggerKeeps, PollKeeps, ReportKeeps, StepperKeeps, WakeKeeps
     DEF Gdb!Next, Gdb!Server
<1>2. CASE UNCHANGED Gdb!vars
  BY <1>2, GdbTypes, GdbTypesNext DEF GdbInv, GdbTyped, OneAtATime, Continues, Stepping,
     Gdb!WantedAreListed, Gdb!vars
<1> QED
  BY <1>1, <1>2

(* For any program and any traffic: a removed breakpoint takes no other with
   it, and until an interrupt character is sent or the stepping thread wakes
   up with no signal, a stop that is reported has taken place (gdb.cc:
   removeBreakpoint, HandleContinue, the stepping thread). *)
THEOREM SessionsAreTrue == Gdb!Spec => []SessionInv
<1>1. GdbInv => SessionInv
  BY DEF GdbInv, SessionInv, Gdb!SessionInv, Gdb!ReportsAreTrue, OneAtATime, Stepping
<1> QED
  BY <1>1, SessionStarts, GdbStep, PTL DEF Gdb!Spec

(* The stepping thread runs an instruction at a breakpoint only as the first
   one after it was told to continue, or woke up with no signal (gdb.cc: the
   loop of the stepping thread). *)
THEOREM AlwaysStopsAtBreakpoints == Gdb!Spec => StopsAtBreakpoints
<1>1. ASSUME GdbInv, [Gdb!Next]_(Gdb!vars)
      PROVE  [Gdb!Step /\ stepper = "step" => pc \notin wanted \ fresh]_(Gdb!vars)
  BY <1>1 DEF GdbInv
<1> QED
  BY <1>1, SessionStarts, GdbStep, PTL DEF Gdb!Spec, StopsAtBreakpoints, Gdb!StopsAtBreakpoints

-----------------------------------------------------------------------------
(* The configuration. *)

(* The numbers of a configuration are within their limits. *)
Within(c) == \A f \in Fields :
    Config!Limits[f].min <= c.num[f] /\ c.num[f] <= Config!Limits[f].max
Sound(c) == c \in Config!Config /\ Within(c) /\ c.floor # 0

(* The limits of a number of a configuration, and what it is by default. *)
LEMMA LimitsAreNumbers ==
    ASSUME NEW f \in Fields
    PROVE  /\ Config!Limits[f].min \in Nat /\ Config!Limits[f].max \in Nat
           /\ Config!Limits[f].default \in Nat
           /\ Config!Limits[f].min <= Config!Limits[f].default
           /\ Config!Limits[f].default <= Config!Limits[f].max
<1>1. f \in {"num-processors", "clock-rate", "tlb-size", "num-ram-frames", "asid"}
  BY ConfigAssumption DEF ConfigAssumption, Config!Limits
<1> QED
  BY <1>1 DEF Config!Limits

(* A number that is bumped is within its limits (bumpProperty). *)
LEMMA BumpedIsWithin ==
    ASSUME NEW f \in Fields, NEW v \in Int
    PROVE  /\ Config!bumpProperty(f, v) \in Nat
           /\ Config!Limits[f].min <= Config!bumpProperty(f, v)
           /\ Config!bumpProperty(f, v) <= Config!Limits[f].max
           /\ Config!Limits[f].min <= v /\ v <= Config!Limits[f].max =>
                Config!bumpProperty(f, v) = v
  BY LimitsAreNumbers DEF Config!bumpProperty

(* Numbers that are set one after the other. *)
LEMMA NumbersSet ==
    ASSUME NEW c, Sound(c), NEW values, \A f \in DOMAIN values : values[f] \in Int
    PROVE  /\ Sound(Config!SetNumbers(c, values))
           /\ Config!SetNumbers(c, values).floor = c.floor
           /\ Config!SetNumbers(c, values).roms = c.roms
           /\ Config!SetNumbers(c, values).dev = c.dev
           /\ Config!SetNumbers(c, values).mac = c.mac
           /\ \A f \in Fields : Config!SetNumbers(c, values).num[f] =
                IF f \in DOMAIN values THEN Config!bumpProperty(f, values[f]) ELSE c.num[f]
<1> DEFINE nums == [f \in Fields |-> IF f \in DOMAIN values
                                    THEN Config!bumpProperty(f, values[f]) ELSE c.num[f]]
<1>1. Config!SetNumbers(c, values) = [c EXCEPT !.num = nums]
  BY DEF Config!SetNumbers
<1>2. /\ c \in Config!Config /\ c.floor # 0
      /\ \A f \in Fields : /\ c.num[f] \in Nat
                           /\ Config!Limits[f].min <= c.num[f]
                           /\ c.num[f] <= Config!Limits[f].max
  BY DEF Sound, Within, Config!Config
<1>3. /\ nums \in [Fields -> Nat]
      /\ \A f \in Fields : Config!Limits[f].min <= nums[f] /\ nums[f] <= Config!Limits[f].max
  BY <1>2, BumpedIsWithin
<1>4. \A f \in Fields : nums[f] =
         IF f \in DOMAIN values THEN Config!bumpProperty(f, values[f]) ELSE c.num[f]
  OBVIOUS
<1> HIDE DEF nums
<1>5. /\ [c EXCEPT !.num = nums] \in Config!Config
      /\ [c EXCEPT !.num = nums].num = nums
      /\ [c EXCEPT !.num = nums].floor = c.floor
      /\ [c EXCEPT !.num = nums].roms = c.roms
      /\ [c EXCEPT !.num = nums].dev = c.dev
      /\ [c EXCEPT !.num = nums].mac = c.mac
  BY <1>2, <1>3 DEF Config!Config
<1> QED
  BY <1>1, <1>2, <1>3, <1>4, <1>5 DEF Sound, Within

(* The floor of the TLB that a file asks for. *)
LEMMA FloorSet ==
    ASSUME NEW c, Sound(c), NEW addr \in Nat
    PROVE  /\ Sound(Config!setTLBFloorAddress(c, addr))
           /\ Config!setTLBFloorAddress(c, addr).floor =
                IF addr = 0 THEN Config!RamTop(c) ELSE addr
           /\ Config!setTLBFloorAddress(c, addr).num = c.num
           /\ Config!setTLBFloorAddress(c, addr).roms = c.roms
           /\ Config!setTLBFloorAddress(c, addr).dev = c.dev
           /\ Config!setTLBFloorAddress(c, addr).mac = c.mac
<1> DEFINE top == IF addr = 0 THEN Config!RamTop(c) ELSE addr
<1>1. Config!setTLBFloorAddress(c, addr) = [c EXCEPT !.floor = top]
  BY DEF Config!setTLBFloorAddress, Config!MINWORDVAL
<1>2. c \in Config!Config /\ Within(c)
  BY DEF Sound
<1>3. top \in Nat /\ top # 0
  <2>1. c.num["num-ram-frames"] \in Nat
    BY <1>2, ConfigAssumption DEF ConfigAssumption, Config!Config
  <2> QED
    BY <2>1 DEF Config!RamTop, Config!RAMBASE
<1>4. top = IF addr = 0 THEN Config!RamTop(c) ELSE addr
  OBVIOUS
<1> HIDE DEF top
<1>5. /\ [c EXCEPT !.floor = top] \in Config!Config
      /\ [c EXCEPT !.floor = top].num = c.num
      /\ [c EXCEPT !.floor = top].floor = top
      /\ [c EXCEPT !.floor = top].roms = c.roms
      /\ [c EXCEPT !.floor = top].dev = c.dev
      /\ [c EXCEPT !.floor = top].mac = c.mac
  BY <1>2, <1>3 DEF Config!Config
<1> QED
  BY <1>1, <1>2, <1>3, <1>4, <1>5 DEF Sound, Within

(* A configuration that is made without a file. *)
LEMMA FactoryIsSound == Sound(Config!FactorySettings)
<1> DEFINE rom == CHOOSE n \in Names \ Quoted : TRUE
<1>1. rom \in Names
  BY ConfigAssumption DEF ConfigAssumption
<1> HIDE DEF rom
<1>2. Config!FactorySettings =
        [num   |-> [f \in Fields |-> Config!Limits[f].default],
         floor |-> Config!MAXWORDVAL,
         roms  |-> [r \in Config!Roms |-> rom],
         dev   |-> [d \in Slots |-> [file |-> Config!NoName, enabled |-> FALSE]],
         mac   |-> [n \in Nets |-> Config!NoMac]]
  BY DEF Config!FactorySettings, rom
<1>3. /\ [f \in Fields |-> Config!Limits[f].default] \in [Fields -> Nat]
      /\ [d \in Slots |-> [file |-> Config!NoName, enabled |-> FALSE]] \in [Slots -> Config!Slot]
      /\ [r \in Config!Roms |-> rom] \in [Config!Roms -> Names \cup {Config!NoName}]
      /\ [n \in Nets |-> Config!NoMac] \in [Nets -> Macs \cup {Config!NoMac}]
      /\ Config!MAXWORDVAL \in Nat /\ Config!MAXWORDVAL # 0
  BY <1>1, LimitsAreNumbers DEF Config!Slot, Config!MAXWORDVAL
<1>4. Config!FactorySettings \in Config!Config
  BY <1>2, <1>3 DEF Config!Config
<1>5. \A f \in Fields : Config!FactorySettings.num[f] = Config!Limits[f].default
  BY <1>2
<1> QED
  BY <1>2, <1>3, <1>4, <1>5, LimitsAreNumbers DEF Sound, Within

(* The numbers and the floor of a file. *)
LEMMA NumbersAndFloorSet ==
    ASSUME NEW c, Sound(c), NEW j, \A f \in DOMAIN j.numbers : j.numbers[f] \in Int,
           j.floor \subseteq Nat
    PROVE  /\ Sound(Config!NumbersAndFloor(c, j))
           /\ Config!NumbersAndFloor(c, j).roms = c.roms
           /\ Config!NumbersAndFloor(c, j).dev = c.dev
           /\ Config!NumbersAndFloor(c, j).mac = c.mac
           /\ \A f \in Fields : Config!NumbersAndFloor(c, j).num[f] =
                IF f \in DOMAIN j.numbers THEN Config!bumpProperty(f, j.numbers[f])
                ELSE c.num[f]
           /\ \A a \in Nat \ {0} : j.floor = {a} => Config!NumbersAndFloor(c, j).floor = a
<1> DEFINE before == [f \in DOMAIN j.numbers \ {"num-ram-frames"} |-> j.numbers[f]]
<1>1. /\ \A f \in DOMAIN before : before[f] \in Int
      /\ DOMAIN before \subseteq DOMAIN j.numbers
      /\ \A f \in DOMAIN before : before[f] = j.numbers[f]
  OBVIOUS
<1>2. PICK c1 : c1 = Config!SetNumbers(c, before)
  OBVIOUS
<1>3. PICK c2 : c2 = IF j.floor = {} THEN c1
                     ELSE Config!setTLBFloorAddress(c1, CHOOSE a \in j.floor : TRUE)
  OBVIOUS
<1>4. Config!NumbersAndFloor(c, j) = Config!SetNumbers(c2, j.numbers)
  BY <1>2, <1>3 DEF Config!NumbersAndFloor
<1> HIDE DEF before
<1>5. /\ Sound(c1) /\ c1.roms = c.roms /\ c1.dev = c.dev /\ c1.mac = c.mac
      /\ \A f \in Fields : c1.num[f] =
            IF f \in DOMAIN before THEN Config!bumpProperty(f, before[f]) ELSE c.num[f]
  BY <1>1, <1>2, NumbersSet
<1>6. /\ Sound(c2) /\ c2.num = c1.num /\ c2.roms = c.roms /\ c2.dev = c.dev /\ c2.mac = c.mac
      /\ \A a \in Nat \ {0} : j.floor = {a} => c2.floor = a
  <2>1. CASE j.floor = {}
    BY <1>3, <1>5, <2>1
  <2>2. CASE j.floor # {}
    <3>1. PICK b : b = CHOOSE a \in j.floor : TRUE
      OBVIOUS
    <3>2. b \in j.floor /\ b \in Nat /\ c2 = Config!setTLBFloorAddress(c1, b)
      BY <1>3, <2>2, <3>1
    <3> QED
      BY <1>5, <3>2, FloorSet
  <2> QED
    BY <2>1, <2>2
<1> QED
  BY <1>1, <1>4, <1>5, <1>6, NumbersSet

(* What a file says goes before what there was. *)
LEMMA OverriddenIsTyped ==
    ASSUME NEW D, NEW S, NEW old \in [D -> S], NEW new, \A x \in DOMAIN new : new[x] \in S
    PROVE  /\ Config!Overridden(old, new) \in [D -> S]
           /\ \A x \in D : Config!Overridden(old, new)[x] =
                              IF x \in DOMAIN new THEN new[x] ELSE old[x]
  BY DEF Config!Overridden

(* A file that is loaded gives a configuration, or none. *)
LEMMA LoadedIsSound ==
    ASSUME NEW j, Readable(j), j.damage = "none"
    PROVE  Sound(Config!Loaded(j))
<1>1. PICK c : c = Config!NumbersAndFloor(Config!FactorySettings, j)
  OBVIOUS
<1>2. Sound(c)
  BY <1>1, FactoryIsSound, NumbersAndFloorSet DEF Readable
<1>3. /\ c.roms \in [Config!Roms -> Names \cup {Config!NoName}]
      /\ c.dev \in [Slots -> Config!Slot]
      /\ c.mac \in [Nets -> Macs \cup {Config!NoMac}]
  BY <1>2 DEF Sound, Config!Config
<1> DEFINE roms == Config!Overridden(c.roms, j.roms)
           dev  == Config!Overridden(c.dev, j.dev)
           mac  == Config!Overridden(c.mac, j.mac)
<1>4. /\ roms \in [Config!Roms -> Names \cup {Config!NoName}]
      /\ dev \in [Slots -> Config!Slot]
      /\ mac \in [Nets -> Macs \cup {Config!NoMac}]
  BY <1>3, OverriddenIsTyped DEF Readable
<1>5. Config!Loaded(j) = [c EXCEPT !.roms = roms, !.dev = dev, !.mac = mac]
  BY <1>1 DEF Config!Loaded
<1> HIDE DEF roms, dev, mac
<1>6. PICK d : d = [c EXCEPT !.roms = roms, !.dev = dev, !.mac = mac]
  OBVIOUS
<1>7. c \in Config!Config /\ Within(c) /\ c.floor # 0
  BY <1>2 DEF Sound
<1>8. d \in Config!Config /\ d.num = c.num /\ d.floor = c.floor
  BY <1>4, <1>6, <1>7 DEF Config!Config
<1> QED
  BY <1>5, <1>6, <1>7, <1>8 DEF Sound, Within

(* What the dialog shows can be chosen. *)
LEMMA ShownIsChoice ==
    ASSUME NEW c, Sound(c)
    PROVE  /\ Choice(Config!Shown(c))
           /\ Config!Shown(c).roms = c.roms /\ Config!Shown(c).dev = c.dev
           /\ Config!Shown(c).mac = c.mac
           /\ Config!Shown(c).floor = Config!ShownFloor(c)
           /\ \A f \in Fields : \/ f = "tlb-size" /\ c.num[f] \notin Config!TlbSizes
                              \/ Config!Shown(c).num[f] = c.num[f]
<1>1. /\ c.num \in [Fields -> Nat] /\ c.floor \in Nat
      /\ c.roms \in [Config!Roms -> Names \cup {Config!NoName}]
      /\ c.dev \in [Slots -> Config!Slot]
      /\ c.mac \in [Nets -> Macs \cup {Config!NoMac}]
  BY DEF Sound, Config!Config
<1>2. /\ Config!ShownNumbers(c) \in [Fields -> Int]
      /\ \A f \in Fields : \/ f = "tlb-size" /\ c.num[f] \notin Config!TlbSizes
                           \/ Config!ShownNumbers(c)[f] = c.num[f]
  <2>1. \A f \in Fields : c.num[f] \in Int /\ Config!Limits[f].min \in Int
    BY <1>1, LimitsAreNumbers
  <2> QED
    BY <2>1 DEF Config!ShownNumbers
<1>3. Config!ShownFloor(c) \in Config!FloorChoices
  BY DEF Config!ShownFloor, Config!FloorChoices
<1>4. Config!Shown(c) = [num |-> Config!ShownNumbers(c), floor |-> Config!ShownFloor(c),
                         roms |-> c.roms, dev |-> c.dev, mac |-> c.mac]
  BY DEF Config!Shown, Config!ShownSlots, Config!ShownMacs
<1> QED
  BY <1>1, <1>2, <1>3, <1>4 DEF Choice

(* What the dialog sets, by the methods of the configuration. *)
LEMMA DialogSet ==
    ASSUME NEW c, Sound(c), NEW w, Choice(w)
    PROVE  /\ Sound(Config!saveConfigChanges(c, w))
           /\ \A f \in Fields : Config!saveConfigChanges(c, w).num[f]
                                  = Config!bumpProperty(f, w.num[f])
           /\ Config!saveConfigChanges(c, w).floor =
                IF w.floor = 0 THEN Config!RamTop(Config!saveConfigChanges(c, w)) ELSE w.floor
<1>1. PICK c1 : c1 = Config!SetNumbers(c, w.num)
  OBVIOUS
<1>2. Sound(c1) /\ \A f \in Fields : c1.num[f] = Config!bumpProperty(f, w.num[f])
  <2>1. \A f \in DOMAIN w.num : w.num[f] \in Int
    BY DEF Choice
  <2>2. DOMAIN w.num = Fields
    BY DEF Choice
  <2> QED
    BY <1>1, <2>1, <2>2, NumbersSet
<1>3. PICK c2 : c2 = Config!setTLBFloorAddress(c1, w.floor)
  OBVIOUS
<1>4. /\ Sound(c2) /\ c2.num = c1.num
      /\ c2.floor = IF w.floor = 0 THEN Config!RamTop(c1) ELSE w.floor
  <2>1. w.floor \in Nat
    BY DEF Choice, Config!FloorChoices, Config!MINWORDVAL, Config!MAXWORDVAL
  <2> QED
    BY <1>2, <1>3, <2>1, FloorSet
<1>5. PICK d : d = Config!saveConfigChanges(c, w)
  OBVIOUS
<1>6. d = [c2 EXCEPT !.roms = w.roms, !.dev = w.dev, !.mac = w.mac]
  BY <1>1, <1>3, <1>5 DEF Config!saveConfigChanges, Config!saveNetwork, Config!saveDevices,
     Config!saveNumbers
<1>7. Sound(d) /\ d.num = c2.num /\ d.floor = c2.floor
  <2>1. c2 \in Config!Config /\ Within(c2) /\ c2.floor # 0
    BY <1>4 DEF Sound
  <2>2. d \in Config!Config /\ d.num = c2.num /\ d.floor = c2.floor
    BY <1>6, <2>1 DEF Config!Config, Choice
  <2> QED
    BY <2>1, <2>2 DEF Sound, Within
<1>8. Config!RamTop(d) = Config!RamTop(c1)
  BY <1>4, <1>7 DEF Config!RamTop
<1> QED
  BY <1>2, <1>4, <1>5, <1>7, <1>8

(* What mkconfig makes of its options. *)
LEMMA MadeIsSound ==
    ASSUME NEW w, Choice(w)
    PROVE  Sound(Config!Made(w))
<1> DEFINE before == [f \in Fields \ {"num-ram-frames"} |-> w.num[f]]
<1>1. /\ \A f \in DOMAIN before : before[f] \in Int
      /\ \A f \in DOMAIN w.num : w.num[f] \in Int
  BY DEF Choice
<1>2. PICK c1 : c1 = Config!SetNumbers(Config!FactorySettings, before)
  OBVIOUS
<1>3. PICK c2 : c2 = Config!setTLBFloorAddress(c1, w.floor)
  OBVIOUS
<1>4. PICK c3 : c3 = Config!SetNumbers(c2, w.num)
  OBVIOUS
<1>5. Config!Made(w) = Config!askForDevice([c3 EXCEPT !.roms = w.roms], w.dev)
  BY <1>2, <1>3, <1>4 DEF Config!Made
<1> HIDE DEF before
<1>6. Sound(c1)
  BY <1>1, <1>2, FactoryIsSound, NumbersSet
<1>7. Sound(c2)
  <2>1. w.floor \in Nat
    BY DEF Choice, Config!FloorChoices, Config!MINWORDVAL, Config!MAXWORDVAL
  <2> QED
    BY <1>3, <1>6, <2>1, FloorSet
<1>8. Sound(c3)
  BY <1>1, <1>4, <1>7, NumbersSet
<1> DEFINE dev == [d \in Slots |-> IF w.dev[d].file = Config!NoName THEN c3.dev[d]
                                  ELSE w.dev[d]]
<1>9. c3 \in Config!Config /\ Within(c3) /\ c3.floor # 0
  BY <1>8 DEF Sound
<1>10. dev \in [Slots -> Config!Slot]
  BY <1>9 DEF Choice, Config!Config
<1>11. [c3 EXCEPT !.roms = w.roms].dev = c3.dev
  BY <1>9 DEF Config!Config
<1>12. Config!Made(w) = [[c3 EXCEPT !.roms = w.roms] EXCEPT !.dev = dev]
  BY <1>5, <1>11 DEF Config!askForDevice
<1> HIDE DEF dev
<1>13. PICK d : d = [[c3 EXCEPT !.roms = w.roms] EXCEPT !.dev = dev]
  OBVIOUS
<1>14. d \in Config!Config /\ d.num = c3.num /\ d.floor = c3.floor
  BY <1>9, <1>10, <1>13 DEF Choice, Config!Config
<1> QED
  BY <1>9, <1>12, <1>13, <1>14 DEF Sound, Within

(* A file that is saved can be read. *)
LEMMA SavedIsReadable ==
    ASSUME NEW c, Sound(c)
    PROVE  Readable(Config!Saved(c))
<1>1. CASE Config!NamesIn(c) \cap Quoted # {}
  BY <1>1 DEF Config!Saved, Config!Broken, Readable
<1>2. CASE Config!NamesIn(c) \cap Quoted = {}
  <2> DEFINE devs == [d \in Config!KeptSlots(c) |-> c.dev[d]]
             macs == [n \in {m \in Config!KeptSlots(c) \cap Nets : c.mac[m] # Config!NoMac}
                        |-> c.mac[n]]
  <2>1. c \in Config!Config
    BY DEF Sound
  <2>2. /\ \A d \in DOMAIN devs : devs[d] \in Config!Slot
        /\ \A n \in DOMAIN macs : macs[n] \in Macs \cup {Config!NoMac}
    BY <2>1 DEF Config!Config, Config!KeptSlots
  <2>3. Config!Saved(c) = [damage |-> "none", numbers |-> c.num, floor |-> {c.floor},
                           roms |-> c.roms, dev |-> devs, mac |-> macs]
    BY <1>2 DEF Config!Saved, Config!Good
  <2> HIDE DEF devs, macs
  <2>4. /\ \A f \in DOMAIN c.num : c.num[f] \in Int
        /\ {c.floor} \subseteq Nat
        /\ \A r \in DOMAIN c.roms : c.roms[r] \in Names \cup {Config!NoName}
    BY <2>1 DEF Config!Config
  <2> QED
    BY <2>2, <2>3, <2>4 DEF Readable
<1> QED
  BY <1>1, <1>2

(* A configuration that is saved, and is not broken by a quote, is loaded as
   it was. *)
LEMMA SavedComesBack ==
    ASSUME NEW c, Sound(c)
    PROVE  LET j == Config!Saved(c) IN
           \/ j.damage = "none" /\ Config!Loaded(j) = Config!Essential(c)
           \/ j.damage # "none" /\ Config!NamesIn(c) \cap Quoted # {}
<1>1. CASE Config!NamesIn(c) \cap Quoted # {}
  BY <1>1 DEF Config!Saved, Config!Broken
<1>2. CASE Config!NamesIn(c) \cap Quoted = {}
  <2> DEFINE devs == [d \in Config!KeptSlots(c) |-> c.dev[d]]
             macs == [n \in {m \in Config!KeptSlots(c) \cap Nets : c.mac[m] # Config!NoMac}
                        |-> c.mac[n]]
  <2>1. PICK j : j = Config!Saved(c)
    OBVIOUS
  <2>2. j = [damage |-> "none", numbers |-> c.num, floor |-> {c.floor},
             roms |-> c.roms, dev |-> devs, mac |-> macs]
    BY <1>2, <2>1 DEF Config!Saved, Config!Good
  <2>3. /\ c.num \in [Fields -> Nat] /\ c.floor \in Nat \ {0}
        /\ c.roms \in [Config!Roms -> Names \cup {Config!NoName}]
        /\ c.dev \in [Slots -> Config!Slot]
        /\ c.mac \in [Nets -> Macs \cup {Config!NoMac}]
        /\ Within(c)
    BY DEF Sound, Config!Config
  <2>4. PICK b : b = Config!NumbersAndFloor(Config!FactorySettings, j)
    OBVIOUS
  <2>5. PICK l : l = Config!Loaded(j)
    OBVIOUS
  <2>6. PICK e : e = Config!Essential(c)
    OBVIOUS
  <2>7. /\ Sound(b) /\ b.num = c.num /\ b.floor = c.floor
        /\ b.roms = Config!FactorySettings.roms /\ b.dev = Config!FactorySettings.dev
        /\ b.mac = Config!FactorySettings.mac
    <3>1. j.numbers = c.num /\ j.floor = {c.floor} /\ DOMAIN c.num = Fields
      BY <2>2, <2>3
    <3>2. (\A f \in DOMAIN j.numbers : j.numbers[f] \in Int) /\ j.floor \subseteq Nat
      BY <2>3, <3>1
    <3>3. /\ Sound(b) /\ b.floor = c.floor
          /\ b.roms = Config!FactorySettings.roms /\ b.dev = Config!FactorySettings.dev
          /\ b.mac = Config!FactorySettings.mac
          /\ \A f \in Fields : b.num[f] = Config!bumpProperty(f, c.num[f])
      BY <2>3, <2>4, <3>1, <3>2, FactoryIsSound, NumbersAndFloorSet, SMTT(40)
    <3>4. \A f \in Fields : b.num[f] = c.num[f]
      BY <2>3, <3>3, BumpedIsWithin DEF Within
    <3>5. b.num \in [Fields -> Nat]
      BY <3>3 DEF Sound, Config!Config
    <3> QED
      BY <2>3, <3>3, <3>4, <3>5
  <2>8. /\ \A d \in Slots : Config!FactorySettings.dev[d]
                              = [file |-> Config!NoName, enabled |-> FALSE]
        /\ \A n \in Nets : Config!FactorySettings.mac[n] = Config!NoMac
    BY DEF Config!FactorySettings
  <2> DEFINE dev == [d \in Slots |-> IF c.dev[d].file = Config!NoName
                                    THEN Config!FactorySettings.dev[d] ELSE c.dev[d]]
             mac == [n \in Nets |-> IF c.dev[n].file = Config!NoName THEN Config!NoMac
                                   ELSE c.mac[n]]
  <2>9. e = [c EXCEPT !.dev = dev, !.mac = mac]
    BY <2>6 DEF Config!Essential
  <2>10. l = [b EXCEPT !.roms = Config!Overridden(b.roms, j.roms),
                       !.dev = Config!Overridden(b.dev, j.dev),
                       !.mac = Config!Overridden(b.mac, j.mac)]
    BY <2>4, <2>5 DEF Config!Loaded
  <2>11. /\ b \in Config!Config
         /\ b.roms \in [Config!Roms -> Names \cup {Config!NoName}]
         /\ b.dev \in [Slots -> Config!Slot] /\ b.mac \in [Nets -> Macs \cup {Config!NoMac}]
    BY <2>7 DEF Sound, Config!Config
  <2>12. Config!Overridden(b.roms, j.roms) = c.roms
    BY <2>2, <2>3, <2>11 DEF Config!Overridden
  <2>13. Config!Overridden(b.dev, j.dev) = dev
    <3>1. j.dev = devs
      BY <2>2
    <3>2. \A d \in Slots : (IF d \in DOMAIN devs THEN devs[d] ELSE b.dev[d]) = dev[d]
      BY <2>7 DEF Config!KeptSlots
    <3> QED
      BY <2>11, <3>1, <3>2 DEF Config!Overridden
  <2>14. Config!Overridden(b.mac, j.mac) = mac
    <3>1. j.mac = macs
      BY <2>2
    <3>2. \A n \in Nets : (IF n \in DOMAIN macs THEN macs[n] ELSE b.mac[n]) = mac[n]
      BY <2>7, <2>8, ConfigAssumption DEF Config!KeptSlots, ConfigAssumption
    <3> QED
      BY <2>11, <3>1, <3>2 DEF Config!Overridden
  <2> HIDE DEF dev, mac, devs, macs
  <2>15. l = [b EXCEPT !.roms = c.roms, !.dev = dev, !.mac = mac]
    BY <2>10, <2>12, <2>13, <2>14
  <2>16. c \in Config!Config
    BY DEF Sound
  <2>17. l = e
    BY <2>7, <2>9, <2>11, <2>15, <2>16 DEF Config!Config
  <2>18. j.damage = "none"
    BY <2>2
  <2> QED
    BY <2>1, <2>5, <2>6, <2>17, <2>18
<1> QED
  BY <1>1, <1>2

(* What the front end never leaves. *)
CfgInv ==
    /\ config # NoConfig => Sound(config)
    /\ Readable(file)
    /\ Config!MachineIsConfigured
    /\ editable <=> config # NoConfig /\ ~Config!On

(* A configuration is none of the marks that stand for its absence. *)
LEMMA SoundIsConfig ==
    ASSUME NEW c, Sound(c)
    PROVE  c # NoConfig /\ c \in Config!Config
  BY ConfigAssumption DEF ConfigAssumption, Sound

(* A machine that is built is not one that is switched off. *)
LEMMA BuiltIsOn ==
    ASSUME NEW c, Sound(c)
    PROVE  Config!Built(c) # Off
<1>1. c.num \in [Fields -> Nat]
  BY DEF Sound, Config!Config
<1>2. Config!Built(c) \in [num : [Fields -> Nat], devices : SUBSET Slots]
  BY <1>1 DEF Config!Built, Config!Installed
<1> QED
  BY <1>2, ConfigAssumption DEF ConfigAssumption

(* A machine whose configuration is replaced is switched off. *)
LEMMA NewConfig ==
    ASSUME NEW c, Sound(c), Config!setCurrentConfig(c), Readable(file')
    PROVE  CfgInv'
  BY SoundIsConfig DEF CfgInv, Config!setCurrentConfig, Config!HaltsMachine, Config!On,
     Config!MachineIsConfigured

(* There is no configuration at the start. *)
LEMMA ConfigStarts == Config!Init => CfgInv
<1> SUFFICES ASSUME Config!Init PROVE CfgInv
  OBVIOUS
<1>1. Readable(file)
  <2>1. PICK w \in Chosen : file = Config!Saved(Config!Made(w))
    BY DEF Config!Init
  <2>2. Sound(Config!Made(w))
    BY ConfigAssumption, MadeIsSound DEF ConfigAssumption
  <2> QED
    BY <2>1, <2>2, SavedIsReadable
<1> QED
  BY <1>1 DEF CfgInv, Config!Init, Config!On, Config!MachineIsConfigured

(* A file that is broken contains nothing. *)
LEMMA BrokenIsReadable == Readable(Config!Broken)
  BY DEF Readable, Config!Broken

(* What the dialog makes. *)
LEMMA EditKeeps ==
    ASSUME CfgInv, NEW w, Choice(w), Config!EditConfig(w)
    PROVE  /\ CfgInv' /\ config' = Config!saveConfigChanges(config, w) /\ Sound(config)
<1>1. /\ config # NoConfig /\ Sound(config) /\ editable /\ Readable(file)
      /\ ~Config!On
  BY DEF CfgInv, Config!EditConfig
<1>2. Sound(config') /\ config' = Config!saveConfigChanges(config, w)
  BY <1>1, DialogSet DEF Config!EditConfig
<1>3. Readable(file')
  BY <1>1, <1>2, SavedIsReadable, BrokenIsReadable DEF Config!EditConfig
<1>4. config' # NoConfig
  BY <1>2, SoundIsConfig
<1> QED
  BY <1>1, <1>2, <1>3, <1>4 DEF CfgInv, Config!EditConfig, Config!On, Config!MachineIsConfigured

(* Every step of the front end keeps the invariant. *)
LEMMA ConfigStep ==
    ASSUME CfgInv, [Config!Next]_(Config!vars)
    PROVE  CfgInv'
<1>1. CASE Config!LoadConfig
  <2>1. Readable(file')
    BY <1>1 DEF CfgInv, Config!LoadConfig
  <2>2. CASE file.damage = "none" /\ Config!setCurrentConfig(Config!Loaded(file))
    <3>1. Sound(Config!Loaded(file))
      BY <2>2, LoadedIsSound DEF CfgInv
    <3> QED
      BY <2>1, <2>2, <3>1, NewConfig
  <2>3. CASE UNCHANGED <<config, built, editable>>
    BY <2>1, <2>3 DEF CfgInv, Config!On, Config!MachineIsConfigured
  <2> QED
    BY <1>1, <2>2, <2>3 DEF Config!LoadConfig
<1>2. CASE Config!CreateConfig
  <2>1. Readable(file')
    BY <1>2, FactoryIsSound, SavedIsReadable, BrokenIsReadable DEF CfgInv, Config!CreateConfig
  <2>2. CASE Config!setCurrentConfig(Config!FactorySettings)
    BY <2>1, <2>2, FactoryIsSound, NewConfig
  <2>3. CASE UNCHANGED <<config, built, editable>>
    BY <2>1, <2>3 DEF CfgInv, Config!On, Config!MachineIsConfigured
  <2> QED
    BY <1>2, <2>2, <2>3 DEF Config!CreateConfig
<1>3. ASSUME editable, NEW w \in Config!Widgets, Config!EditConfig(w)
      PROVE  CfgInv'
  <2>1. Sound(config)
    BY <1>3 DEF CfgInv
  <2>2. Choice(w)
    BY <2>1, ShownIsChoice, ConfigAssumption DEF ConfigAssumption, Config!Widgets
  <2> QED
    BY <1>3, <2>2, EditKeeps
<1>4. ASSUME NEW j \in FilesByHand, Config!EditFile(j)
      PROVE  CfgInv'
  <2>1. Readable(file')
    BY <1>4, ConfigAssumption DEF ConfigAssumption, Config!EditFile
  <2> QED
    BY <1>4, <2>1 DEF CfgInv, Config!EditFile, Config!On, Config!MachineIsConfigured
<1>5. CASE Config!StartMachine
  <2>1. Config!Built(config) # Off
    BY <1>5, BuiltIsOn DEF CfgInv, Config!StartMachine
  <2> QED
    BY <1>5, <2>1 DEF CfgInv, Config!StartMachine, Config!On, Config!MachineIsConfigured
<1>6. CASE Config!HaltMachine
  BY <1>6 DEF CfgInv, Config!HaltMachine, Config!HaltsMachine, Config!On,
     Config!MachineIsConfigured
<1>7. CASE Config!ResetMachine
  <2>1. config # NoConfig /\ Sound(config)
    BY <1>7 DEF CfgInv, Config!ResetMachine, Config!MachineIsConfigured
  <2>2. Config!Built(config) # Off
    BY <2>1, BuiltIsOn
  <2> QED
    BY <1>7, <2>1, <2>2 DEF CfgInv, Config!ResetMachine, Config!HaltsMachine, Config!On,
       Config!MachineIsConfigured
<1>8. CASE UNCHANGED Config!vars
  BY <1>8 DEF CfgInv, Config!vars, Config!On, Config!MachineIsConfigured
<1> QED
  BY <1>1, <1>2, <1>3, <1>4, <1>5, <1>6, <1>7, <1>8 DEF Config!Next

(* Whatever a file contains and whatever is chosen: within the limits, the
   one of the machine that is on, and not lost when it is saved
   (MachineConfig::LoadFromFile, Save, the dialog and mkconfig). *)
THEOREM ConfigAlwaysRight == Config!Spec => []ConfigInv
<1>1. CfgInv => ConfigInv
  <2>1. ASSUME CfgInv, config # NoConfig
        PROVE  /\ config \in Config!Config /\ Within(config)
               /\ Config!SavedIsLoaded
    BY <2>1, SavedComesBack DEF CfgInv, Sound, Config!SavedIsLoaded
  <2>2. ASSUME config = NoConfig
        PROVE  Config!SavedIsLoaded
    BY <2>2 DEF Config!SavedIsLoaded
  <2> QED
    BY <2>1, <2>2 DEF CfgInv, Within, ConfigInv, Config!ConfigInv, Config!WithinLimits
<1> QED
  BY <1>1, ConfigStarts, ConfigStep, PTL DEF Config!Spec

(* Whatever is chosen in the dialog, and whatever it showed
   (machine_config_dialog.cc: saveConfigChanges). *)
THEOREM DialogAlwaysKeeps == Config!Spec => DialogKeeps
<1>1. ASSUME CfgInv,
             editable, NEW w \in Config!Widgets, Config!EditConfig(w)
      PROVE  /\ config'.floor \in Config!FloorChoices \cup {Config!RamTop(config')}
             /\ w = Config!Shown(config) => \A f \in Fields :
                   config'.num[f] = config.num[f]
                       \/ (f = "tlb-size" /\ config.num[f] \notin Config!TlbSizes)
             /\ w = Config!Shown(config) =>
                   config'.floor = config.floor \/ config.floor \notin Config!FloorChoices
  <2>1. Sound(config) /\ editable
    BY <1>1 DEF CfgInv, Config!EditConfig
  <2>2. Choice(w)
    BY <1>1, <2>1, ShownIsChoice, ConfigAssumption DEF ConfigAssumption, Config!Widgets
  <2>3. /\ config' = Config!saveConfigChanges(config, w)
    BY <1>1, <2>2, EditKeeps
  <2>4. /\ \A f \in Fields : config'.num[f] = Config!bumpProperty(f, w.num[f])
        /\ config'.floor = IF w.floor = 0 THEN Config!RamTop(config') ELSE w.floor
    BY <2>1, <2>2, <2>3, DialogSet
  <2>5. config'.floor \in Config!FloorChoices \cup {Config!RamTop(config')}
    BY <2>2, <2>4 DEF Choice
  <2>6. ASSUME w = Config!Shown(config), NEW f \in Fields
        PROVE  config'.num[f] = config.num[f]
                       \/ (f = "tlb-size" /\ config.num[f] \notin Config!TlbSizes)
    <3>1. \/ f = "tlb-size" /\ config.num[f] \notin Config!TlbSizes
          \/ w.num[f] = config.num[f]
      BY <2>1, <2>6, ShownIsChoice
    <3>2. /\ config.num[f] \in Int
          /\ Config!Limits[f].min <= config.num[f] /\ config.num[f] <= Config!Limits[f].max
      BY <2>1 DEF Sound, Within, Config!Config
    <3>3. Config!bumpProperty(f, config.num[f]) = config.num[f]
      BY <3>2, BumpedIsWithin
    <3> QED
      BY <2>4, <3>1, <3>3
  <2>7. ASSUME w = Config!Shown(config)
        PROVE  config'.floor = config.floor \/ config.floor \notin Config!FloorChoices
    <3>1. w.floor = Config!ShownFloor(config) /\ config.floor # 0
      BY <2>1, <2>7, ShownIsChoice DEF Sound
    <3> QED
      BY <2>4, <3>1 DEF Config!ShownFloor
  <2> QED
    BY <2>5, <2>6, <2>7
<1>2. ASSUME CfgInv, [Config!Next]_(Config!vars)
      PROVE  [editable => \A w \in Config!Widgets : Config!EditConfig(w) =>
                 /\ config'.floor \in Config!FloorChoices \cup {Config!RamTop(config')}
                 /\ w = Config!Shown(config) => \A f \in Fields :
                       config'.num[f] = config.num[f]
                           \/ (f = "tlb-size" /\ config.num[f] \notin Config!TlbSizes)
                 /\ w = Config!Shown(config) =>
                       config'.floor = config.floor
                           \/ config.floor \notin Config!FloorChoices]_(Config!vars)
  BY <1>1, <1>2
<1> QED
  BY <1>2, ConfigStarts, ConfigStep, PTL DEF Config!Spec, DialogKeeps, Config!DialogKeeps

-----------------------------------------------------------------------------
(* The stop points. *)

(* A step of the search stays in the table. *)
LEMMA NarrowedStays ==
    ASSUME NEW t \in Seq(Symbol), NEW pos \in Nat,
           NEW l \in (0..Len(t)) \X (-1..(Len(t) - 1))
    PROVE  /\ Narrowed(t, pos, l) \in (0..Len(t)) \X (-1..(Len(t) - 1))
           /\ l[1] <= l[2] => Middle(l) \in 0..(Len(t) - 1)
<1>1. l[1] \in 0..Len(t) /\ l[2] \in -1..(Len(t) - 1) /\ l = <<l[1], l[2]>> /\ Len(t) \in Nat
  OBVIOUS
<1>2. l[1] <= l[2] => Middle(l) \in 0..(Len(t) - 1)
  BY <1>1 DEF Middle
<1>3. CASE l[1] > l[2] \/ FoundIn(t, pos, l)
  <2>1. Narrowed(t, pos, l) = l
    BY <1>3 DEF Narrowed
  <2> QED
    BY <1>2, <2>1
<1>4. CASE ~(l[1] > l[2] \/ FoundIn(t, pos, l))
  <2>1. Middle(l) \in 0..(Len(t) - 1)
    BY <1>1, <1>2, <1>4
  <2>2. Narrowed(t, pos, l) \in {<<Middle(l) + 1, l[2]>>, <<l[1], Middle(l) - 1>>}
    BY <1>4 DEF Narrowed
  <2>3. /\ Middle(l) + 1 \in 0..Len(t) /\ Middle(l) - 1 \in -1..(Len(t) - 1)
    BY <1>1, <2>1
  <2> QED
    BY <1>1, <1>2, <2>2, <2>3
<1> QED
  BY <1>3, <1>4

(* What the search finds is in the table, and contains the address. *)
LEMMA SearchFinds ==
    ASSUME NEW t \in Seq(Symbol), NEW pos \in Nat, Search(t, pos) # NOTFOUND
    PROVE  Search(t, pos) + 1 \in 1..Len(t) /\ WithinSymbol(t[Search(t, pos) + 1], pos)
<1> SUFFICES ASSUME NEW n \in Nat, n = Len(t)
             PROVE  Search(t, pos) + 1 \in 1..n /\ WithinSymbol(t[Search(t, pos) + 1], pos)
  OBVIOUS
<1> DEFINE Parts == (0..n) \X (-1..(n - 1))
<1>1. \A l \in Parts : /\ Narrowed(t, pos, l) \in Parts
                       /\ l[1] <= l[2] => Middle(l) \in 0..(n - 1)
  BY NarrowedStays
<1>2. PICK v \in Parts : v = <<0, n - 1>>
  <2> <<0, n - 1>> \in Parts
    OBVIOUS
  <2> QED
    OBVIOUS
<1> HIDE DEF Parts
<1>3. PICK F \in Moves(n, Parts) : \A k \in 1..n, x \in Parts : F[k][x] = Narrowed(t, pos, x)
  <2> DEFINE G == [k \in 1..n |-> [x \in Parts |-> Narrowed(t, pos, x)]]
  <2>1. G \in [1..n -> [Parts -> Parts]] /\ \A k \in 1..n, x \in Parts : G[k][x] = Narrowed(t, pos, x)
    BY <1>1
  <2> HIDE DEF G
  <2> QED
    BY <2>1 DEF Moves
<1>4. PICK f \in RunsOf(n, Parts) : IsRun(f, n, v, F)
  BY RunExists, Zenon
<1>5. \A k \in 0..n : f[k] = IF k = 0 THEN <<0, n - 1>> ELSE Narrowed(t, pos, f[k - 1])
  <2>1. \A k \in 0..n : k # 0 => k \in 1..n /\ k - 1 \in 0..n /\ f[k - 1] \in Parts
    BY <1>4 DEF RunsOf
  <2> QED
    BY <1>2, <1>3, <1>4, <2>1 DEF IsRun
<1> DEFINE g == CHOOSE h : h = [k \in 0..n |-> IF k = 0 THEN <<0, n - 1>>
                                              ELSE Narrowed(t, pos, h[k - 1])]
<1>6. f = [k \in 0..n |-> IF k = 0 THEN <<0, n - 1>> ELSE Narrowed(t, pos, f[k - 1])]
  BY <1>4, <1>5 DEF RunsOf
<1>7. g = [k \in 0..n |-> IF k = 0 THEN <<0, n - 1>> ELSE Narrowed(t, pos, g[k - 1])]
  BY <1>6
<1>8. Search(t, pos) = IF FoundIn(t, pos, g[n]) THEN Middle(g[n]) ELSE NOTFOUND
  BY DEF Search
<1> HIDE DEF g
<1>9. /\ g[0] = <<0, n - 1>>
      /\ \A k \in Nat : k + 1 <= n => g[k + 1] = Narrowed(t, pos, g[k])
  <2>1. 0 \in 0..n /\ \A k \in Nat : k + 1 <= n => k + 1 \in 0..n /\ k + 1 # 0 /\ (k + 1) - 1 = k
    OBVIOUS
  <2> QED
    BY <1>7, <2>1
<1> DEFINE Good == {k \in Nat : k <= n => g[k] \in Parts}
<1>10. 0 \in Good
  BY <1>2, <1>9
<1>11. ASSUME NEW k \in Nat, k \in Good PROVE k + 1 \in Good
  BY <1>1, <1>9, <1>11
<1> HIDE DEF Good
<1>12. n \in Good
  BY <1>10, <1>11, Induction
<1>13. g[n] \in Parts
  BY <1>12 DEF Good
<1>14. FoundIn(t, pos, g[n]) /\ Search(t, pos) = Middle(g[n])
  BY <1>8
<1>15. g[n][1] <= g[n][2] /\ WithinSymbol(t[Middle(g[n]) + 1], pos)
  BY <1>14 DEF FoundIn
<1>16. Middle(g[n]) \in 0..(n - 1)
  BY <1>1, <1>13, <1>15
<1> QED
  BY <1>14, <1>15, <1>16

(* Two tables, of functions and of objects. *)
Tables == [asid : Asids, funs : Seq(Symbol), objs : Seq(Symbol)]

LEMMA TablesOfSymbols == \A f \in Symbols : Table(f) \in Tables
  BY StopPointAssumption DEF Table, Tables

(* The symbol that is found, if there is one, contains the address. *)
LEMMA SymbolFound ==
    ASSUME NEW tab \in Tables, NEW a \in Nat
    PROVE  /\ \A x \in SymbolAt(tab, a) : x \in Symbol /\ WithinSymbol(x, a)
           /\ \A x, y \in SymbolAt(tab, a) : x = y
<1>1. tab.funs \in Seq(Symbol) /\ tab.objs \in Seq(Symbol)
  BY DEF Tables
<1>2. CASE Search(tab.funs, a) # NOTFOUND
  <2>1. SymbolAt(tab, a) = {tab.funs[Search(tab.funs, a) + 1]}
    BY <1>2 DEF SymbolAt
  <2>2. Search(tab.funs, a) + 1 \in 1..Len(tab.funs) /\ WithinSymbol(tab.funs[Search(tab.funs, a) + 1], a)
    BY <1>1, <1>2, SearchFinds
  <2>3. tab.funs[Search(tab.funs, a) + 1] \in Symbol
    BY <1>1, <2>2
  <2> QED
    BY <2>1, <2>2, <2>3
<1>3. CASE Search(tab.funs, a) = NOTFOUND /\ Search(tab.objs, a) # NOTFOUND
  <2>1. SymbolAt(tab, a) = {tab.objs[Search(tab.objs, a) + 1]}
    BY <1>3 DEF SymbolAt
  <2>2. Search(tab.objs, a) + 1 \in 1..Len(tab.objs) /\ WithinSymbol(tab.objs[Search(tab.objs, a) + 1], a)
    BY <1>1, <1>3, SearchFinds
  <2>3. tab.objs[Search(tab.objs, a) + 1] \in Symbol
    BY <1>1, <2>2
  <2> QED
    BY <2>1, <2>2, <2>3
<1>4. CASE Search(tab.funs, a) = NOTFOUND /\ Search(tab.objs, a) = NOTFOUND
  BY <1>4 DEF SymbolAt
<1> QED
  BY <1>2, <1>3, <1>4

(* A range that moves keeps its length, and its distance from the symbol. *)
LEMMA MovedKeeps ==
    ASSUME NEW old \in Tables, NEW new \in Tables, NEW r \in AddressRange
    PROVE  /\ Moved(old, new, r) \in AddressRange
           /\ Moved(old, new, r).asid = r.asid
           /\ Moved(old, new, r).end - Moved(old, new, r).start = r.end - r.start
           /\ IF \E x \in SymbolAt(old, r.start) : OneFound(Lookup(new, x.name, x.type))
              THEN \E x \in SymbolAt(old, r.start) : \E y \in ToSet(All(new)) :
                     /\ y.name = x.name /\ y.type = x.type
                     /\ Moved(old, new, r).start - y.start = r.start - x.start
              ELSE Moved(old, new, r) = r
<1> DEFINE x0 == CHOOSE y \in SymbolAt(old, r.start) : TRUE
           dest == Lookup(new, x0.name, x0.type)
           i0 == CHOOSE i \in dest : TRUE
           start == All(new)[i0].start + (r.start - x0.start)
           to == [r EXCEPT !.start = start, !.end = start + (r.end - r.start)]
<1>1. Moved(old, new, r) = IF SymbolAt(old, r.start) # {} /\ OneFound(dest) THEN to ELSE r
  BY DEF Moved
<1>2. r.start \in Nat /\ r.end \in Nat /\ r.asid \in Asids /\ r.start <= r.end
  BY DEF AddressRange
<1>3. CASE SymbolAt(old, r.start) # {} /\ OneFound(dest)
  <2>1. x0 \in SymbolAt(old, r.start)
    BY <1>3
  <2>2. x0 \in Symbol /\ WithinSymbol(x0, r.start)
    BY <1>2, <2>1, SymbolFound
  <2>3. x0.start \in Nat /\ x0.start <= r.start
    BY <1>2, <2>2 DEF Symbol, WithinSymbol
  <2>4. PICK i \in dest : dest = {i}
    BY <1>3 DEF OneFound
  <2>5. i0 \in dest
    BY <2>4
  <2> HIDE DEF x0
  <2>6. i0 \in DOMAIN All(new) /\ All(new)[i0].name = x0.name /\ All(new)[i0].type = x0.type
    BY <2>5 DEF Lookup
  <2>7. All(new) \in Seq(Symbol)
    <3>1. new.funs \in Seq(Symbol) /\ new.objs \in Seq(Symbol)
      BY DEF Tables
    <3> QED
      BY <3>1 DEF All
  <2>8. All(new)[i0] \in Symbol /\ All(new)[i0] \in ToSet(All(new))
    <3>1. PICK list \in Seq(Symbol) : list = All(new)
      BY <2>7
    <3>2. i0 \in DOMAIN list
      BY <2>6, <3>1
    <3> HIDE DEF i0
    <3>3. list[i0] \in Symbol /\ list[i0] \in ToSet(list)
      BY <3>2 DEF ToSet
    <3> QED
      BY <3>1, <3>3
  <2> HIDE DEF i0
  <2>9. All(new)[i0].start \in Nat
    BY <2>8 DEF Symbol
  <2>10. start \in Nat /\ start - All(new)[i0].start = r.start - x0.start
    BY <1>2, <2>3, <2>9
  <2> HIDE DEF start
  <2>11. start + (r.end - r.start) \in Nat /\ start <= start + (r.end - r.start)
         /\ (start + (r.end - r.start)) - start = r.end - r.start
    BY <1>2, <2>10
  <2>12. /\ to \in AddressRange /\ to.asid = r.asid /\ to.start = start
         /\ to.end = start + (r.end - r.start)
    BY <2>10, <2>11 DEF AddressRange
  <2>13. Moved(old, new, r) = to
    BY <1>1, <1>3
  <2>14. \E x \in SymbolAt(old, r.start) : OneFound(Lookup(new, x.name, x.type))
    BY <1>3, <2>1
  <2> QED
    BY <2>1, <2>6, <2>8, <2>10, <2>11, <2>12, <2>13, <2>14
<1>4. CASE ~(SymbolAt(old, r.start) # {} /\ OneFound(dest))
  <2>1. Moved(old, new, r) = r
    BY <1>1, <1>4
  <2>2. ASSUME NEW x \in SymbolAt(old, r.start), OneFound(Lookup(new, x.name, x.type))
        PROVE  FALSE
    <3>1. x0 \in SymbolAt(old, r.start)
      BY <2>2
    <3>2. x0 = x
      BY <1>2, <2>2, <3>1, SymbolFound
    <3> QED
      BY <1>4, <2>2, <3>2
  <2> QED
    BY <2>1, <2>2
<1> QED
  BY <1>3, <1>4

-----------------------------------------------------------------------------
(* The order of the addresses is total. *)
LEMMA AddressesOrdered ==
    ASSUME NEW k \in Key, NEW l \in Key, NEW m \in Key
    PROVE  /\ ~LessThan(k, k)
           /\ LessThan(k, l) \/ k = l \/ LessThan(l, k)
           /\ ~(LessThan(k, l) /\ LessThan(l, k))
           /\ LessThan(k, l) /\ LessThan(l, m) => LessThan(k, m)
<1>1. /\ k[1] \in Nat /\ l[1] \in Nat /\ m[1] \in Nat
      /\ k[2] \in Nat /\ l[2] \in Nat /\ m[2] \in Nat
      /\ k = <<k[1], k[2]>> /\ l = <<l[1], l[2]>> /\ m = <<m[1], m[2]>>
  BY StopPointAssumption DEF Key, Asids
<1> QED
  BY <1>1 DEF LessThan

(* Of the addresses of some ranges there is a first and a last one. *)
LEMMA EndsExist ==
    ASSUME NEW ps \in Seq(Point), NEW T, T # {},
           T \subseteq {KeyOf(ps[i].range) : i \in 1..Len(ps)}
    PROVE  /\ \E k \in T : \A l \in T : ~LessThan(l, k)
           /\ \E k \in T : \A l \in T : ~LessThan(k, l)
<1> DEFINE keys(n) == {KeyOf(ps[i].range) : i \in 1..n}
           Ends(U) == /\ \E k \in U : \A l \in U : ~LessThan(l, k)
                      /\ \E k \in U : \A l \in U : ~LessThan(k, l)
           Good == {n \in Nat : n <= Len(ps) => \A U \in SUBSET keys(n) : U # {} => Ends(U)}
<1>1. \A i \in 1..Len(ps) : KeyOf(ps[i].range) \in Key
  <2>1. \A i \in 1..Len(ps) : ps[i] \in Point
    OBVIOUS
  <2> QED
    BY <2>1 DEF Point, AddressRange, KeyOf, Key
<1>2. 0 \in Good
  OBVIOUS
<1>3. ASSUME NEW n \in Nat, n \in Good PROVE n + 1 \in Good
  <2> SUFFICES \A U \in SUBSET keys(n + 1) : n + 1 <= Len(ps) /\ U # {} => Ends(U)
    <3> HIDE DEF keys, Ends
    <3> QED
      OBVIOUS
  <2> SUFFICES ASSUME n + 1 <= Len(ps), NEW U \in SUBSET keys(n + 1), U # {}
               PROVE  Ends(U)
    <3> HIDE DEF keys, Ends, Good
    <3> QED
      OBVIOUS
  <2> DEFINE new == KeyOf(ps[n + 1].range)
             V == U \ {new}
  <2>1. V \subseteq keys(n)
    <3>1. ASSUME NEW u \in V PROVE u \in keys(n)
      <4>1. PICK i \in 1..(n + 1) : u = KeyOf(ps[i].range)
        OBVIOUS
      <4>2. i # n + 1
        BY <4>1
      <4>3. i \in 1..n
        BY <4>2
      <4> QED
        BY <4>1, <4>3
    <3> QED
      BY <3>1
  <2>2. U \subseteq Key /\ new \in Key
    <3>1. n + 1 \in 1..Len(ps) /\ \A i \in 1..(n + 1) : i \in 1..Len(ps)
      OBVIOUS
    <3> QED
      BY <1>1, <3>1
  <2>3. V # {} => Ends(V)
    <3>1. n <= Len(ps)
      OBVIOUS
    <3> QED
      BY <1>3, <2>1, <3>1
  <2> HIDE DEF new, keys, Good
  <2>4. CASE V = {}
    <3>1. U = {new}
      BY <2>4
    <3> QED
      BY <2>2, <3>1, AddressesOrdered
  <2>5. CASE V # {} /\ new \notin U
    BY <2>3, <2>5
  <2>6. CASE V # {} /\ new \in U
    <3>1. PICK a \in V : \A l \in V : ~LessThan(l, a)
      BY <2>3, <2>6
    <3>2. PICK z \in V : \A l \in V : ~LessThan(z, l)
      BY <2>3, <2>6
    <3>3. a \in Key /\ z \in Key /\ a \in U /\ z \in U /\ \A l \in U : l \in V \/ l = new
      BY <2>2
    <3>4. \E k \in U : \A l \in U : ~LessThan(l, k)
      <4>1. CASE LessThan(new, a)
        <5>1. ASSUME NEW l \in U PROVE ~LessThan(l, new)
          BY <2>2, <3>1, <3>3, <4>1, AddressesOrdered
        <5> QED
          BY <2>6, <5>1
      <4>2. CASE ~LessThan(new, a)
        BY <3>1, <3>3, <4>2
      <4> QED
        BY <4>1, <4>2
    <3>5. \E k \in U : \A l \in U : ~LessThan(k, l)
      <4>1. CASE LessThan(z, new)
        <5>1. ASSUME NEW l \in U PROVE ~LessThan(new, l)
          BY <2>2, <3>2, <3>3, <4>1, AddressesOrdered
        <5> QED
          BY <2>6, <5>1
      <4>2. CASE ~LessThan(z, new)
        BY <3>2, <3>3, <4>2
      <4> QED
        BY <4>1, <4>2
    <3> QED
      BY <3>4, <3>5
  <2> QED
    BY <2>4, <2>5, <2>6
<1>4. Len(ps) \in Nat
  OBVIOUS
<1> HIDE DEF Good
<1>5. Len(ps) \in Good
  BY <1>2, <1>3, <1>4, Induction
<1> QED
  BY <1>4, <1>5, SMTT(40) DEF Good

(* A set of stop points: what both of its copies list, in which order, and
   how they agree. *)
PointSet == [points : Seq(Point), addressMap : UNION {[D -> Ids] : D \in SUBSET Key}]
Apart(ps) == \A i, j \in 1..Len(ps) : i # j => ~Overlaps(ps[i].range, ps[j].range)
Increasing(ps) == \A i, j \in 1..Len(ps) : i < j => ps[i].id < ps[j].id
Maps(m, ps) == /\ DOMAIN m = {KeyOf(ps[i].range) : i \in 1..Len(ps)}
               /\ \A i \in 1..Len(ps) : m[KeyOf(ps[i].range)] = ps[i].id
GoodSet(q) == /\ q \in PointSet /\ Apart(q.points) /\ Increasing(q.points)
              /\ Maps(q.addressMap, q.points)

(* The empty set is good. *)
LEMMA EmptyIsGood == GoodSet(Empty) /\ Empty.points = <<>> /\ Len(Empty.points) = 0
<1>1. Empty.points = <<>> /\ Empty.addressMap = [k \in {} |-> 0]
  BY DEF Empty
<1>2. <<>> \in Seq(Point) /\ Len(<<>>) = 0
  OBVIOUS
<1>3. Empty \in PointSet
  <2>1. [k \in {} |-> 0] \in [{} -> Ids] /\ {} \in SUBSET Key
    OBVIOUS
  <2>2. [k \in {} |-> 0] \in UNION {[D -> Ids] : D \in SUBSET Key}
    BY <2>1
  <2> QED
    BY <1>2, <2>2 DEF Empty, PointSet
<1>4. Apart(<<>>) /\ Increasing(<<>>)
  BY <1>2 DEF Apart, Increasing
<1>5. Maps([k \in {} |-> 0], <<>>)
  BY <1>2 DEF Maps
<1> QED
  BY <1>1, <1>2, <1>3, <1>4, <1>5 DEF GoodSet

(* What a stop point is made of. *)
LEMMA PointParts ==
    ASSUME NEW p \in Point
    PROVE  /\ p.id \in Ids /\ p.id \in Nat /\ p.range \in AddressRange /\ p.mode \subseteq Modes
           /\ p.enabled \in BOOLEAN /\ KeyOf(p.range) \in Key
           /\ KeyOf(p.range) = <<p.range.asid, p.range.start>>
           /\ p.range.asid \in Asids /\ p.range.start \in Nat /\ p.range.end \in Nat
           /\ p.range.start <= p.range.end
  BY StopPointAssumption DEF Point, AddressRange, KeyOf, Key, Ids

(* Stop points that are apart start at different addresses. *)
LEMMA KeysTellApart ==
    ASSUME NEW ps \in Seq(Point), Apart(ps), NEW i \in 1..Len(ps), NEW j \in 1..Len(ps),
           KeyOf(ps[i].range) = KeyOf(ps[j].range)
    PROVE  i = j
<1>1. ps[i] \in Point /\ ps[j] \in Point
  OBVIOUS
<1>2. ps[i].range.asid = ps[j].range.asid /\ ps[i].range.start = ps[j].range.start
  BY <1>1, PointParts
<1>3. Overlaps(ps[i].range, ps[j].range)
  BY <1>1, <1>2, PointParts DEF Overlaps
<1> QED
  BY <1>3 DEF Apart

(* The next identifier is above all others. *)
LEMMA NextIdIsNew ==
    ASSUME NEW ps \in Seq(Point), Increasing(ps)
    PROVE  /\ NextId(ps) \in Nat
           /\ \A i \in 1..Len(ps) : ps[i].id < NextId(ps)
           /\ NextId(ps) = IF Len(ps) = 0 THEN 0 ELSE ps[Len(ps)].id + 1
<1> DEFINE ids == {0} \cup {p.id + 1 : p \in ToSet(ps)}
           top == IF Len(ps) = 0 THEN 0 ELSE ps[Len(ps)].id + 1
<1>1. Len(ps) \in Nat /\ \A i \in 1..Len(ps) : ps[i] \in Point
  OBVIOUS
<1>2. \A i \in 1..Len(ps) : ps[i].id \in Nat
  BY <1>1, PointParts
<1>3. /\ \A i \in 1..Len(ps) : ps[i].id + 1 \in ids
      /\ \A x \in ids : x = 0 \/ \E i \in 1..Len(ps) : x = ps[i].id + 1
      /\ 0 \in ids
  BY DEF ToSet
<1> HIDE DEF ids
<1>4. top \in ids /\ \A x \in ids : x \in Nat /\ top >= x
  <2>1. CASE Len(ps) = 0
    <3>1. ids = {0} /\ top = 0
      BY <1>3, <2>1
    <3> QED
      BY <3>1
  <2>2. CASE Len(ps) # 0
    <3>1. Len(ps) \in 1..Len(ps)
      BY <1>1, <2>2
    <3>2. top = ps[Len(ps)].id + 1
      BY <2>2
    <3>3. \A i \in 1..Len(ps) : ps[i].id <= ps[Len(ps)].id
      BY <1>2, <3>1 DEF Increasing
    <3>4. top \in Nat /\ top \in ids
      BY <1>2, <1>3, <3>1, <3>2
    <3>5. \A i \in 1..Len(ps) : ps[i].id + 1 <= top
      BY <1>2, <3>1, <3>2, <3>3
    <3> HIDE DEF top
    <3> QED
      BY <1>2, <1>3, <3>4, <3>5, SMTT(40)
  <2> QED
    BY <2>1, <2>2
<1>5. NextId(ps) = top
  <2>1. NextId(ps) = CHOOSE x \in ids : \A y \in ids : x >= y
    BY DEF NextId, Max, ids
  <2> HIDE DEF top
  <2>2. \A x \in ids : (\A y \in ids : x >= y) => x = top
    BY <1>4
  <2> QED
    BY <1>4, <2>1, <2>2
<1>6. top \in Nat /\ \A i \in 1..Len(ps) : ps[i].id < top
  <2> HIDE DEF top
  <2> QED
    BY <1>2, <1>3, <1>4
<1> QED
  BY <1>5, <1>6

(* The larger of two numbers. *)
LEMMA LargerOfTwo ==
    ASSUME NEW a \in Nat, NEW b \in Nat
    PROVE  Max({a, b}) = IF a >= b THEN a ELSE b
<1>1. Max({a, b}) = CHOOSE x \in {a, b} : \A y \in {a, b} : x >= y
  BY DEF Max
<1> QED
  BY <1>1

(* The identifier of a stop point that is added. *)
IdFor(q, id) == IF id >= NextId(q.points) THEN id ELSE NextId(q.points)

(* A stop point that is added. *)
LEMMA AddedIsGood ==
    ASSUME NEW q, GoodSet(q), NEW p \in Point, NEW id \in Nat, p.id = IdFor(q, id)
    PROVE  /\ GoodSet(Added(q, p.range, p.mode, id, p.enabled))
           /\ ~CanInsert(q.points, p.range) => Added(q, p.range, p.mode, id, p.enabled) = q
           /\ CanInsert(q.points, p.range) =>
                Added(q, p.range, p.mode, id, p.enabled).points = Append(q.points, p)
<1> DEFINE range == p.range
           new == p.id
           a == Added(q, p.range, p.mode, id, p.enabled)
           key == KeyOf(range)
<1>1. q \in PointSet /\ q.points \in Seq(Point) /\ Len(q.points) \in Nat
  BY DEF GoodSet, PointSet
<1>2. /\ p \in Point /\ p.range \in AddressRange /\ p.id \in Ids
      /\ p = [id |-> p.id, range |-> p.range, mode |-> p.mode, enabled |-> p.enabled]
  BY DEF Point
<1>3. /\ NextId(q.points) \in Nat
      /\ \A i \in 1..Len(q.points) : q.points[i].id < NextId(q.points)
  BY <1>1, NextIdIsNew DEF GoodSet
<1>4. Max({id, NextId(q.points)}) = new
  BY <1>3, LargerOfTwo DEF IdFor
<1>5. CASE ~CanInsert(q.points, range)
  BY <1>5 DEF Added
<1>6. CASE CanInsert(q.points, range)
  <2> DEFINE old == q.addressMap
             ps == q.points
             n == Len(q.points)
             ps2 == Append(q.points, p)
             m2 == [k \in DOMAIN old \cup {key} |-> IF k = key THEN new ELSE old[k]]
  <2>1. a = [points |-> ps2, addressMap |-> m2]
    BY <1>2, <1>4, <1>6 DEF Added
  <2>2. /\ ps2 \in Seq(Point) /\ Len(ps2) = n + 1 /\ ps2[n + 1] = p
        /\ \A i \in 1..n : ps2[i] = ps[i]
    BY <1>1, <1>2
  <2>3. key \in Key /\ KeyOf(p.range) = key
    BY <1>2, PointParts
  <2>4. PICK D \in SUBSET Key : old \in [D -> Ids]
    BY DEF GoodSet, PointSet
  <2>5. m2 \in [D \cup {key} -> Ids]
    BY <1>2, <2>3, <2>4
  <2>6. D \cup {key} \in SUBSET Key
    BY <2>3, <2>4
  <2>7. m2 \in UNION {[E -> Ids] : E \in SUBSET Key}
    BY <2>5, <2>6
  <2>8. \A i \in 1..n : ~Overlaps(ps[i].range, range)
    BY <1>1, <1>6 DEF CanInsert
  <2>9. \A i \in 1..n : ps[i] \in Point
    BY <1>1
  <2>10. \A i \in 1..n : ~Overlaps(range, ps[i].range)
    <3>1. range \in AddressRange
      BY <1>2
    <3>2. \A x, y \in AddressRange : Overlaps(x, y) <=> Overlaps(y, x)
      BY DEF Overlaps, AddressRange
    <3> QED
      BY <2>8, <2>9, <3>1, <3>2, PointParts
  <2>11. \A i \in 1..(n + 1) : i \in 1..n \/ i = n + 1
    BY <1>1
  <2>12. /\ Apart(ps) /\ Increasing(ps) /\ Maps(old, ps)
    BY DEF GoodSet
  <2>13. /\ \A i, j \in 1..n : i # j => ~Overlaps(ps[i].range, ps[j].range)
         /\ \A i, j \in 1..n : i < j => ps[i].id < ps[j].id
    BY <2>12 DEF Apart, Increasing
  <2>14. \A i \in 1..n : ps[i].id \in Nat /\ ps[i].id < new
    <3>1. \A i \in 1..n : ps[i].id \in Nat
      BY <2>9, PointParts
    <3>2. new >= NextId(q.points) /\ new \in Nat
      BY <1>3 DEF IdFor
    <3> QED
      BY <1>3, <3>1, <3>2
  <2>15. \A i \in 1..n : KeyOf(ps[i].range) # key
    <3>1. ASSUME NEW i \in 1..n, KeyOf(ps[i].range) = key PROVE FALSE
      <4>1. ps[i].range.asid = range.asid /\ ps[i].range.start = range.start
        BY <3>1 DEF KeyOf
      <4>2. Overlaps(ps[i].range, range)
        BY <1>2, <2>9, <4>1, PointParts DEF Overlaps, AddressRange
      <4> QED
        BY <2>8, <4>2
    <3> QED
      BY <3>1
  <2>16. p.id = new /\ p.range = range
    OBVIOUS
  <2>17. DOMAIN old = {KeyOf(ps[i].range) : i \in 1..n} /\ \A i \in 1..n : old[KeyOf(ps[i].range)] = ps[i].id
    BY <2>12 DEF Maps
  <2>18. DOMAIN m2 = DOMAIN old \cup {key} /\ m2[key] = new
         /\ \A k \in DOMAIN old : k # key => m2[k] = old[k]
    OBVIOUS
  <2> HIDE DEF ps2, m2, range, new, key, old, ps, n
  <2>19. Apart(ps2)
    BY <2>2, <2>8, <2>10, <2>11, <2>16, <2>13 DEF Apart
  <2>20. Increasing(ps2)
    <3>1. ASSUME NEW i \in 1..(n + 1), NEW j \in 1..(n + 1), i < j PROVE ps2[i].id < ps2[j].id
      <4>1. n \in Nat
        BY <1>1 DEF n
      <4>2. i \in 1..n
        BY <3>1, <4>1
      <4>3. CASE j = n + 1
        BY <2>2, <2>14, <2>16, <4>2, <4>3
      <4>4. CASE j \in 1..n
        BY <2>2, <2>13, <3>1, <4>2, <4>4
      <4> QED
        BY <2>11, <4>3, <4>4
    <3> QED
      BY <2>2, <3>1 DEF Increasing
  <2>21. DOMAIN m2 = {KeyOf(ps2[i].range) : i \in 1..(n + 1)}
    <3>1. n + 1 \in 1..(n + 1) /\ \A i \in 1..n : i \in 1..(n + 1)
      BY <1>1 DEF n
    <3>2. \A i \in 1..n : KeyOf(ps2[i].range) = KeyOf(ps[i].range)
      BY <2>2
    <3>3. KeyOf(ps2[n + 1].range) = key
      BY <2>2, <2>3
    <3> QED
      BY <2>11, <2>17, <2>18, <3>1, <3>2, <3>3
  <2>22. \A i \in 1..(n + 1) : m2[KeyOf(ps2[i].range)] = ps2[i].id
    <3>1. \A i \in 1..n : KeyOf(ps2[i].range) = KeyOf(ps[i].range) /\ ps2[i].id = ps[i].id
      BY <2>2
    <3>2. KeyOf(ps2[n + 1].range) = key /\ ps2[n + 1].id = new
      BY <2>2, <2>3, <2>16
    <3> QED
      BY <2>11, <2>15, <2>17, <2>18, <3>1, <3>2
  <2>23. Maps(m2, ps2)
    BY <2>2, <2>21, <2>22 DEF Maps
  <2>24. a.points = ps2 /\ a.addressMap = m2 /\ a \in PointSet
    BY <2>1, <2>2, <2>7 DEF PointSet
  <2>25. GoodSet(a)
    BY <2>19, <2>20, <2>23, <2>24 DEF GoodSet
  <2>26. a.points = Append(q.points, p)
    BY <2>24 DEF ps2
  <2> QED
    BY <1>6, <2>25, <2>26 DEF range
<1> QED
  BY <1>5, <1>6

(* Two sequences, one after the other. *)
LEMMA Joined ==
    ASSUME NEW S, NEW l \in Seq(S), NEW r \in Seq(S)
    PROVE  /\ l \o r \in Seq(S) /\ Len(l \o r) = Len(l) + Len(r)
           /\ \A j \in 1..Len(l) : (l \o r)[j] = l[j]
           /\ \A j \in 1..Len(r) : (l \o r)[Len(l) + j] = r[j]
<1>1. l \o r \in Seq(S)
  OBVIOUS
<1>2. Len(l \o r) = Len(l) + Len(r)
  OBVIOUS
<1>3. \A j \in 1..Len(l) : (l \o r)[j] = l[j]
  OBVIOUS
<1>4. \A j \in 1..Len(r) : (l \o r)[Len(l) + j] = r[j]
  OBVIOUS
<1> QED
  BY <1>1, <1>2, <1>3, <1>4

(* Without an element of it, a sequence has the others in their order. *)
LEMMA RemovedOne ==
    ASSUME NEW S, NEW q \in Seq(S), NEW i \in 1..Len(q)
    PROVE  /\ RemoveAt(q, i) \in Seq(S) /\ Len(RemoveAt(q, i)) = Len(q) - 1
           /\ \A j \in 1..(Len(q) - 1) :
                RemoveAt(q, i)[j] = q[IF j < i THEN j ELSE j + 1]
<1> DEFINE n == Len(q)
           l == SubSeq(q, 1, i - 1)
           r == SubSeq(q, i + 1, n)
<1>1. n \in Nat /\ i - 1 \in Nat /\ n - i \in Nat
  OBVIOUS
<1>2. RemoveAt(q, i) = l \o r
  BY DEF RemoveAt
<1>3. l \in Seq(S) /\ Len(l) = i - 1 /\ \A j \in 1..(i - 1) : l[j] = q[j]
  OBVIOUS
<1>4. r \in Seq(S) /\ Len(r) = n - i /\ \A j \in 1..(n - i) : r[j] = q[i + j]
  OBVIOUS
<1> HIDE DEF l, r
<1>5. l \o r \in Seq(S) /\ Len(l \o r) = n - 1
  <2>1. l \o r \in Seq(S) /\ Len(l \o r) = Len(l) + Len(r)
    BY <1>3, <1>4, Joined
  <2> QED
    BY <1>1, <1>3, <1>4, <2>1
<1>6. ASSUME NEW j \in 1..(n - 1) PROVE (l \o r)[j] = q[IF j < i THEN j ELSE j + 1]
  <2>1. CASE j < i
    <3>1. j \in 1..Len(l) /\ j \in 1..(i - 1)
      BY <1>3, <2>1
    <3>2. (l \o r)[j] = l[j]
      BY <1>3, <1>4, <3>1, Joined
    <3> QED
      BY <1>3, <2>1, <3>1, <3>2
  <2>2. CASE ~(j < i)
    <3>1. /\ j - (i - 1) \in 1..(n - i) /\ i + (j - (i - 1)) = j + 1
          /\ j = Len(l) + (j - (i - 1))
      BY <1>1, <1>3, <2>2
    <3>2. (l \o r)[j] = r[j - (i - 1)]
      BY <1>3, <1>4, <3>1, Joined
    <3> QED
      BY <1>4, <2>2, <3>1, <3>2
  <2> QED
    BY <2>1, <2>2
<1> QED
  BY <1>2, <1>5, <1>6

(* A set from which a stop point is removed. *)
LEMMA RemovedIsGood ==
    ASSUME NEW q, GoodSet(q), NEW i \in 1..Len(q.points)
    PROVE  GoodSet(Removed(q, i)) /\ Removed(q, i).points = RemoveAt(q.points, i)
<1> DEFINE ps == q.points
           old == q.addressMap
           n == Len(q.points)
           key == KeyOf(ps[i].range)
           ps2 == RemoveAt(ps, i)
           m2 == [k \in DOMAIN old \ {key} |-> old[k]]
           at == [j \in 1..(n - 1) |-> IF j < i THEN j ELSE j + 1]
<1>1. ps \in Seq(Point) /\ n \in Nat /\ Apart(ps) /\ Increasing(ps) /\ Maps(old, ps)
  BY DEF GoodSet, PointSet
<1>2. Removed(q, i) = [points |-> ps2, addressMap |-> m2]
  BY DEF Removed
<1>3. PICK D \in SUBSET Key : old \in [D -> Ids]
  BY DEF GoodSet, PointSet
<1>4. m2 \in [D \ {key} -> Ids] /\ D \ {key} \in SUBSET Key
  BY <1>3
<1>5. m2 \in UNION {[E -> Ids] : E \in SUBSET Key}
  BY <1>4
<1>6. /\ ps2 \in Seq(Point) /\ Len(ps2) = n - 1
      /\ \A j \in 1..(n - 1) : ps2[j] = ps[at[j]]
  BY <1>1, RemovedOne
<1>7. /\ \A j \in 1..(n - 1) : at[j] \in 1..n /\ at[j] # i
      /\ \A j, k \in 1..(n - 1) : j < k => at[j] < at[k]
      /\ \A j, k \in 1..(n - 1) : j # k => at[j] # at[k]
  BY <1>1
<1>8. \A k \in 1..n : k # i => \E j \in 1..(n - 1) : at[j] = k
  <2>1. ASSUME NEW k \in 1..n, k # i PROVE \E j \in 1..(n - 1) : at[j] = k
    <3>1. CASE k < i
      <4>1. k \in 1..(n - 1) /\ at[k] = k
        BY <1>1, <3>1
      <4> QED
        BY <4>1
    <3>2. CASE k > i
      <4>1. k - 1 \in 1..(n - 1) /\ ~(k - 1 < i) /\ (k - 1) + 1 = k
        BY <1>1, <3>2
      <4>2. \A j \in 1..(n - 1) : ~(j < i) => at[j] = j + 1
        OBVIOUS
      <4> HIDE DEF at
      <4>3. at[k - 1] = k
        BY <4>1, <4>2
      <4> QED
        BY <4>1, <4>3
    <3>3. k < i \/ k > i
      BY <2>1
    <3> HIDE DEF at
    <3> QED
      BY <3>1, <3>2, <3>3
  <2> QED
    BY <2>1
<1>9. /\ \A j, k \in 1..n : j # k => ~Overlaps(ps[j].range, ps[k].range)
      /\ \A j, k \in 1..n : j < k => ps[j].id < ps[k].id
      /\ DOMAIN old = {KeyOf(ps[j].range) : j \in 1..n}
      /\ \A j \in 1..n : old[KeyOf(ps[j].range)] = ps[j].id
  BY <1>1 DEF Apart, Increasing, Maps
<1>10. \A j \in 1..n : j # i => KeyOf(ps[j].range) # key
  BY <1>1, KeysTellApart
<1>11. DOMAIN m2 = DOMAIN old \ {key} /\ \A k \in DOMAIN old \ {key} : m2[k] = old[k]
  OBVIOUS
<1>12. Removed(q, i).points = ps2 /\ Removed(q, i).addressMap = m2 /\ Removed(q, i) \in PointSet
  <2> HIDE DEF ps2, m2, at, key
  <2> QED
    BY <1>2, <1>5, <1>6 DEF PointSet
<1> HIDE DEF ps, old, n, key, ps2, m2, at
<1>13. Apart(ps2)
  BY <1>6, <1>7, <1>9 DEF Apart
<1>14. Increasing(ps2)
  <2>1. ASSUME NEW j \in 1..(n - 1), NEW k \in 1..(n - 1), j < k PROVE ps2[j].id < ps2[k].id
    <3>1. /\ at[j] \in 1..n /\ at[k] \in 1..n /\ at[j] < at[k]
          /\ ps2[j] = ps[at[j]] /\ ps2[k] = ps[at[k]]
      BY <1>6, <1>7, <2>1
    <3> QED
      BY <1>9, <3>1
  <2> QED
    BY <1>6, <2>1 DEF Increasing
<1>15. DOMAIN m2 = {KeyOf(ps2[j].range) : j \in 1..(n - 1)}
  <2>1. ASSUME NEW x \in DOMAIN m2 PROVE \E j \in 1..(n - 1) : x = KeyOf(ps2[j].range)
    <3>1. PICK k \in 1..n : x = KeyOf(ps[k].range)
      BY <1>9, <1>11
    <3>2. k # i
      BY <1>11, <3>1 DEF key
    <3>3. PICK j \in 1..(n - 1) : at[j] = k
      BY <1>8, <3>2
    <3> QED
      BY <1>6, <3>1, <3>3
  <2>2. ASSUME NEW j \in 1..(n - 1) PROVE KeyOf(ps2[j].range) \in DOMAIN m2
    <3>1. at[j] \in 1..n /\ at[j] # i /\ ps2[j] = ps[at[j]]
      BY <1>6, <1>7
    <3> QED
      BY <1>9, <1>10, <1>11, <3>1
  <2> QED
    BY <2>1, <2>2
<1>16. \A j \in 1..(n - 1) : m2[KeyOf(ps2[j].range)] = ps2[j].id
  <2>1. ASSUME NEW j \in 1..(n - 1) PROVE m2[KeyOf(ps2[j].range)] = ps2[j].id
    <3>1. at[j] \in 1..n /\ at[j] # i /\ ps2[j] = ps[at[j]]
      BY <1>6, <1>7
    <3> QED
      BY <1>9, <1>10, <1>11, <3>1
  <2> QED
    BY <2>1
<1>17. Maps(m2, ps2)
  BY <1>6, <1>15, <1>16 DEF Maps
<1>18. GoodSet(Removed(q, i))
  BY <1>12, <1>13, <1>14, <1>17 DEF GoodSet
<1> QED
  BY <1>12, <1>18 DEF ps2, ps

(* A set one stop point of which is changed, but for its identifier and its
   range. *)
LEMMA EditedIsGood ==
    ASSUME NEW q, GoodSet(q), NEW i \in 1..Len(q.points), NEW p \in Point,
           p.id = q.points[i].id, p.range = q.points[i].range
    PROVE  /\ GoodSet([q EXCEPT !.points = [q.points EXCEPT ![i] = p]])
           /\ [q EXCEPT !.points = [q.points EXCEPT ![i] = p]].points
                = [q.points EXCEPT ![i] = p]
           /\ Len([q.points EXCEPT ![i] = p]) = Len(q.points)
           /\ \A j \in 1..Len(q.points) : [q.points EXCEPT ![i] = p][j].id = q.points[j].id
<1> DEFINE ps == q.points
           ps2 == [q.points EXCEPT ![i] = p]
           q2 == [q EXCEPT !.points = ps2]
<1>1. /\ q \in PointSet /\ ps \in Seq(Point) /\ Len(ps) \in Nat
      /\ Apart(ps) /\ Increasing(ps) /\ Maps(q.addressMap, ps)
  BY DEF GoodSet, PointSet
<1>2. ps2 \in Seq(Point) /\ Len(ps2) = Len(ps)
  BY <1>1
<1>3. \A j \in 1..Len(ps) : ps2[j].id = ps[j].id /\ ps2[j].range = ps[j].range
  <2>1. \A j \in 1..Len(ps) : ps2[j] = IF j = i THEN p ELSE ps[j]
    BY <1>1
  <2> QED
    BY <2>1
<1>4. q2 \in PointSet /\ q2.points = ps2 /\ q2.addressMap = q.addressMap
  BY <1>1, <1>2 DEF PointSet
<1> HIDE DEF ps2, ps, q2
<1>5. Apart(ps2)
  BY <1>1, <1>2, <1>3 DEF Apart
<1>6. Increasing(ps2)
  BY <1>1, <1>2, <1>3 DEF Increasing
<1>7. Maps(q.addressMap, ps2)
  <2>1. \A j \in 1..Len(ps) : KeyOf(ps2[j].range) = KeyOf(ps[j].range)
    BY <1>3
  <2>2. {KeyOf(ps2[j].range) : j \in 1..Len(ps2)} = {KeyOf(ps[j].range) : j \in 1..Len(ps)}
    BY <1>2, <2>1
  <2> QED
    BY <1>1, <1>2, <1>3, <2>1, <2>2 DEF Maps
<1>8. GoodSet(q2)
  BY <1>4, <1>5, <1>6, <1>7 DEF GoodSet
<1> QED
  BY <1>2, <1>3, <1>4, <1>8 DEF q2, ps2, ps

(* A set as a reader of its addresses sees it: the keys, and whose they are. *)
LEMMA KeysOfSet ==
    ASSUME NEW q, GoodSet(q)
    PROVE  /\ q.points \in Seq(Point) /\ Apart(q.points)
           /\ \A i \in 1..Len(q.points) : q.points[i] \in Point
           /\ DOMAIN q.addressMap = {KeyOf(q.points[i].range) : i \in 1..Len(q.points)}
           /\ DOMAIN q.addressMap \subseteq Key
           /\ \A i \in 1..Len(q.points) :
                WithId(q.points, q.addressMap[KeyOf(q.points[i].range)]) = q.points[i]
<1>1. /\ q.points \in Seq(Point) /\ Len(q.points) \in Nat /\ Apart(q.points)
      /\ Increasing(q.points) /\ Maps(q.addressMap, q.points)
  BY DEF GoodSet, PointSet
<1>2. \A i \in 1..Len(q.points) : q.points[i] \in Point
  BY <1>1
<1>3. \A i \in 1..Len(q.points) : q.points[i].id \in Nat /\ KeyOf(q.points[i].range) \in Key
  BY <1>2, PointParts
<1>4. ASSUME NEW i \in 1..Len(q.points)
      PROVE  WithId(q.points, q.addressMap[KeyOf(q.points[i].range)]) = q.points[i]
  <2>1. q.addressMap[KeyOf(q.points[i].range)] = q.points[i].id
    BY <1>1 DEF Maps
  <2>2. ToSet(q.points) = {q.points[j] : j \in 1..Len(q.points)}
    BY <1>1 DEF ToSet
  <2>3. \A j \in 1..Len(q.points) : q.points[j].id = q.points[i].id => j = i
    <3>1. ASSUME NEW j \in 1..Len(q.points), q.points[j].id = q.points[i].id, j # i PROVE FALSE
      <4>1. j < i \/ i < j
        BY <3>1
      <4> QED
        BY <1>1, <1>3, <3>1, <4>1 DEF Increasing
    <3> QED
      BY <3>1
  <2>4. WithId(q.points, q.points[i].id) = CHOOSE p \in ToSet(q.points) : p.id = q.points[i].id
    BY DEF WithId
  <2>5. q.points[i] \in ToSet(q.points) /\ \A p \in ToSet(q.points) : p.id = q.points[i].id => p = q.points[i]
    BY <2>2, <2>3
  <2> HIDE <1>1
  <2> QED
    BY <2>1, <2>4, <2>5
<1> QED
  BY <1>1, <1>2, <1>3, <1>4 DEF Maps

(* A range that starts within another overlaps it. *)
LEMMA StartsWithin ==
    ASSUME NEW r \in AddressRange, NEW x \in AddressRange,
           r.asid = x.asid, r.start <= x.start, x.start <= r.end
    PROVE  Overlaps(r, x)
  BY DEF Overlaps, AddressRange

(* Where the search by address looks, step by step (see Probe). *)
Looks(q, asid, addr, keys, above, lower, it) ==
    /\ keys = DOMAIN q.addressMap
    /\ above = keys \ Before(keys, <<asid, addr>>)
    /\ lower = Least(above)
    /\ it = IF above = {} \/ (LessThan(<<asid, addr>>, lower) /\ Before(keys, lower) # {})
            THEN Greatest(keys \ above) ELSE lower

(* If a stop point contains the address, it is the one that is looked at. *)
LEMMA LooksRight ==
    ASSUME NEW q, GoodSet(q), NEW asid \in Asids, NEW addr \in Nat, q.points # <<>>,
           NEW keys, NEW above, NEW lower, NEW it,
           Looks(q, asid, addr, keys, above, lower, it)
    PROVE  /\ it \in keys
           /\ \A i \in 1..Len(q.points) :
                Covers(q.points[i].range, asid, addr) => KeyOf(q.points[i].range) = it
<1> DEFINE ps == q.points
           k0 == <<asid, addr>>
<1>1. /\ ps \in Seq(Point) /\ Len(ps) \in Nat /\ Apart(ps)
      /\ \A i \in 1..Len(ps) : ps[i] \in Point
      /\ keys = {KeyOf(ps[i].range) : i \in 1..Len(ps)} /\ keys \subseteq Key
  BY KeysOfSet DEF Looks
<1>2. k0 \in Key /\ k0[1] = asid /\ k0[2] = addr
  BY DEF Key
<1>3. keys # {}
  <2>1. Len(ps) # 0
    BY <1>1
  <2>2. 1 \in 1..Len(ps)
    BY <1>1, <2>1
  <2> QED
    BY <1>1, <2>2
<1>4. above \subseteq keys /\ \A k \in keys : k \in above <=> ~LessThan(k, k0)
  BY DEF Before, Looks
<1> HIDE DEF k0
<1>5. above # {} => lower \in above /\ \A l \in above : ~LessThan(l, lower)
  <2>1. above # {} => \E k \in above : \A l \in above : ~LessThan(l, k)
    BY <1>1, <1>4, EndsExist
  <2> QED
    BY <2>1 DEF Least, Looks
<1>6. keys \ above # {} => /\ Greatest(keys \ above) \in keys \ above
                           /\ \A l \in keys \ above : ~LessThan(Greatest(keys \ above), l)
  <2>1. keys \ above # {} => \E k \in keys \ above : \A l \in keys \ above : ~LessThan(k, l)
    BY <1>1, EndsExist
  <2> QED
    BY <2>1 DEF Greatest
<1>7. Before(keys, lower) # {} /\ above # {} => keys \ above # {}
  <2>1. ASSUME NEW l \in Before(keys, lower), above # {} PROVE l \in keys \ above
    BY <1>5, <2>1 DEF Before
  <2> QED
    BY <2>1
<1>8. it = IF above = {} \/ (LessThan(k0, lower) /\ Before(keys, lower) # {})
           THEN Greatest(keys \ above) ELSE lower
  BY DEF k0, Looks
<1>9. it \in keys
  <2>1. CASE above = {}
    BY <1>3, <1>6, <1>8, <2>1
  <2>2. CASE above # {}
    BY <1>4, <1>5, <1>6, <1>7, <1>8, <2>2
  <2> QED
    BY <2>1, <2>2
<1>10. ASSUME NEW i \in 1..Len(ps), Covers(ps[i].range, asid, addr)
       PROVE  KeyOf(ps[i].range) = it
  <2> DEFINE ki == KeyOf(ps[i].range)
  <2>1. /\ ps[i].range.asid = asid /\ ps[i].range.start <= addr /\ addr <= ps[i].range.end
        /\ ps[i].range.start \in Nat /\ ps[i].range.end \in Nat
        /\ ki \in Key /\ ki \in keys /\ ki[1] = asid /\ ki[2] = ps[i].range.start
    BY <1>1, <1>10, PointParts DEF Covers
  <2> HIDE DEF ki
  \* No other stop point starts in the part of the range up to the address.
  <2>2. ASSUME NEW j \in 1..Len(ps), NEW kj, kj = KeyOf(ps[j].range),
               kj[1] = asid, ki[2] <= kj[2], kj[2] <= addr
        PROVE  kj = ki
    <3>1. /\ ps[j].range.asid = asid /\ kj[2] = ps[j].range.start
          /\ ps[j].range.start \in Nat /\ ps[j].range.end \in Nat
          /\ ps[j].range.start <= ps[j].range.end
      BY <1>1, <2>2, PointParts
    <3>2. Overlaps(ps[i].range, ps[j].range)
      <4>1. ps[i].range \in AddressRange /\ ps[j].range \in AddressRange
        BY <1>1, PointParts
      <4>2. ps[i].range.asid = ps[j].range.asid
        BY <2>1, <3>1
      <4>3. ps[i].range.start <= ps[j].range.start /\ ps[j].range.start <= ps[i].range.end
        <5>1. ki[2] <= ps[j].range.start /\ ps[j].range.start <= addr
          BY <2>2, <3>1
        <5> QED
          BY <2>1, <3>1, <5>1, SMTT(40)
      <4> QED
        BY <4>1, <4>2, <4>3, StartsWithin
    <3>3. i = j
      BY <1>1, <3>2 DEF Apart
    <3> QED
      BY <2>2, <3>3 DEF ki
  <2>3. ASSUME NEW k \in keys, ~LessThan(k, ki), ~LessThan(k0, k) PROVE k = ki
    <3>1. PICK j \in 1..Len(ps) : k = KeyOf(ps[j].range)
      BY <1>1
    <3>2. /\ k[1] \in Nat /\ k[2] \in Nat /\ asid \in Nat
      BY <1>1, StopPointAssumption DEF Key, Asids
    <3>3. ~(k[1] < ki[1] \/ (k[1] = ki[1] /\ k[2] < ki[2]))
      BY <2>3 DEF LessThan
    <3>4. ~(k0[1] < k[1] \/ (k0[1] = k[1] /\ k0[2] < k[2]))
      BY <2>3 DEF LessThan
    <3>5. ki[1] = asid /\ ki[2] \in Nat /\ k0[1] = asid /\ k0[2] = addr
      BY <1>2, <2>1
    <3>6. k[1] = asid /\ ki[2] <= k[2] /\ k[2] <= addr
      <4> HIDE DEF ps
      <4> QED
        BY <3>2, <3>3, <3>4, <3>5
    <3> QED
      BY <2>2, <3>1, <3>6
  <2>4. ~LessThan(k0, ki)
    BY <1>2, <2>1, StopPointAssumption DEF LessThan, Asids
  <2>5. CASE ki \in above
    <3>1. lower \in above /\ ~LessThan(ki, lower) /\ ~LessThan(ki, k0) /\ ~LessThan(lower, k0)
      BY <1>4, <1>5, <2>1, <2>5
    <3>2. lower \in Key
      BY <1>1, <1>4, <3>1
    <3>3. ki = k0
      BY <1>2, <2>1, <2>4, <3>1, AddressesOrdered
    <3>4. lower = k0
      BY <1>2, <3>1, <3>2, <3>3, AddressesOrdered
    <3>5. ~LessThan(k0, lower)
      BY <1>2, <3>4, AddressesOrdered
    <3>6. it = lower
      BY <1>8, <3>1, <3>5
    <3> QED
      BY <3>3, <3>4, <3>6 DEF ki
  <2>6. CASE ki \notin above
    <3>1. LessThan(ki, k0) /\ ki \in keys \ above
      BY <1>4, <2>1, <2>6
    <3>2. it = Greatest(keys \ above)
      <4>1. CASE above = {}
        BY <1>8, <4>1
      <4>2. CASE above # {}
        <5>1. lower \in above /\ lower \in keys /\ lower \in Key /\ ~LessThan(lower, k0)
          BY <1>1, <1>4, <1>5, <4>2
        <5>2. LessThan(ki, lower)
          <6>1. LessThan(k0, lower) \/ lower = k0
            BY <1>2, <5>1, AddressesOrdered
          <6> QED
            BY <1>2, <2>1, <3>1, <5>1, <6>1, AddressesOrdered
        <5>3. Before(keys, lower) # {}
          BY <2>1, <5>2 DEF Before
        <5>4. LessThan(k0, lower)
          <6>1. ASSUME ~LessThan(k0, lower) PROVE FALSE
            <7>1. ~LessThan(lower, ki)
              BY <2>1, <5>1, <5>2, AddressesOrdered
            <7>2. lower = ki
              BY <2>3, <5>1, <6>1, <7>1
            <7> QED
              BY <2>6, <5>1, <7>2
          <6> QED
            BY <6>1
        <5> QED
          BY <1>8, <5>3, <5>4
      <4> QED
        BY <4>1, <4>2
    <3>3. it \in keys \ above /\ ~LessThan(it, ki)
      BY <1>6, <3>1, <3>2
    <3>4. LessThan(it, k0) /\ it \in Key
      BY <1>1, <1>4, <3>3
    <3>5. ~LessThan(k0, it)
      BY <1>2, <3>4, AddressesOrdered
    <3>6. it = ki
      BY <2>3, <3>3, <3>5
    <3> QED
      BY <3>6 DEF ki
  <2> QED
    BY <2>5, <2>6
<1> QED
  BY <1>9, <1>10

(* Probe finds the stop points that match: one at most. *)
LEMMA ProbeFinds ==
    ASSUME NEW q, GoodSet(q), NEW asid \in Asids, NEW addr \in Nat, NEW mode
    PROVE  Probe(q, asid, addr, mode) = {p \in ToSet(q.points) : Matches(p, asid, addr, mode)}
<1> DEFINE keys == DOMAIN q.addressMap
           above == keys \ Before(keys, <<asid, addr>>)
           lower == Least(above)
           it == IF above = {} \/ (LessThan(<<asid, addr>>, lower) /\ Before(keys, lower) # {})
                 THEN Greatest(keys \ above) ELSE lower
           p0 == WithId(q.points, q.addressMap[it])
<1>1. Probe(q, asid, addr, mode) = IF q.points # <<>> /\ Matches(p0, asid, addr, mode)
                                   THEN {p0} ELSE {}
  BY DEF Probe
<1>2. ToSet(q.points) = {q.points[i] : i \in 1..Len(q.points)} /\ Len(q.points) \in Nat
  BY KeysOfSet DEF ToSet
<1>3. CASE q.points = <<>>
  <2>1. ToSet(q.points) = {}
    BY <1>3 DEF ToSet
  <2> QED
    BY <1>1, <1>3, <2>1
<1>4. CASE q.points # <<>>
  <2>1. /\ it \in keys
        /\ \A i \in 1..Len(q.points) :
             Covers(q.points[i].range, asid, addr) => KeyOf(q.points[i].range) = it
    <3>1. PICK ks : ks = keys
      OBVIOUS
    <3>2. PICK ab : ab = ks \ Before(ks, <<asid, addr>>)
      OBVIOUS
    <3>3. PICK lo : lo = Least(ab)
      OBVIOUS
    <3>4. PICK z : z = IF ab = {} \/ (LessThan(<<asid, addr>>, lo) /\ Before(ks, lo) # {})
                       THEN Greatest(ks \ ab) ELSE lo
      OBVIOUS
    <3>5. ks = keys /\ ab = above /\ lo = lower /\ z = it
      BY <3>1, <3>2, <3>3, <3>4
    <3> HIDE DEF keys, above, lower, it
    <3>6. /\ z \in ks
          /\ \A i \in 1..Len(q.points) :
               Covers(q.points[i].range, asid, addr) => KeyOf(q.points[i].range) = z
      <4>1. Looks(q, asid, addr, ks, ab, lo, z)
        BY <3>1, <3>2, <3>3, <3>4 DEF keys, Looks
      <4> QED
        BY <1>4, <4>1, LooksRight
    <3> QED
      BY <3>5, <3>6
  <2> HIDE DEF it
  <2>2. PICK i \in 1..Len(q.points) : it = KeyOf(q.points[i].range)
    BY <2>1, KeysOfSet
  <2>3. p0 = q.points[i]
    BY <2>2, KeysOfSet
  <2>4. ASSUME NEW j \in 1..Len(q.points), Matches(q.points[j], asid, addr, mode)
        PROVE  j = i
    <3>1. Covers(q.points[j].range, asid, addr)
      BY <2>4 DEF Matches
    <3> QED
      BY <2>1, <2>2, <3>1, KeysOfSet, KeysTellApart
  <2> HIDE DEF p0
  <2>5. p0 \in ToSet(q.points)
    BY <1>2, <2>3
  <2>6. ASSUME NEW p \in ToSet(q.points), Matches(p, asid, addr, mode) PROVE p = p0
    <3>1. PICK j \in 1..Len(q.points) : p = q.points[j]
      BY <1>2
    <3>2. j = i
      BY <2>4, <2>6, <3>1
    <3> QED
      BY <2>3, <3>1, <3>2
  <2>7. Probe(q, asid, addr, mode) = IF Matches(p0, asid, addr, mode) THEN {p0} ELSE {}
    BY <1>1, <1>4
  <2> QED
    BY <2>5, <2>6, <2>7
<1> QED
  BY <1>3, <1>4

(* A stop point at its new place. *)
Relocation(old, new, p) ==
    [id |-> p.id, range |-> Place(old, new, p), mode |-> p.mode, enabled |-> p.enabled]

(* A set lists, of the first n stop points of another, only relocations; one
   that is not listed collides with one that is. *)
CarriedOver(x, q, n, old, new) ==
    /\ \A i \in 1..Len(x.points) : \E j \in 1..n :
            x.points[i] = Relocation(old, new, q.points[j])
    /\ \A j \in 1..n : \E i \in 1..Len(x.points) :
            \/ x.points[i].id = q.points[j].id
            \/ Overlaps(x.points[i].range, Place(old, new, q.points[j]))

(* What the relocation adds next. *)
NextAdded(x, q, k, old, new) ==
    Added(x, Place(old, new, q.points[k]), q.points[k].mode, q.points[k].id, q.points[k].enabled)

(* A new place is a range. *)
LEMMA PlaceIsRange ==
    ASSUME NEW old \in Tables, NEW new \in Tables, NEW p \in Point
    PROVE  Place(old, new, p) \in AddressRange
<1>1. p.range \in AddressRange
  BY PointParts
<1>2. Moved(old, new, p.range) \in AddressRange
  BY <1>1, MovedKeeps
<1> QED
  BY <1>1, <1>2 DEF Place

(* One stop point after the other is relocated, with its identifier. *)
LEMMA OneRelocated ==
    ASSUME NEW q, GoodSet(q), NEW old \in Tables, NEW new \in Tables,
           NEW k \in Nat, k + 1 <= Len(q.points),
           NEW x, GoodSet(x), CarriedOver(x, q, k, old, new)
    PROVE  /\ GoodSet(NextAdded(x, q, k + 1, old, new))
           /\ CarriedOver(NextAdded(x, q, k + 1, old, new), q, k + 1, old, new)
<1> DEFINE a == NextAdded(x, q, k + 1, old, new)
           n == Len(x.points)
<1>1. /\ q.points \in Seq(Point) /\ x.points \in Seq(Point) /\ n \in Nat
      /\ Increasing(q.points) /\ Increasing(x.points)
  BY DEF GoodSet, PointSet
<1>2. k + 1 \in 1..Len(q.points) /\ \A j \in 1..k : j \in 1..Len(q.points) /\ j < k + 1
  BY <1>1
<1>3. PICK p \in Point : p = q.points[k + 1]
  BY <1>1, <1>2
<1>4. PICK there \in AddressRange : there = Place(old, new, p)
  BY PlaceIsRange
<1>5. /\ p.id \in Ids /\ p.id \in Nat /\ p.mode \in SUBSET Modes /\ p.enabled \in BOOLEAN
  BY PointParts
<1>6. \A i \in 1..n : x.points[i].id < p.id
  <2>1. ASSUME NEW i \in 1..n PROVE x.points[i].id < p.id
    <3>1. PICK j \in 1..k : x.points[i] = Relocation(old, new, q.points[j])
      BY DEF CarriedOver
    <3>2. x.points[i].id = q.points[j].id
      BY <3>1 DEF Relocation
    <3>3. q.points[j].id < q.points[k + 1].id
      BY <1>1, <1>2 DEF Increasing
    <3> QED
      BY <1>3, <3>2, <3>3
  <2> QED
    BY <2>1
<1>7. NextId(x.points) \in Nat /\ p.id >= NextId(x.points)
  <2>1. /\ NextId(x.points) \in Nat
        /\ NextId(x.points) = IF n = 0 THEN 0 ELSE x.points[n].id + 1
    BY <1>1, NextIdIsNew
  <2>2. n # 0 => n \in 1..n /\ x.points[n].id \in Nat
    <3>1. n # 0 => n \in 1..n /\ x.points[n] \in Point
      BY <1>1
    <3> QED
      BY <3>1, PointParts
  <2> QED
    BY <1>5, <1>6, <2>1, <2>2, SMTT(40)
<1>8. PICK np \in Point : /\ np = Relocation(old, new, q.points[k + 1])
                         /\ np.id = p.id /\ np.range = there
  <2>1. Relocation(old, new, p) \in Point
    BY <1>4, <1>5 DEF Relocation, Point
  <2>2. Relocation(old, new, p).id = p.id /\ Relocation(old, new, p).range = there
    BY <1>4 DEF Relocation
  <2> QED
    BY <1>3, <2>1, <2>2
<1>9. np.id = IdFor(x, np.id) /\ np.id \in Nat
  BY <1>5, <1>7, <1>8 DEF IdFor
<1>10. a = Added(x, np.range, np.mode, np.id, np.enabled)
  <2>1. np.mode = p.mode /\ np.enabled = p.enabled
    BY <1>3, <1>8 DEF Relocation
  <2> QED
    BY <1>3, <1>4, <1>8, <2>1 DEF NextAdded
<1>11. /\ GoodSet(a)
       /\ ~CanInsert(x.points, there) => a = x
       /\ CanInsert(x.points, there) => a.points = Append(x.points, np)
  BY <1>8, <1>9, <1>10, AddedIsGood, SMTT(40)
<1> HIDE DEF a, n
<1>12. /\ \A i \in 1..n : \E j \in 1..k : x.points[i] = Relocation(old, new, q.points[j])
       /\ \A j \in 1..k : \E i \in 1..n :
            \/ x.points[i].id = q.points[j].id
            \/ Overlaps(x.points[i].range, Place(old, new, q.points[j]))
  BY DEF CarriedOver, n
<1>13. \A j \in 1..(k + 1) : j \in 1..k \/ j = k + 1
  OBVIOUS
<1>14. k + 1 \in 1..(k + 1) /\ \A j \in 1..k : j \in 1..(k + 1)
  OBVIOUS
<1>15. CASE ~CanInsert(x.points, there)
  <2>1. a = x
    BY <1>11, <1>15
  <2>2. PICK i \in 1..n : Overlaps(x.points[i].range, there)
    BY <1>1, <1>15 DEF CanInsert, n
  <2>3. \A i1 \in 1..n : \E j \in 1..(k + 1) : x.points[i1] = Relocation(old, new, q.points[j])
    BY <1>12, <1>14
  <2>4. \A j \in 1..(k + 1) : \E i1 \in 1..n :
            \/ x.points[i1].id = q.points[j].id
            \/ Overlaps(x.points[i1].range, Place(old, new, q.points[j]))
    BY <1>3, <1>4, <1>12, <1>13, <2>2
  <2> QED
    BY <1>11, <2>1, <2>3, <2>4 DEF CarriedOver, a, n
<1>16. CASE CanInsert(x.points, there)
  <2>1. np.id = q.points[k + 1].id
    BY <1>3, <1>8
  <2>2. a.points = Append(x.points, np)
    BY <1>11, <1>16
  <2>3. /\ Len(a.points) = n + 1 /\ a.points[n + 1] = np
        /\ \A i \in 1..n : a.points[i] = x.points[i]
    BY <1>1, <2>2 DEF n
  <2>4. n + 1 \in 1..(n + 1) /\ \A i \in 1..n : i \in 1..(n + 1)
    BY <1>1 DEF n
  <2>5. \A i \in 1..(n + 1) : i \in 1..n \/ i = n + 1
    BY <1>1 DEF n
  <2>6. ASSUME NEW i \in 1..(n + 1)
        PROVE  \E j \in 1..(k + 1) : a.points[i] = Relocation(old, new, q.points[j])
    <3>1. CASE i = n + 1
      BY <1>8, <1>14, <2>3, <3>1
    <3>2. CASE i \in 1..n
      BY <1>12, <1>14, <2>3, <3>2
    <3> QED
      BY <2>5, <3>1, <3>2
  <2>7. ASSUME NEW j \in 1..(k + 1)
        PROVE  \E i \in 1..(n + 1) : \/ a.points[i].id = q.points[j].id
                                     \/ Overlaps(a.points[i].range, Place(old, new, q.points[j]))
    <3>1. CASE j = k + 1
      BY <2>1, <2>3, <2>4, <3>1
    <3>2. CASE j \in 1..k
      <4>1. PICK i \in 1..n : \/ x.points[i].id = q.points[j].id
                              \/ Overlaps(x.points[i].range, Place(old, new, q.points[j]))
        BY <1>12, <3>2
      <4> QED
        BY <2>3, <2>4, <4>1
    <3> QED
      BY <1>13, <3>1, <3>2
  <2> QED
    BY <1>11, <2>3, <2>6, <2>7 DEF CarriedOver, a
<1> QED
  BY <1>15, <1>16

(* So all of them are, for whoever adds each that keeps the set as it is to be. *)
LEMMA AllRelocated ==
    ASSUME NEW q, GoodSet(q), NEW old \in Tables, NEW new \in Tables,
           NEW h, h[0] = Empty,
           \A k \in Nat : k + 1 <= Len(q.points) =>
                (GoodSet(NextAdded(h[k], q, k + 1, old, new))
                    => h[k + 1] = NextAdded(h[k], q, k + 1, old, new))
    PROVE  \A k \in Nat : k <= Len(q.points) =>
                /\ GoodSet(h[k]) /\ CarriedOver(h[k], q, k, old, new)
                /\ k + 1 <= Len(q.points) => GoodSet(NextAdded(h[k], q, k + 1, old, new))
<1> DEFINE Good == {k \in Nat : k <= Len(q.points) =>
                        GoodSet(h[k]) /\ CarriedOver(h[k], q, k, old, new)}
<1>1. Len(q.points) \in Nat
  BY DEF GoodSet, PointSet
<1>2. 0 \in Good
  <2>1. CarriedOver(Empty, q, 0, old, new)
    BY EmptyIsGood DEF CarriedOver
  <2> QED
    BY <2>1, EmptyIsGood
<1>3. ASSUME NEW k \in Nat, k \in Good PROVE k + 1 \in Good
  <2>1. k + 1 <= Len(q.points) => GoodSet(h[k]) /\ CarriedOver(h[k], q, k, old, new)
    BY <1>1, <1>3
  <2> HIDE DEF Good
  <2>2. k + 1 <= Len(q.points) => GoodSet(h[k + 1]) /\ CarriedOver(h[k + 1], q, k + 1, old, new)
    BY <2>1, OneRelocated
  <2> QED
    BY <2>2 DEF Good
<1> HIDE DEF Good
<1>4. \A k \in Nat : k \in Good
  BY <1>2, <1>3, Induction
<1>5. \A k \in Nat : k <= Len(q.points) => GoodSet(h[k]) /\ CarriedOver(h[k], q, k, old, new)
  BY <1>4 DEF Good
<1>6. ASSUME NEW k \in Nat, k + 1 <= Len(q.points)
      PROVE  GoodSet(NextAdded(h[k], q, k + 1, old, new))
  <2>1. k <= Len(q.points)
    BY <1>1, <1>6
  <2> QED
    BY <1>5, <1>6, <2>1, OneRelocated
<1> QED
  BY <1>5, <1>6

(* A relocation, as a whole. *)
LEMMA RelocatedIsGood ==
    ASSUME NEW q, GoodSet(q), NEW old \in Tables, NEW new \in Tables
    PROVE  /\ GoodSet(Relocated(q, old, new))
           /\ CarriedOver(Relocated(q, old, new), q, Len(q.points), old, new)
<1> SUFFICES ASSUME NEW n \in Nat, n = Len(q.points)
             PROVE  /\ GoodSet(Relocated(q, old, new))
                    /\ CarriedOver(Relocated(q, old, new), q, n, old, new)
  <2>1. Len(q.points) \in Nat
    BY DEF GoodSet, PointSet
  <2> QED
    BY <2>1
<1> DEFINE V == {x \in PointSet : GoodSet(x)} \cup {Empty}
           A(x, k) == NextAdded(x, q, k, old, new)
<1>1. PICK F \in Moves(n, V) : \A k \in 1..n, x \in V : F[k][x] = IF A(x, k) \in V THEN A(x, k) ELSE x
  <2> HIDE DEF V
  <2> DEFINE G == [k \in 1..n |-> [x \in V |-> IF A(x, k) \in V THEN A(x, k) ELSE x]]
  <2>1. G \in [1..n -> [V -> V]] /\ \A k \in 1..n, x \in V :
          G[k][x] = IF A(x, k) \in V THEN A(x, k) ELSE x
    OBVIOUS
  <2> HIDE DEF G
  <2> QED
    BY <2>1 DEF Moves
<1>2. Empty \in V
  OBVIOUS
<1>3. \A x : GoodSet(x) => x \in V
  BY DEF GoodSet
<1> HIDE DEF V
<1>4. PICK f \in RunsOf(n, V) : IsRun(f, n, Empty, F)
  BY <1>2, RunExists, Zenon
<1>5. \A k \in 0..n : f[k] \in V
  BY <1>4 DEF RunsOf
<1>6. f[0] = Empty /\ \A k \in 1..n : f[k] = F[k][f[k - 1]]
  BY <1>4 DEF IsRun
<1>7. \A k \in Nat : k + 1 <= n => (GoodSet(A(f[k], k + 1)) => f[k + 1] = A(f[k], k + 1))
  <2>1. ASSUME NEW k \in Nat, k + 1 <= n, GoodSet(A(f[k], k + 1))
        PROVE  f[k + 1] = A(f[k], k + 1)
    <3>1. k + 1 \in 1..n /\ k \in 0..n /\ (k + 1) - 1 = k
      BY <2>1
    <3>2. f[k + 1] = F[k + 1][f[k]]
      BY <1>6, <3>1
    <3>3. f[k] \in V /\ A(f[k], k + 1) \in V
      BY <1>3, <1>5, <2>1, <3>1
    <3> HIDE DEF A
    <3> QED
      BY <1>1, <3>1, <3>2, <3>3
  <2> QED
    BY <2>1
<1>8. \A k \in Nat : k + 1 <= n => GoodSet(A(f[k], k + 1))
  BY <1>6, <1>7, AllRelocated
<1>9. \A k \in Nat : k + 1 <= n => f[k + 1] = A(f[k], k + 1)
  BY <1>7, <1>8
<1>10. \A k \in 0..n : f[k] = IF k = 0 THEN Empty ELSE A(f[k - 1], k)
  <2>1. ASSUME NEW k \in 0..n, k # 0 PROVE f[k] = A(f[k - 1], k)
    <3>1. k - 1 \in Nat /\ (k - 1) + 1 = k /\ (k - 1) + 1 <= n
      BY <2>1
    <3> QED
      BY <1>9, <3>1
  <2> QED
    BY <1>6, <2>1
<1> DEFINE g == CHOOSE h : h = [k \in 0..n |-> IF k = 0 THEN Empty ELSE A(h[k - 1], k)]
<1>11. f = [k \in 0..n |-> IF k = 0 THEN Empty ELSE A(f[k - 1], k)]
  BY <1>4, <1>10 DEF RunsOf
<1>12. g = [k \in 0..n |-> IF k = 0 THEN Empty ELSE A(g[k - 1], k)]
  BY <1>11
<1>13. Relocated(q, old, new) = g[n]
  BY DEF Relocated, NextAdded
<1> HIDE DEF g
<1>14. /\ g[0] = Empty
       /\ \A k \in Nat : k + 1 <= n => g[k + 1] = A(g[k], k + 1)
  <2>1. 0 \in 0..n /\ \A k \in Nat : k + 1 <= n => k + 1 \in 0..n /\ k + 1 # 0 /\ (k + 1) - 1 = k
    OBVIOUS
  <2> QED
    BY <1>12, <2>1
<1>15. GoodSet(g[n]) /\ CarriedOver(g[n], q, n, old, new)
  BY <1>14, AllRelocated
<1> QED
  BY <1>13, <1>15

-----------------------------------------------------------------------------
(* The stop points, the marks of their views and what has hit them. *)
Whom == SUBSET (Cpus \cup {"dirty"})
HitsOfListed(q, h) == \A i \in Ids : (\A j \in 1..Len(q.points) : q.points[j].id # i) => h[i] = {}
RowsAgree(q, m, h) == /\ Len(m) = Len(q.points)
                      /\ \A i \in 1..Len(m) : m[i] = h[q.points[i].id]

SetsInv ==
    /\ DOMAIN set = Kinds /\ \A k \in Kinds : GoodSet(set[k])
    /\ DOMAIN marks = Kinds /\ \A k \in Kinds : marks[k] \in Seq(Whom)
    /\ DOMAIN hits = Kinds /\ \A k \in Kinds : hits[k] \in [Ids -> Whom]
    /\ table \in Tables
    /\ machine \in {"halted", "stopped", "running"} /\ stopRequested \in BOOLEAN
RowsInv == On => \A k \in Kinds :
    /\ RowsAgree(set[k], marks[k], hits[k])
    /\ HitsOfListed(set[k], hits[k])
SPInv == SetsInv /\ RowsInv

(* The invariant says what the run checks: the type, the two copies, the
   identifiers, the rows, and the search by address. *)
LEMMA InvSays == SPInv => StopPointsInv
<1> SUFFICES ASSUME SPInv PROVE StopPointsInv
  OBVIOUS
<1>1. ASSUME NEW k \in Kinds
      PROVE  /\ GoodSet(set[k]) /\ set[k] \in PointSet /\ marks[k] \in Seq(Whom)
             /\ set[k].points \in Seq(Point) /\ Len(set[k].points) \in Nat
             /\ DOMAIN set[k].points = 1..Len(set[k].points)
             /\ DOMAIN marks[k] = 1..Len(marks[k])
             /\ ToSet(set[k].points) = {set[k].points[i] : i \in 1..Len(set[k].points)}
  <2>1. GoodSet(set[k]) /\ set[k] \in PointSet /\ marks[k] \in Seq(Whom)
    BY DEF SPInv, SetsInv, GoodSet
  <2>2. set[k].points \in Seq(Point)
    BY <2>1 DEF PointSet
  <2>3. DOMAIN marks[k] = 1..Len(marks[k])
    BY <2>1
  <2> QED
    BY <2>1, <2>2, <2>3 DEF ToSet
<1>2. TypeOK
  <2>1. ASSUME NEW k \in Kinds
        PROVE  /\ \A i \in DOMAIN set[k].points : set[k].points[i] \in Point
               /\ DOMAIN set[k].addressMap \subseteq Key
               /\ \A i \in DOMAIN marks[k] : marks[k][i] \subseteq Cpus \cup {"dirty"}
    <3>1. \A i \in DOMAIN set[k].points : set[k].points[i] \in Point
      BY <1>1
    <3>2. DOMAIN set[k].addressMap \subseteq Key
      BY <1>1, KeysOfSet
    <3>3. \A i \in DOMAIN marks[k] : marks[k][i] \in Whom
      BY <1>1
    <3> QED
      BY <3>1, <3>2, <3>3 DEF Whom
  <2> QED
    BY <2>1 DEF TypeOK, SPInv, SetsInv
<1>3. Disjoint
  BY <1>1 DEF Disjoint, GoodSet, Apart
<1>4. MapAgrees
  <2>1. ASSUME NEW k \in Kinds
        PROVE  /\ DOMAIN set[k].addressMap = {KeyOf(p.range) : p \in ToSet(set[k].points)}
               /\ \A p \in ToSet(set[k].points) : set[k].addressMap[KeyOf(p.range)] = p.id
    <3>1. Maps(set[k].addressMap, set[k].points)
      BY <1>1 DEF GoodSet
    <3>2. ToSet(set[k].points) = {set[k].points[i] : i \in 1..Len(set[k].points)}
      BY <1>1
    <3> QED
      BY <3>1, <3>2 DEF Maps
  <2> QED
    BY <2>1 DEF MapAgrees
<1>5. IdsIncrease
  BY <1>1 DEF IdsIncrease, GoodSet, Increasing
<1>6. MarksAgree
  BY <1>1 DEF MarksAgree, SPInv, RowsInv, RowsAgree
<1>7. ProbeIsRight
  <2>1. Addr \subseteq Nat
    BY StopPointAssumption DEF Addr
  <2> QED
    BY <1>1, <2>1, ProbeFinds DEF ProbeIsRight
<1> QED
  BY <1>2, <1>3, <1>4, <1>5, <1>6, <1>7 DEF StopPointsInv

(* A step that changes one set, its rows and its hits. *)
LEMMA OneSetChanges ==
    ASSUME SPInv, On, NEW k \in Kinds, NEW q, NEW m, NEW h,
           GoodSet(q), m \in Seq(Whom), h \in [Ids -> Whom],
           RowsAgree(q, m, h), HitsOfListed(q, h),
           DOMAIN set' = Kinds, DOMAIN marks' = Kinds, DOMAIN hits' = Kinds,
           set'[k] = q, marks'[k] = m, hits'[k] = h,
           \A j \in Kinds : j # k => /\ set'[j] = set[j] /\ marks'[j] = marks[j]
                                     /\ hits'[j] = hits[j],
           table' = table, machine' = machine, stopRequested' = stopRequested
    PROVE  SPInv'
<1>1. ASSUME NEW j \in Kinds
      PROVE  /\ GoodSet(set'[j]) /\ marks'[j] \in Seq(Whom) /\ hits'[j] \in [Ids -> Whom]
             /\ RowsAgree(set'[j], marks'[j], hits'[j]) /\ HitsOfListed(set'[j], hits'[j])
  <2>1. CASE j = k
    BY <2>1
  <2>2. CASE j # k
    BY <2>2 DEF SPInv, SetsInv, RowsInv
  <2> QED
    BY <2>1, <2>2
<1> QED
  BY <1>1 DEF SPInv, SetsInv, RowsInv

(* What the invariant says of one of the sets. *)
LEMMA OneSet ==
    ASSUME SPInv, NEW k \in Kinds
    PROVE  /\ GoodSet(set[k]) /\ set[k] \in PointSet /\ set[k].points \in Seq(Point)
           /\ Len(set[k].points) \in Nat /\ DOMAIN set[k].points = 1..Len(set[k].points)
           /\ \A i \in 1..Len(set[k].points) : set[k].points[i] \in Point
           /\ Apart(set[k].points) /\ Increasing(set[k].points)
           /\ marks[k] \in Seq(Whom) /\ DOMAIN marks[k] = 1..Len(marks[k])
           /\ hits[k] \in [Ids -> Whom]
           /\ On => RowsAgree(set[k], marks[k], hits[k]) /\ HitsOfListed(set[k], hits[k])
<1>1. GoodSet(set[k]) /\ set[k] \in PointSet /\ marks[k] \in Seq(Whom) /\ hits[k] \in [Ids -> Whom]
  BY DEF SPInv, SetsInv, GoodSet
<1>2. set[k].points \in Seq(Point)
  BY <1>1 DEF PointSet
<1>3. DOMAIN marks[k] = 1..Len(marks[k])
  BY <1>1
<1>4. On => RowsAgree(set[k], marks[k], hits[k]) /\ HitsOfListed(set[k], hits[k])
  BY DEF SPInv, RowsInv
<1> QED
  BY <1>1, <1>2, <1>3, <1>4 DEF GoodSet

(* Nothing is listed at the start. *)
LEMMA StopPointsStart == Init => SPInv
<1> SUFFICES ASSUME Init PROVE SPInv
  OBVIOUS
<1>1. <<>> \in Seq(Whom) /\ NoHits \in [Ids -> Whom]
  <2>1. {} \in Whom
    BY DEF Whom
  <2> QED
    BY <2>1 DEF NoHits
<1>2. table \in Tables
  BY TablesOfSymbols DEF Init
<1> QED
  BY <1>1, <1>2, EmptyIsGood DEF Init, SPInv, SetsInv, RowsInv, On

(* A stop point is added: nobody has hit it. *)
LEMMA AddKeeps ==
    ASSUME SPInv, NEW k \in Kinds, NEW range \in Ranges, Add(k, range)
    PROVE  SPInv'
<1> DEFINE mode == IF k = "breakpoint" THEN {"EXEC"} ELSE {"WRITE"}
           p == [id |-> NextId(set[k].points), range |-> range, mode |-> mode, enabled |-> TRUE]
           n == Len(set[k].points)
           q == Added(set[k], p.range, p.mode, 0, p.enabled)
           m == Append(marks[k], {})
<1>1. On /\ NextId(set[k].points) \in Ids /\ CanInsert(set[k].points, range)
  BY DEF Add
<1>2. range \in AddressRange
  BY StopPointAssumption
<1>3. p \in Point
  BY <1>1, <1>2 DEF Point, Modes
<1>4. NextId(set[k].points) \in Nat /\ \A i \in 1..n : set[k].points[i].id < NextId(set[k].points)
  BY OneSet, NextIdIsNew
<1>5. p.id = IdFor(set[k], 0)
  BY <1>4 DEF IdFor
<1>6. GoodSet(q) /\ q.points = Append(set[k].points, p)
  <2> HIDE DEF p
  <2>1. CanInsert(set[k].points, p.range) /\ 0 \in Nat
    BY <1>1 DEF p
  <2> QED
    BY <1>3, <1>5, <2>1, OneSet, AddedIsGood
<1>7. q = Added(set[k], range, mode, 0, TRUE)
  OBVIOUS
<1>8. /\ set' = [set EXCEPT ![k] = Added(set[k], range, mode, 0, TRUE)]
      /\ marks' = [marks EXCEPT ![k] = m] /\ hits' = hits
      /\ table' = table /\ machine' = machine /\ stopRequested' = stopRequested
  BY DEF Add
<1>9. p.id = NextId(set[k].points)
  OBVIOUS
<1> HIDE DEF q, p, m, mode
<1>10. /\ Len(q.points) = n + 1 /\ q.points[n + 1] = p
       /\ \A i \in 1..n : q.points[i] = set[k].points[i]
  BY <1>3, <1>6, OneSet
<1>11. {} \in Whom
  BY DEF Whom
<1>12. RowsAgree(set[k], marks[k], hits[k]) /\ HitsOfListed(set[k], hits[k]) /\ n \in Nat
  BY <1>1, OneSet
<1>13. Len(marks[k]) = n /\ \A i \in 1..n : marks[k][i] = hits[k][set[k].points[i].id]
  BY <1>12 DEF RowsAgree
<1>14. /\ m \in Seq(Whom) /\ Len(m) = n + 1 /\ m[n + 1] = {}
       /\ \A i \in 1..n : m[i] = marks[k][i]
  BY <1>11, <1>12, <1>13, OneSet DEF m
<1>15. \A i \in 1..n : set[k].points[i].id # p.id
  <2>1. \A i \in 1..n : set[k].points[i].id \in Nat
    BY OneSet, PointParts
  <2> QED
    BY <1>4, <1>9, <2>1
<1>16. p.id \in Ids
  BY <1>1, <1>9
<1>17. hits[k][p.id] = {}
  BY <1>12, <1>15, <1>16 DEF HitsOfListed
<1>18. \A i \in 1..(n + 1) : i \in 1..n \/ i = n + 1
  BY <1>12
<1>19. RowsAgree(q, m, hits[k])
  <2>1. ASSUME NEW i \in 1..(n + 1) PROVE m[i] = hits[k][q.points[i].id]
    BY <1>10, <1>13, <1>14, <1>17, <1>18
  <2> QED
    BY <1>10, <1>14, <2>1 DEF RowsAgree
<1>20. HitsOfListed(q, hits[k])
  <2>1. ASSUME NEW i \in Ids, \A j \in 1..Len(q.points) : q.points[j].id # i
        PROVE  hits[k][i] = {}
    <3>1. \A j \in 1..n : j \in 1..Len(q.points)
      BY <1>10, <1>12
    <3>2. \A j \in 1..n : set[k].points[j].id # i
      BY <1>10, <2>1, <3>1
    <3> QED
      BY <1>12, <3>2 DEF HitsOfListed
  <2> QED
    BY <2>1 DEF HitsOfListed
<1>21. /\ DOMAIN set' = Kinds /\ DOMAIN marks' = Kinds /\ DOMAIN hits' = Kinds
       /\ set'[k] = q /\ marks'[k] = m /\ hits'[k] = hits[k]
       /\ \A j \in Kinds : j # k => /\ set'[j] = set[j] /\ marks'[j] = marks[j]
                                    /\ hits'[j] = hits[j]
  BY <1>7, <1>8 DEF SPInv, SetsInv
<1>22. hits[k] \in [Ids -> Whom]
  BY OneSet
<1> QED
  BY <1>1, <1>6, <1>8, <1>14, <1>19, <1>20, <1>21, <1>22, OneSetChanges

(* A stop point is removed, and forgotten. *)
LEMMA RemoveKeeps ==
    ASSUME SPInv, NEW k \in Kinds, NEW i \in DOMAIN set[k].points, RemovePoint(k, i)
    PROVE  SPInv'
<1> DEFINE n == Len(set[k].points)
           id == set[k].points[i].id
           q == Removed(set[k], i)
           m == RemoveAt(marks[k], i)
           h == [hits[k] EXCEPT ![id] = {}]
           at == [j \in 1..(n - 1) |-> IF j < i THEN j ELSE j + 1]
<1>1. /\ On /\ table' = table /\ machine' = machine /\ stopRequested' = stopRequested
      /\ set' = [set EXCEPT ![k] = Removed(set[k], i)]
      /\ marks' = [marks EXCEPT ![k] = RemoveAt(marks[k], i)]
      /\ hits' = [hits EXCEPT ![k] = [hits[k] EXCEPT ![set[k].points[i].id] = {}]]
  BY DEF RemovePoint, MarksWithout
<1>2. i \in 1..n /\ n \in Nat /\ GoodSet(set[k])
  BY OneSet
<1>3. /\ RowsAgree(set[k], marks[k], hits[k]) /\ HitsOfListed(set[k], hits[k])
      /\ hits[k] \in [Ids -> Whom] /\ marks[k] \in Seq(Whom)
  BY <1>1, OneSet
<1>4. Len(marks[k]) = n /\ \A j \in 1..n : marks[k][j] = hits[k][set[k].points[j].id]
  BY <1>3 DEF RowsAgree
<1>5. {} \in Whom
  BY DEF Whom
<1>6. h \in [Ids -> Whom] /\ \A x \in Ids : h[x] = IF x = id THEN {} ELSE hits[k][x]
  BY <1>3, <1>5
<1>7. GoodSet(q) /\ q.points = RemoveAt(set[k].points, i)
  BY <1>2, RemovedIsGood
<1>8. \A j \in 1..n : j # i => set[k].points[j].id # id
  <2>1. \A j \in 1..n : set[k].points[j].id \in Nat
    BY OneSet, PointParts
  <2>2. \A j \in 1..n : j < i \/ i < j \/ j = i
    BY <1>2
  <2> QED
    BY <1>2, <2>1, <2>2, OneSet DEF Increasing
<1>9. \A j \in 1..n : set[k].points[j].id \in Ids
  BY OneSet, PointParts
<1>10. /\ Len(q.points) = n - 1
       /\ \A j \in 1..(n - 1) : q.points[j] = set[k].points[at[j]]
  BY <1>2, <1>7, OneSet, RemovedOne, ZenonT(40)
<1>11. /\ m \in Seq(Whom) /\ Len(m) = n - 1
       /\ \A j \in 1..(n - 1) : m[j] = marks[k][at[j]]
  <2>1. i \in 1..Len(marks[k])
    BY <1>2, <1>4
  <2>2. /\ m \in Seq(Whom) /\ Len(m) = Len(marks[k]) - 1
        /\ \A j \in 1..(Len(marks[k]) - 1) : m[j] = marks[k][IF j < i THEN j ELSE j + 1]
    BY <1>3, <2>1, RemovedOne
  <2> HIDE DEF m
  <2> QED
    BY <1>4, <2>2
<1>12. \A j \in 1..(n - 1) : at[j] \in 1..n /\ at[j] # i
  BY <1>2
<1>13. \A x \in 1..n : x # i => \E j \in 1..(n - 1) : at[j] = x
  <2>1. ASSUME NEW x \in 1..n, x < i PROVE x \in 1..(n - 1) /\ at[x] = x
    BY <1>2, <2>1
  <2>2. ASSUME NEW x \in 1..n, x > i PROVE x - 1 \in 1..(n - 1) /\ at[x - 1] = x
    <3>1. x - 1 \in 1..(n - 1) /\ ~(x - 1 < i) /\ (x - 1) + 1 = x
      BY <1>2, <2>2
    <3>2. \A j \in 1..(n - 1) : ~(j < i) => at[j] = j + 1
      OBVIOUS
    <3> HIDE DEF at
    <3> QED
      BY <3>1, <3>2
  <2>3. \A x \in 1..n : x # i => x < i \/ x > i
    BY <1>2
  <2> HIDE DEF at
  <2> QED
    BY <2>1, <2>2, <2>3
<1> HIDE DEF q, m, h, at, id
<1>14. RowsAgree(q, m, h)
  <2>1. ASSUME NEW j \in 1..(n - 1) PROVE m[j] = h[q.points[j].id]
    <3>1. at[j] \in 1..n /\ at[j] # i /\ q.points[j] = set[k].points[at[j]] /\ m[j] = marks[k][at[j]]
      BY <1>10, <1>11, <1>12
    <3>2. q.points[j].id # id /\ q.points[j].id \in Ids
      BY <1>8, <1>9, <3>1
    <3> QED
      BY <1>4, <1>6, <3>1, <3>2, SMTT(40)
  <2> QED
    BY <1>10, <1>11, <2>1 DEF RowsAgree
<1>15. HitsOfListed(q, h)
  <2>1. ASSUME NEW x \in Ids, \A j \in 1..Len(q.points) : q.points[j].id # x
        PROVE  h[x] = {}
    <3>1. CASE x = id
      BY <1>6, <3>1
    <3>2. CASE x # id
      <4>1. ASSUME NEW j \in 1..n PROVE set[k].points[j].id # x
        <5>1. CASE j = i
          BY <3>2, <5>1 DEF id
        <5>2. CASE j # i
          <6>1. PICK y \in 1..(n - 1) : at[y] = j
            BY <1>13, <5>2
          <6> QED
            BY <1>10, <2>1, <6>1
        <5> QED
          BY <5>1, <5>2
      <4>2. hits[k][x] = {}
        BY <1>3, <4>1 DEF HitsOfListed
      <4> QED
        BY <1>6, <3>2, <4>2
    <3> QED
      BY <3>1, <3>2
  <2> QED
    BY <2>1 DEF HitsOfListed
<1>16. /\ DOMAIN set' = Kinds /\ DOMAIN marks' = Kinds /\ DOMAIN hits' = Kinds
       /\ set'[k] = q /\ marks'[k] = m /\ hits'[k] = h
       /\ \A j \in Kinds : j # k => /\ set'[j] = set[j] /\ marks'[j] = marks[j]
                                    /\ hits'[j] = hits[j]
  BY <1>1 DEF SPInv, SetsInv, q, m, h, id
<1> QED
  BY <1>1, <1>6, <1>7, <1>11, <1>14, <1>15, <1>16, OneSetChanges

(* A stop point is edited: it keeps its identifier and its row. *)
LEMMA EditKeepsSet ==
    ASSUME SPInv, On, NEW k \in Kinds, NEW i \in 1..Len(set[k].points), NEW p \in Point,
           p.id = set[k].points[i].id, p.range = set[k].points[i].range,
           DOMAIN set' = Kinds,
           set'[k] = [set[k] EXCEPT !.points = [set[k].points EXCEPT ![i] = p]],
           \A j \in Kinds : j # k => set'[j] = set[j],
           marks' = marks, hits' = hits, table' = table, machine' = machine,
           stopRequested' = stopRequested
    PROVE  SPInv'
<1> DEFINE n == Len(set[k].points)
           q == [set[k] EXCEPT !.points = [set[k].points EXCEPT ![i] = p]]
<1>1. GoodSet(set[k])
  BY OneSet
<1>2. /\ GoodSet(q) /\ q.points = [set[k].points EXCEPT ![i] = p]
      /\ Len(q.points) = n /\ \A j \in 1..n : q.points[j].id = set[k].points[j].id
  BY <1>1, EditedIsGood
<1>3. /\ RowsAgree(set[k], marks[k], hits[k]) /\ HitsOfListed(set[k], hits[k])
      /\ hits[k] \in [Ids -> Whom] /\ marks[k] \in Seq(Whom)
  BY OneSet
<1>4. set'[k] = q
  OBVIOUS
<1> HIDE DEF q
<1>5. RowsAgree(q, marks[k], hits[k])
  BY <1>2, <1>3 DEF RowsAgree
<1>6. HitsOfListed(q, hits[k])
  BY <1>2, <1>3 DEF HitsOfListed
<1>7. /\ DOMAIN marks' = Kinds /\ DOMAIN hits' = Kinds
      /\ marks'[k] = marks[k] /\ hits'[k] = hits[k]
      /\ \A j \in Kinds : j # k => /\ set'[j] = set[j] /\ marks'[j] = marks[j]
                                   /\ hits'[j] = hits[j]
  BY DEF SPInv, SetsInv
<1> QED
  BY <1>2, <1>3, <1>4, <1>5, <1>6, <1>7, OneSetChanges

(* A stop point is switched on or off. *)
LEMMA SetEnabledKeeps ==
    ASSUME SPInv, NEW k \in Kinds, NEW i \in DOMAIN set[k].points, SetEnabled(k, i)
    PROVE  SPInv'
<1>1. On /\ i \in 1..Len(set[k].points) /\ set[k].points[i] \in Point
  BY OneSet DEF SetEnabled
<1>2. PICK p : p = [set[k].points[i] EXCEPT !.enabled = ~set[k].points[i].enabled]
  OBVIOUS
<1>3. p \in Point /\ p.id = set[k].points[i].id /\ p.range = set[k].points[i].range
  BY <1>1, <1>2 DEF Point
<1>4. set' = [set EXCEPT ![k] = [set[k] EXCEPT !.points =
                 [set[k].points EXCEPT ![i] = p]]]
  BY <1>2 DEF SetEnabled
<1>5. PICK q : q = [set[k] EXCEPT !.points = [set[k].points EXCEPT ![i] = p]]
  OBVIOUS
<1>6. set' = [set EXCEPT ![k] = q]
  BY <1>4, <1>5
<1>7. DOMAIN set' = Kinds /\ set'[k] = q /\ \A j \in Kinds : j # k => set'[j] = set[j]
  BY <1>6 DEF SPInv, SetsInv
<1>8. set'[k] = [set[k] EXCEPT !.points = [set[k].points EXCEPT ![i] = p]]
  BY <1>5, <1>7
<1>9. /\ marks' = marks /\ hits' = hits /\ table' = table /\ machine' = machine
      /\ stopRequested' = stopRequested
  BY DEF SetEnabled
<1> QED
  BY <1>1, <1>3, <1>7, <1>8, <1>9, EditKeepsSet

(* The type of access of a suspect is edited. *)
LEMMA SetAccessModeKeeps ==
    ASSUME SPInv, NEW mode \in SUBSET Modes, "suspect" \in Kinds,
           NEW i \in DOMAIN set["suspect"].points, SetAccessMode(i, mode)
    PROVE  SPInv'
<1>1. PICK k \in Kinds : k = "suspect"
  OBVIOUS
<1>2. On /\ i \in 1..Len(set[k].points) /\ set[k].points[i] \in Point
  BY <1>1, OneSet DEF SetAccessMode
<1>3. PICK p : p = [set[k].points[i] EXCEPT !.mode = mode]
  OBVIOUS
<1>4. p \in Point /\ p.id = set[k].points[i].id /\ p.range = set[k].points[i].range
  BY <1>2, <1>3 DEF Point
<1>5. set' = [set EXCEPT ![k] = [set[k] EXCEPT !.points =
                 [set[k].points EXCEPT ![i] = p]]]
  BY <1>1, <1>3 DEF SetAccessMode
<1>6. PICK q : q = [set[k] EXCEPT !.points = [set[k].points EXCEPT ![i] = p]]
  OBVIOUS
<1>7. set' = [set EXCEPT ![k] = q]
  BY <1>5, <1>6
<1>8. DOMAIN set' = Kinds /\ set'[k] = q /\ \A j \in Kinds : j # k => set'[j] = set[j]
  BY <1>7 DEF SPInv, SetsInv
<1>9. set'[k] = [set[k] EXCEPT !.points = [set[k].points EXCEPT ![i] = p]]
  BY <1>6, <1>8
<1>10. /\ marks' = marks /\ hits' = hits /\ table' = table /\ machine' = machine
      /\ stopRequested' = stopRequested
  BY DEF SetAccessMode
<1> QED
  BY <1>2, <1>4, <1>8, <1>9, <1>10, EditKeepsSet

(* The mark of a trace that is shown goes, and its hits with it. *)
LEMMA RefreshKeeps ==
    ASSUME SPInv, "trace" \in Kinds, NEW i \in DOMAIN set["trace"].points, RefreshView(i)
    PROVE  SPInv'
<1>1. PICK k \in Kinds : k = "trace"
  OBVIOUS
<1> DEFINE n == Len(set[k].points)
<1>2. On /\ i \in 1..n /\ n \in Nat
  BY <1>1, OneSet DEF RefreshView
<1>3. PICK id \in Ids : id = set[k].points[i].id
  BY <1>2, OneSet, PointParts
<1>4. /\ RowsAgree(set[k], marks[k], hits[k]) /\ HitsOfListed(set[k], hits[k])
      /\ hits[k] \in [Ids -> Whom] /\ marks[k] \in Seq(Whom)
  BY <1>2, OneSet
<1>5. Len(marks[k]) = n /\ \A j \in 1..n : marks[k][j] = hits[k][set[k].points[j].id]
  BY <1>4 DEF RowsAgree
<1>6. {} \in Whom
  BY DEF Whom
<1>7. PICK m : m = [marks[k] EXCEPT ![i] = {}]
  OBVIOUS
<1>8. PICK h : h = [hits[k] EXCEPT ![id] = {}]
  OBVIOUS
<1>9. m \in Seq(Whom) /\ Len(m) = n /\ \A j \in 1..n : m[j] = IF j = i THEN {} ELSE marks[k][j]
  BY <1>2, <1>4, <1>5, <1>6, <1>7
<1>10. h \in [Ids -> Whom] /\ \A x \in Ids : h[x] = IF x = id THEN {} ELSE hits[k][x]
  BY <1>4, <1>6, <1>8
<1>11. \A j \in 1..n : set[k].points[j].id \in Ids /\ (set[k].points[j].id = id => j = i)
  <2>1. \A j \in 1..n : set[k].points[j].id \in Ids /\ set[k].points[j].id \in Nat
    BY OneSet, PointParts
  <2>2. \A j \in 1..n : j < i \/ i < j \/ j = i
    BY <1>2
  <2>3. \A j, l \in 1..n : j < l => set[k].points[j].id < set[k].points[l].id
    BY OneSet DEF Increasing
  <2> QED
    BY <1>2, <1>3, <2>1, <2>2, <2>3
<1>12. RowsAgree(set[k], m, h)
  <2>1. ASSUME NEW j \in 1..n PROVE m[j] = h[set[k].points[j].id]
    BY <1>3, <1>5, <1>9, <1>10, <1>11
  <2> QED
    BY <1>9, <2>1 DEF RowsAgree
<1>13. HitsOfListed(set[k], h)
  BY <1>4, <1>10 DEF HitsOfListed
<1>14. /\ marks' = [marks EXCEPT ![k] = m] /\ hits' = [hits EXCEPT ![k] = h]
       /\ set' = set /\ table' = table /\ machine' = machine /\ stopRequested' = stopRequested
  BY <1>1, <1>3, <1>7, <1>8 DEF RefreshView
<1>15. /\ DOMAIN set' = Kinds /\ DOMAIN marks' = Kinds /\ DOMAIN hits' = Kinds
       /\ set'[k] = set[k] /\ marks'[k] = m /\ hits'[k] = h
       /\ \A j \in Kinds : j # k => /\ set'[j] = set[j] /\ marks'[j] = marks[j]
                                    /\ hits'[j] = hits[j]
  BY <1>14 DEF SPInv, SetsInv
<1>16. GoodSet(set[k])
  BY OneSet
<1> QED
  BY <1>2, <1>9, <1>10, <1>12, <1>13, <1>14, <1>15, <1>16, OneSetChanges

(* Steps that change what all sets are shown with, and none of the sets. *)
LEMMA AllRowsChange ==
    ASSUME SPInv, set' = set, DOMAIN marks' = Kinds, DOMAIN hits' = Kinds,
           \A j \in Kinds : /\ marks'[j] \in Seq(Whom) /\ hits'[j] \in [Ids -> Whom]
                            /\ RowsAgree(set[j], marks'[j], hits'[j])
                            /\ HitsOfListed(set[j], hits'[j]),
           table' = table, machine' \in {"halted", "stopped", "running"},
           stopRequested' \in BOOLEAN
    PROVE  SPInv'
  BY DEF SPInv, SetsInv, RowsInv

(* A row and an identifier tell of the same stop point. *)
LEMMA RowsAndIds ==
    ASSUME NEW q, GoodSet(q), NEW i \in 1..Len(q.points), NEW p \in ToSet(q.points)
    PROVE  i = RowOf(q, p) <=> p.id = q.points[i].id
<1>1. /\ q.points \in Seq(Point) /\ Len(q.points) \in Nat /\ Increasing(q.points)
      /\ ToSet(q.points) = {q.points[j] : j \in 1..Len(q.points)}
      /\ DOMAIN q.points = 1..Len(q.points)
  BY DEF GoodSet, PointSet, ToSet
<1>2. PICK j \in 1..Len(q.points) : p = q.points[j]
  BY <1>1
<1>3. \A x, y \in 1..Len(q.points) : q.points[x].id = q.points[y].id => x = y
  <2>1. \A x \in 1..Len(q.points) : q.points[x] \in Point
    BY <1>1
  <2>2. \A x \in 1..Len(q.points) : q.points[x].id \in Nat
    BY <2>1, PointParts
  <2>3. \A x, y \in 1..Len(q.points) : x < y \/ y < x \/ x = y
    BY <1>1
  <2>4. \A x, y \in 1..Len(q.points) : x < y => q.points[x].id < q.points[y].id
    BY <1>1 DEF Increasing
  <2> QED
    BY <2>2, <2>3, <2>4
<1>4. RowOf(q, p) \in 1..Len(q.points) /\ q.points[RowOf(q, p)] = p
  BY <1>1, <1>2 DEF RowOf
<1> QED
  BY <1>2, <1>3, <1>4

(* An access marks the row of the stop point that it hits, and no other. *)
LEMMA AccessKeeps ==
    ASSUME SPInv, NEW cpu \in Cpus, NEW asid \in Asids, NEW addr \in Addr, NEW mode \in Modes,
           NEW masked \in BOOLEAN, Access(cpu, asid, addr, mode, masked)
    PROVE  SPInv'
<1> DEFINE sets == {k \in LookedUp(mode, masked) : k = "trace" => asid = MAXASID}
           found == [k \in Kinds |-> IF k \in sets THEN Probe(set[k], asid, addr, mode) ELSE {}]
           by == [k \in Kinds |-> IF k = "trace" THEN {"dirty"} ELSE {cpu}]
           rows == [k \in Kinds |-> [i \in DOMAIN marks[k] |->
                      IF \E p \in found[k] : i = RowOf(set[k], p)
                      THEN marks[k][i] \cup by[k] ELSE marks[k][i]]]
           all == [k \in Kinds |-> [i \in Ids |->
                     IF \E p \in found[k] : p.id = i THEN hits[k][i] \cup by[k] ELSE hits[k][i]]]
<1>1. /\ machine = "running" /\ set' = set /\ table' = table /\ machine' = machine
      /\ stopRequested' = (stopRequested \/ \E k \in Kinds \ {"trace"} : found[k] # {})
  BY DEF Access
<1>2. marks' = rows
  BY DEF Access
<1>3. hits' = all
  BY DEF Access
<1>4. \A k \in Kinds : found[k] = IF k \in sets THEN Probe(set[k], asid, addr, mode) ELSE {}
  <2> HIDE DEF sets
  <2> QED
    OBVIOUS
<1>5. \A k \in Kinds : found[k] \subseteq ToSet(set[k].points)
  <2>1. addr \in Nat
    BY StopPointAssumption DEF Addr
  <2>2. ASSUME NEW k \in Kinds
        PROVE  Probe(set[k], asid, addr, mode) \subseteq ToSet(set[k].points)
    <3>1. GoodSet(set[k])
      BY OneSet
    <3>2. Probe(set[k], asid, addr, mode)
            = {p \in ToSet(set[k].points) : Matches(p, asid, addr, mode)}
      BY <2>1, <3>1, ProbeFinds
    <3> QED
      BY <3>2
  <2> HIDE DEF sets, found
  <2> QED
    BY <1>4, <2>2
<1>6. \A k \in Kinds : by[k] \subseteq Cpus \cup {"dirty"}
  OBVIOUS
<1>7. DOMAIN rows = Kinds /\ \A k \in Kinds : rows[k] = [i \in DOMAIN marks[k] |->
                      IF \E p \in found[k] : i = RowOf(set[k], p)
                      THEN marks[k][i] \cup by[k] ELSE marks[k][i]]
  <2> HIDE DEF found, by
  <2> QED
    OBVIOUS
<1>8. DOMAIN all = Kinds /\ \A k \in Kinds : all[k] = [i \in Ids |->
                     IF \E p \in found[k] : p.id = i THEN hits[k][i] \cup by[k] ELSE hits[k][i]]
  <2> HIDE DEF found, by
  <2> QED
    OBVIOUS
<1>9. On
  BY <1>1 DEF On
<1> HIDE DEF found, by, rows, all
<1>10. ASSUME NEW k \in Kinds
      PROVE  /\ rows[k] \in Seq(Whom) /\ all[k] \in [Ids -> Whom]
             /\ RowsAgree(set[k], rows[k], all[k]) /\ HitsOfListed(set[k], all[k])
  <2> DEFINE n == Len(set[k].points)
  <2>1. /\ RowsAgree(set[k], marks[k], hits[k]) /\ HitsOfListed(set[k], hits[k])
        /\ hits[k] \in [Ids -> Whom] /\ marks[k] \in Seq(Whom) /\ n \in Nat
        /\ DOMAIN marks[k] = 1..Len(marks[k]) /\ GoodSet(set[k])
    BY <1>9, OneSet
  <2>2. Len(marks[k]) = n /\ \A i \in 1..n : marks[k][i] = hits[k][set[k].points[i].id]
    BY <2>1 DEF RowsAgree
  <2>3. \A x \in Whom : x \cup by[k] \in Whom
    BY <1>6 DEF Whom
  <2>4. \A i \in 1..n : marks[k][i] \in Whom
    BY <2>1, <2>2
  <2>5. PICK hit : hit = {i \in 1..n : \E p \in found[k] : i = RowOf(set[k], p)}
    OBVIOUS
  <2>6. PICK ids : ids = {i \in Ids : \E p \in found[k] : p.id = i}
    OBVIOUS
  <2>7. PICK who : who = by[k]
    OBVIOUS
  <2>8. rows[k] = [i \in 1..n |-> IF i \in hit THEN marks[k][i] \cup who ELSE marks[k][i]]
    BY <1>7, <2>1, <2>2, <2>5, <2>7
  <2>9. all[k] = [i \in Ids |-> IF i \in ids THEN hits[k][i] \cup who ELSE hits[k][i]]
    BY <1>8, <2>6, <2>7
  <2>10. \A x \in Whom : x \cup who \in Whom
    BY <2>3, <2>7
  <2>11. /\ rows[k] \in [1..n -> Whom]
        /\ \A i \in 1..n : rows[k][i] = IF i \in hit THEN marks[k][i] \cup who ELSE marks[k][i]
    BY <2>4, <2>8, <2>10
  <2>12. rows[k] \in Seq(Whom) /\ Len(rows[k]) = n
    BY <2>1, <2>11
  <2>13. /\ all[k] \in [Ids -> Whom]
        /\ \A i \in Ids : all[k][i] = IF i \in ids THEN hits[k][i] \cup who ELSE hits[k][i]
    BY <2>1, <2>9, <2>10
  <2>14. ASSUME NEW i \in 1..n PROVE rows[k][i] = all[k][set[k].points[i].id]
    <3>1. set[k].points[i].id \in Ids
      BY OneSet, PointParts
    <3>2. i \in hit <=> set[k].points[i].id \in ids
      <4>1. \A p \in found[k] : i = RowOf(set[k], p) <=> p.id = set[k].points[i].id
        BY <1>5, <2>1, RowsAndIds
      <4> QED
        BY <2>5, <2>6, <3>1, <4>1
    <3> QED
      BY <2>2, <2>11, <2>13, <3>2, <3>1
  <2>15. RowsAgree(set[k], rows[k], all[k])
    BY <2>12, <2>14 DEF RowsAgree
  <2>16. ASSUME NEW i \in Ids, \A j \in 1..n : set[k].points[j].id # i
         PROVE  all[k][i] = {}
    <3>1. hits[k][i] = {}
      BY <2>1, <2>16 DEF HitsOfListed
    <3>2. ASSUME NEW p \in found[k], p.id = i PROVE FALSE
      <4>1. PICK j \in 1..n : p = set[k].points[j]
        BY <1>5, <3>2, OneSet DEF ToSet
      <4> QED
        BY <2>16, <3>2, <4>1
    <3>3. i \notin ids
      BY <2>6, <3>2
    <3> QED
      BY <2>13, <3>1, <3>3
  <2>17. HitsOfListed(set[k], all[k])
    BY <2>16 DEF HitsOfListed
  <2> QED
    BY <2>12, <2>13, <2>15, <2>17
<1>11. machine' \in {"halted", "stopped", "running"} /\ stopRequested' \in BOOLEAN
  BY <1>1
<1>12. /\ DOMAIN marks' = Kinds /\ DOMAIN hits' = Kinds
       /\ \A j \in Kinds : /\ marks'[j] \in Seq(Whom) /\ hits'[j] \in [Ids -> Whom]
                           /\ RowsAgree(set[j], marks'[j], hits'[j])
                           /\ HitsOfListed(set[j], hits'[j])
  BY <1>2, <1>3, <1>7, <1>8, <1>10
<1> QED
  BY <1>1, <1>11, <1>12, AllRowsChange

(* Rows without marks agree with hits of nobody. *)
LEMMA FreshRows ==
    ASSUME NEW q, GoodSet(q)
    PROVE  /\ Fresh(q) \in Seq(Whom) /\ NoHits \in [Ids -> Whom]
           /\ RowsAgree(q, Fresh(q), NoHits) /\ HitsOfListed(q, NoHits)
<1>1. q.points \in Seq(Point) /\ Len(q.points) \in Nat /\ DOMAIN q.points = 1..Len(q.points)
  BY DEF GoodSet, PointSet
<1>2. {} \in Whom
  BY DEF Whom
<1>3. Fresh(q) = [i \in 1..Len(q.points) |-> {}]
  BY <1>1 DEF Fresh
<1>4. Fresh(q) \in Seq(Whom) /\ Len(Fresh(q)) = Len(q.points)
  BY <1>1, <1>2, <1>3
<1>5. NoHits \in [Ids -> Whom] /\ \A i \in Ids : NoHits[i] = {}
  BY <1>2 DEF NoHits
<1>6. \A i \in 1..Len(q.points) : q.points[i].id \in Ids
  <2>1. \A i \in 1..Len(q.points) : q.points[i] \in Point
    BY <1>1
  <2> QED
    BY <2>1, PointParts
<1> QED
  BY <1>3, <1>4, <1>5, <1>6 DEF RowsAgree, HitsOfListed

(* A run: the marks of breakpoints and suspects go. *)
LEMMA RunKeeps == ASSUME SPInv, Run PROVE SPInv'
<1>1. /\ machine = "stopped" /\ machine' = "running" /\ stopRequested' = FALSE
      /\ set' = set /\ table' = table
      /\ marks' = [k \in Kinds |-> IF k = "trace" THEN marks[k] ELSE Fresh(set[k])]
      /\ hits' = [k \in Kinds |-> IF k = "trace" THEN hits[k] ELSE NoHits]
  BY DEF Run
<1>2. On
  BY <1>1 DEF On
<1>3. ASSUME NEW j \in Kinds
      PROVE  /\ marks'[j] \in Seq(Whom) /\ hits'[j] \in [Ids -> Whom]
             /\ RowsAgree(set[j], marks'[j], hits'[j])
             /\ HitsOfListed(set[j], hits'[j])
  <2>1. CASE j = "trace"
    <3>1. marks'[j] = marks[j] /\ hits'[j] = hits[j]
      BY <1>1, <2>1
    <3> QED
      BY <1>2, <3>1, OneSet
  <2>2. CASE j # "trace"
    <3>1. marks'[j] = Fresh(set[j]) /\ hits'[j] = NoHits
      BY <1>1, <2>2
    <3> QED
      BY <3>1, OneSet, FreshRows
  <2> QED
    BY <2>1, <2>2
<1>4. DOMAIN marks' = Kinds /\ DOMAIN hits' = Kinds
  BY <1>1
<1>5. machine' \in {"halted", "stopped", "running"} /\ stopRequested' \in BOOLEAN
  BY <1>1
<1> QED
  BY <1>1, <1>3, <1>4, <1>5, AllRowsChange

(* The machine stops, and keeps its marks. *)
LEMMA StopKeeps == ASSUME SPInv, Stop PROVE SPInv'
  BY DEF Stop, SPInv, SetsInv, RowsInv, On

(* A machine that starts again has all stop points relocated, and nothing
   marked. *)
LEMMA InitializeKeeps ==
    ASSUME SPInv, NEW f \in Symbols, Initialize(Table(f)) PROVE SPInv'
<1> DEFINE new == Table(f)
<1>1. /\ set' = IF new.asid = table.asid
                THEN [k \in Kinds |-> Relocated(set[k], table, new)] ELSE set
      /\ table' = new /\ machine' = "stopped" /\ stopRequested' = FALSE
      /\ marks' = [k \in Kinds |-> Fresh(set'[k])]
      /\ hits' = [k \in Kinds |-> NoHits]
  BY DEF Initialize
<1>2. new \in Tables /\ table \in Tables
  BY TablesOfSymbols DEF SPInv, SetsInv
<1> HIDE DEF new
<1>3. ASSUME NEW j \in Kinds
      PROVE  /\ GoodSet(set'[j]) /\ marks'[j] \in Seq(Whom) /\ hits'[j] \in [Ids -> Whom]
             /\ RowsAgree(set'[j], marks'[j], hits'[j]) /\ HitsOfListed(set'[j], hits'[j])
  <2>1. set'[j] \in {set[j], Relocated(set[j], table, new)}
    BY <1>1
  <2>2. GoodSet(set'[j])
    BY <1>2, <2>1, OneSet, RelocatedIsGood
  <2>3. marks'[j] = Fresh(set'[j]) /\ hits'[j] = NoHits
    BY <1>1
  <2> QED
    BY <2>2, <2>3, FreshRows
<1>4. DOMAIN set' = Kinds /\ DOMAIN marks' = Kinds /\ DOMAIN hits' = Kinds
  BY <1>1 DEF SPInv, SetsInv
<1> QED
  BY <1>1, <1>2, <1>3, <1>4 DEF SPInv, SetsInv, RowsInv

(* A machine that is switched off has no views; without it, the stop points
   can be cleared. *)
LEMMA OffKeeps == ASSUME SPInv, Halt \/ Clear PROVE SPInv'
<1>1. CASE Halt
  <2>1. <<>> \in Seq(Whom) /\ NoHits \in [Ids -> Whom]
    BY EmptyIsGood, FreshRows
  <2> QED
    BY <1>1, <2>1 DEF Halt, SPInv, SetsInv, RowsInv, On
<1>2. CASE Clear
  <2>1. ~On'
    BY <1>2 DEF Clear, On
  <2> QED
    BY <1>2, <2>1, EmptyIsGood DEF Clear, SPInv, SetsInv, RowsInv
<1> QED
  BY <1>1, <1>2

(* Every step keeps the invariant. *)
LEMMA StopPointsStep == ASSUME SPInv, [Next]_vars PROVE SPInv'
<1>1. CASE UNCHANGED vars
  BY <1>1 DEF vars, SPInv, SetsInv, RowsInv, On
<1>2. ASSUME NEW k \in Kinds, NEW r \in Ranges, Add(k, r) PROVE SPInv'
  BY <1>2, AddKeeps
<1>3. ASSUME NEW k \in Kinds, NEW i \in DOMAIN set[k].points, RemovePoint(k, i) PROVE SPInv'
  BY <1>3, RemoveKeeps
<1>4. ASSUME NEW k \in Kinds, NEW i \in DOMAIN set[k].points, SetEnabled(k, i) PROVE SPInv'
  BY <1>4, SetEnabledKeeps
<1>5. ASSUME "suspect" \in Kinds, NEW i \in DOMAIN set["suspect"].points,
             SetAccessMode(i, {"READ"})
      PROVE  SPInv'
  <2>1. {"READ"} \in SUBSET Modes
    BY DEF Modes
  <2> QED
    BY <1>5, <2>1, SetAccessModeKeeps
<1>6. ASSUME "trace" \in Kinds, NEW i \in DOMAIN set["trace"].points, RefreshView(i)
      PROVE  SPInv'
  BY <1>6, RefreshKeeps
<1>7. ASSUME NEW cpu \in Cpus, NEW asid \in Asids, NEW a \in Addr, NEW mode \in Modes,
             NEW m \in BOOLEAN, Access(cpu, asid, a, mode, m)
      PROVE  SPInv'
  BY <1>7, AccessKeeps
<1>8. CASE Stop \/ Run
  BY <1>8, StopKeeps, RunKeeps
<1>9. ASSUME NEW f \in Symbols, Initialize(Table(f)) PROVE SPInv'
  BY <1>9, InitializeKeeps
<1>10. CASE Halt \/ Clear
  BY <1>10, OffKeeps
<1> QED
  BY <1>1, <1>2, <1>3, <1>4, <1>5, <1>6, <1>7, <1>8, <1>9, <1>10 DEF Next, Edits

(* The stop points are found, told apart and shown by row whatever is added,
   removed, edited, hit or relocated (stoppoint.cc, stoppoint_list_model.cc). *)
THEOREM StopPointsAreRight == Spec => []StopPointsInv
<1>1. Spec => []SPInv
  BY StopPointsStart, StopPointsStep, PTL DEF Spec
<1> QED
  BY <1>1, InvSays, PTL

(* What a relocation keeps of each of the stop points of a set. *)
LEMMA RelocatedFollow ==
    ASSUME NEW q, GoodSet(q), NEW old \in Tables, NEW new \in Tables,
           new.asid = old.asid, NEW r, r = Relocated(q, old, new)
    PROVE  /\ \A x \in ToSet(r.points) : \E p \in ToSet(q.points) : Follows(p, x, old, new)
           /\ \A p \in ToSet(q.points) :
                \/ \E x \in ToSet(r.points) : x.id = p.id
                \/ \E x \in ToSet(r.points) : Overlaps(x.range, Place(old, new, p))
<1>1. GoodSet(r) /\ CarriedOver(r, q, Len(q.points), old, new)
  BY RelocatedIsGood
<1>2. /\ ToSet(r.points) = {r.points[i] : i \in 1..Len(r.points)}
      /\ ToSet(q.points) = {q.points[i] : i \in 1..Len(q.points)}
      /\ \A i \in 1..Len(q.points) : q.points[i] \in Point
  <2>1. r.points \in Seq(Point) /\ q.points \in Seq(Point)
    BY <1>1 DEF GoodSet, PointSet
  <2> QED
    BY <2>1 DEF ToSet
<1>3. ASSUME NEW x \in ToSet(r.points)
      PROVE  \E p \in ToSet(q.points) : Follows(p, x, old, new)
  <2>1. PICK i \in 1..Len(r.points) : x = r.points[i]
    BY <1>2
  <2>2. PICK j \in 1..Len(q.points) : x = Relocation(old, new, q.points[j])
    BY <1>1, <2>1 DEF CarriedOver
  <2>3. PICK p \in Point : p = q.points[j] /\ p \in ToSet(q.points)
    BY <1>2
  <2>4. /\ x.id = p.id /\ x.mode = p.mode /\ x.enabled = p.enabled
        /\ x.range = Place(old, new, p)
    BY <2>2, <2>3 DEF Relocation
  <2>5. p.range \in AddressRange
    BY PointParts
  <2>6. CASE p.range.asid = old.asid
    <3>1. x.range = Moved(old, new, p.range)
      BY <2>4, <2>6 DEF Place
    <3>2. /\ x.range.asid = p.range.asid
          /\ x.range.end - x.range.start = p.range.end - p.range.start
      BY <2>5, <3>1, MovedKeeps
    <3>3. IF \E y \in SymbolAt(old, p.range.start) : OneFound(Lookup(new, y.name, y.type))
          THEN \E y \in SymbolAt(old, p.range.start) : \E z \in ToSet(All(new)) :
                 /\ z.name = y.name /\ z.type = y.type
                 /\ x.range.start - z.start = p.range.start - y.start
          ELSE x.range = p.range
      BY <2>5, <3>1, MovedKeeps
    <3>4. Follows(p, x, old, new)
      BY <2>4, <2>6, <3>2, <3>3 DEF Follows, CanFollow
    <3> QED
      BY <2>3, <3>4
  <2>7. CASE p.range.asid # old.asid
    <3>1. x.range = p.range
      BY <2>4, <2>7 DEF Place
    <3>2. Follows(p, x, old, new)
      BY <2>4, <2>7, <3>1 DEF Follows, CanFollow
    <3> QED
      BY <2>3, <3>2
  <2> QED
    BY <2>6, <2>7
<1>4. ASSUME NEW p \in ToSet(q.points)
      PROVE  \/ \E x \in ToSet(r.points) : x.id = p.id
             \/ \E x \in ToSet(r.points) : Overlaps(x.range, Place(old, new, p))
  <2>1. PICK j \in 1..Len(q.points) : p = q.points[j]
    BY <1>2
  <2>2. PICK i \in 1..Len(r.points) : \/ r.points[i].id = p.id
                                      \/ Overlaps(r.points[i].range, Place(old, new, p))
    BY <1>1, <2>1 DEF CarriedOver
  <2>3. r.points[i] \in ToSet(r.points)
    BY <1>2
  <2> QED
    BY <2>2, <2>3
<1> QED
  BY <1>3, <1>4

(* A relocation keeps what a stop point is, and where it is from the symbol it
   is in; what it loses has collided (debug_session.cc: relocateStoppoints). *)
THEOREM RelocationsKeep == Spec => RelocationKeeps
<1> DEFINE Kept == \A k \in Kinds : table' # table =>
                /\ \A q \in ToSet(set'[k].points) : \E p \in ToSet(set[k].points) :
                        Follows(p, q, table, table')
                /\ \A p \in ToSet(set[k].points) :
                    \/ \E q \in ToSet(set'[k].points) : q.id = p.id
                    \/ \E q \in ToSet(set'[k].points) : Overlaps(q.range, Place(table, table', p))
<1>1. Spec => []SPInv
  BY StopPointsStart, StopPointsStep, PTL DEF Spec
<1>2. ASSUME SPInv, [Next]_vars PROVE [Kept]_vars
  <2>1. ASSUME NEW f \in Symbols, Initialize(Table(f)) PROVE Kept
    <3>1. ASSUME NEW k \in Kinds
          PROVE  /\ \A q \in ToSet(set'[k].points) : \E p \in ToSet(set[k].points) :
                        Follows(p, q, table, table')
                 /\ \A p \in ToSet(set[k].points) :
                     \/ \E q \in ToSet(set'[k].points) : q.id = p.id
                     \/ \E q \in ToSet(set'[k].points) : Overlaps(q.range, Place(table, table', p))
      <4>1. table' \in Tables /\ table \in Tables
        BY <1>2, <2>1, TablesOfSymbols DEF Initialize, SPInv, SetsInv
      <4>2. CASE table'.asid = table.asid
        <5>1. set'[k] = Relocated(set[k], table, table')
          BY <2>1, <4>2 DEF Initialize
        <5>2. GoodSet(set[k])
          BY <1>2, OneSet
        <5> QED
          BY <4>1, <4>2, <5>1, <5>2, RelocatedFollow
      <4>3. CASE table'.asid # table.asid
        <5>1. set'[k] = set[k]
          BY <2>1, <4>3 DEF Initialize
        <5>2. \A p : Follows(p, p, table, table')
          BY <4>3 DEF Follows, CanFollow
        <5> QED
          BY <5>1, <5>2
      <4> QED
        BY <4>2, <4>3
    <3> QED
      BY <3>1
  <2>2. ASSUME table' = table PROVE Kept
    BY <2>2
  <2>3. ASSUME NEW k \in Kinds, NEW r \in Ranges, Add(k, r) PROVE table' = table
    BY <2>3 DEF Add
  <2>4. ASSUME NEW k \in Kinds, NEW i, RemovePoint(k, i) \/ SetEnabled(k, i)
        PROVE  table' = table
    BY <2>4 DEF RemovePoint, SetEnabled
  <2>5. ASSUME NEW i, SetAccessMode(i, {"READ"}) \/ RefreshView(i) PROVE table' = table
    BY <2>5 DEF SetAccessMode, RefreshView
  <2>6. ASSUME NEW cpu \in Cpus, NEW asid \in Asids, NEW a \in Addr, NEW mode \in Modes,
               NEW m \in BOOLEAN, Access(cpu, asid, a, mode, m)
        PROVE  table' = table
    BY <2>6 DEF Access
  <2>7. CASE Stop \/ Run \/ Halt \/ Clear
    BY <2>2, <2>7 DEF Stop, Run, Halt, Clear
  <2>8. CASE UNCHANGED vars
    BY <2>8
  <2> HIDE DEF Kept
  <2> QED
    BY <1>2, <2>1, <2>2, <2>3, <2>4, <2>5, <2>6, <2>7, <2>8 DEF Next, Edits
<1>3. RelocationKeeps <=> [][Kept]_vars
  BY PTL DEF RelocationKeeps
<1> QED
  BY <1>1, <1>2, <1>3, PTL DEF Spec
=============================================================================
