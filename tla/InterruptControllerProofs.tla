----------------------- MODULE InterruptControllerProofs -----------------------
(***************************************************************************)
(* Proofs about InterruptController, for every number of cores, lines and  *)
(* devices, and for any routing table the guest writes.                    *)
(***************************************************************************)
EXTENDS MCInterruptController, TLAPS

(* Facts about the constants that most steps need. *)
LEMMA ConstantFacts ==
    /\ NCpus \in Nat /\ NCpus > 0 /\ 0 \in Cpus
    /\ NoCpu \notin Cpus
    /\ Timer \in Sources /\ Timer \notin Shared
    /\ \A s \in Sources : IrqLine(s) \in Nat /\ MaskBit(s) \in Nat
    /\ \A s \in Shared : /\ s \in Sources /\ s # Timer
                         /\ s[1] \in Lines /\ s[2] \in Devs
    /\ \A s \in Sources : s = Timer \/ s \in Shared
    /\ \A l \in Lines : l \in 1..5
<1>1. /\ NCpus \in Nat /\ NCpus > 0 /\ 0 \in Cpus
      /\ NoCpu \notin Cpus
      /\ \A l \in Lines : l \in 1..5
  <2>1. NCpus \in 1..16
    BY ConstantsAssumption DEF ConstantsAssumption, MAX_CPUS
  <2>2. \A l \in Lines : l \in 1..5
    BY ConstantsAssumption DEF ConstantsAssumption
  <2> QED
    BY <2>1, <2>2 DEF Cpus, NoCpu
<1>2. \A s \in Shared : s[1] \in Lines /\ s[2] \in Devs /\ s \in Sources
  BY DEF Shared, Sources
<1>3. Timer \in Sources /\ Timer[1] = 0 /\ \A s \in Sources : s = Timer \/ s \in Shared
  BY DEF Sources, Timer
<1>4. \A s \in Shared : s # Timer
  BY <1>1, <1>2, <1>3
<1>5. \A s \in Sources : s[1] \in Nat
  BY <1>1, <1>2, <1>3
<1>6. \A s \in Sources : IrqLine(s) \in Nat /\ MaskBit(s) \in Nat
  BY <1>5 DEF IrqLine, MaskBit, kBaseIL, IL_TIMER
<1> QED
  BY <1>1, <1>2, <1>3, <1>4, <1>6

LEMMA NextArbiterIsCpu ==
    ASSUME NEW c \in Cpus
    PROVE  NextArbiter(c) \in Cpus
  BY ConstantFacts DEF NextArbiter, Cpus

(* Initially, every variable has its type. *)
LEMMA InitTypeOK == Init => TypeOK
  BY ConstantFacts
     DEF Init, TypeOK, DefaultRoute, CPUCTL_TPR_PRIORITY_MASK

(* Every step of the controller keeps the types. *)
LEMMA StepTypeOK == TypeOK /\ [Next]_vars => TypeOK'
<1> SUFFICES ASSUME TypeOK, [Next]_vars PROVE TypeOK'
  OBVIOUS
<1>1. ASSUME NEW s \in Sources, StartIRQ(s) PROVE TypeOK'
  <2>1. PICK target \in Cpus \cup {NoCpu} :
           /\ arbiter' = IF route[s].policy = "DYNAMIC" /\ target # NoCpu
                         THEN NextArbiter(target)
                         ELSE arbiter
           /\ IF target = NoCpu
              THEN UNCHANGED <<lastTarget, cpuVars>>
              ELSE Deliver(s, target)
           /\ UNCHANGED <<route, ipiVars, guestVars>>
    BY <1>1, Zenon DEF StartIRQ
  <2>2. arbiter' \in Cpus
    BY <2>1, NextArbiterIsCpu DEF TypeOK
  <2>3. IrqLine(s) \in Nat /\ MaskBit(s) \in Nat
    BY ConstantFacts
  <2>4. /\ ipMask' \in [Cpus -> SUBSET Nat]
        /\ mip' \in [Cpus -> SUBSET Nat]
    <3>1. ipMask \in [Cpus -> SUBSET Nat] /\ mip \in [Cpus -> SUBSET Nat]
      BY DEF TypeOK
    <3>2. CASE target = NoCpu
      BY <2>1, <3>1, <3>2 DEF cpuVars
    <3>3. CASE target # NoCpu
      <4>1. /\ target \in Cpus
            /\ ipMask' = [ipMask EXCEPT ![target] = ipMask[target] \cup {MaskBit(s)}]
            /\ mip' = [mip EXCEPT ![target] = mip[target] \cup {IrqLine(s)}]
        BY <2>1, <3>3 DEF Deliver
      <4>2. /\ ipMask[target] \cup {MaskBit(s)} \in SUBSET Nat
            /\ mip[target] \cup {IrqLine(s)} \in SUBSET Nat
        BY <2>3, <3>1, <4>1
      <4> QED
        BY <3>1, <4>1, <4>2
    <3> QED
      BY <3>2, <3>3
  <2>5. lastTarget' \in [Sources -> Cpus \cup {NoCpu}]
    BY <2>1, ZenonT(40) DEF TypeOK, Deliver
  <2>6. idb' \in [Cpus -> [Lines -> SUBSET Devs]]
    <3>1. CASE target # NoCpu /\ s \in Shared
      <4>1. s[1] \in Lines /\ s[2] \in Devs
        BY <3>1, ConstantFacts
      <4>2. idb \in [Cpus -> [Lines -> SUBSET Devs]]
        BY DEF TypeOK
      <4> QED
        BY <2>1, <3>1, <4>1, <4>2 DEF Deliver
    <3>2. CASE ~(target # NoCpu /\ s \in Shared)
      BY <2>1, <3>2 DEF TypeOK, cpuVars, Deliver
    <3> QED
      BY <3>1, <3>2
  <2> QED
    BY <2>1, <2>2, <2>4, <2>5, <2>6 DEF TypeOK, ipiVars, guestVars
<1>2. ASSUME NEW s \in Sources, EndIRQ(s) PROVE TypeOK'
  <2> DEFINE c == AckTarget(s)
  <2>1. c \in Cpus
    BY <1>2, ConstantFacts DEF EndIRQ, TypeOK, AckTarget
  <2>2. lastTarget' \in [Sources -> Cpus \cup {NoCpu}]
    BY <1>2 DEF EndIRQ, TypeOK, ForgetTarget
  <2>3. /\ ipMask' \in [Cpus -> SUBSET Nat]
        /\ mip' \in [Cpus -> SUBSET Nat]
    <3>1. \/ UNCHANGED <<ipMask, mip>>
          \/ /\ ipMask' = [ipMask EXCEPT ![c] = @ \ {IrqLine(s)}]
             /\ mip' = [mip EXCEPT ![c] = @ \ {IrqLine(s)}]
      BY <1>2 DEF EndIRQ, LineDown
    <3> QED
      BY <2>1, <3>1 DEF TypeOK
  <2>4. idb' \in [Cpus -> [Lines -> SUBSET Devs]]
    <3>1. CASE s \in Shared
      <4>1. s[1] \in Lines
        BY <3>1, ConstantFacts
      <4>2. idb' = [idb EXCEPT ![c][s[1]] = @ \ {s[2]}]
        BY <1>2, <3>1 DEF EndIRQ
      <4> QED
        BY <2>1, <4>1, <4>2 DEF TypeOK
    <3>2. CASE s \notin Shared
      BY <1>2, <3>2 DEF TypeOK, EndIRQ
    <3> QED
      BY <3>1, <3>2
  <2> QED
    BY <1>2, <2>2, <2>3, <2>4 DEF EndIRQ, TypeOK, ipiVars, guestVars
<1>3. ASSUME NEW s \in Sources, NEW r \in Routes, WriteIRT(s, r) PROVE TypeOK'
  BY <1>3 DEF WriteIRT, TypeOK, cpuVars, ipiVars, guestVars
<1>4. ASSUME NEW c \in Cpus, NEW p \in Priorities, WriteTaskPriority(c, p)
      PROVE  TypeOK'
  BY <1>4, ConstantsAssumption
     DEF WriteTaskPriority, TypeOK, sourceVars, cpuVars, ipiVars
<1>5. ASSUME NEW c \in Cpus, NEW i \in {0, 1}, NEW w \in Words,
             WriteBiosReserved(c, i, w)
      PROVE  TypeOK'
  BY <1>5 DEF WriteBiosReserved, TypeOK, sourceVars, cpuVars, ipiVars
<1>6. ASSUME NEW c \in Cpus, NEW rs \in SUBSET Cpus, NEW m \in Msgs,
             WriteOutbox(c, rs, m)
      PROVE  TypeOK'
  <2>1. [recipients |-> rs, msg |-> m] \in Outgoing
    BY DEF Outgoing
  <2>2. outbox' \in [Cpus -> Seq(Outgoing)]
    BY <1>6, <2>1 DEF WriteOutbox, TypeOK
  <2> QED
    BY <1>6, <2>2 DEF WriteOutbox, TypeOK, sourceVars, cpuVars, guestVars
<1>7. ASSUME NEW c \in Cpus, WriteInbox(c) PROVE TypeOK'
  <2>1. inbox' \in [Cpus -> Seq(IpiMessage)]
    BY <1>7 DEF WriteInbox, TypeOK
  <2>2. /\ ipMask' \in [Cpus -> SUBSET Nat]
        /\ mip' \in [Cpus -> SUBSET Nat]
    <3>1. \/ UNCHANGED <<ipMask, mip>>
          \/ /\ ipMask' = [ipMask EXCEPT ![c] = @ \ {IL_IPI}]
             /\ mip' = [mip EXCEPT ![c] = @ \ {IL_IPI}]
      BY <1>7 DEF WriteInbox, LineDown
    <3> QED
      BY <3>1 DEF TypeOK
  <2> QED
    BY <1>7, <2>1, <2>2 DEF WriteInbox, TypeOK, sourceVars, guestVars
<1>8. ASSUME NEW c \in Cpus, DeliverIPI(c) PROVE TypeOK'
  <2> DEFINE out == Head(outbox[c])
             takers == {d \in out.recipients : HasSlot(d, c)}
             raised(d) == IF d \in takers THEN {IL_IPI} ELSE {}
  <2>1. out \in Outgoing /\ Tail(outbox[c]) \in Seq(Outgoing)
    BY <1>8 DEF DeliverIPI, TypeOK
  <2>2. [origin |-> c, msg |-> out.msg] \in IpiMessage
    BY <2>1 DEF Outgoing, IpiMessage
  <2>3. /\ inbox' = [d \in Cpus |->
                       IF d \in takers
                       THEN PushBack(d, [origin |-> c, msg |-> out.msg])
                       ELSE inbox[d]]
        /\ ipMask' = [d \in Cpus |-> ipMask[d] \cup raised(d)]
        /\ mip' = [d \in Cpus |-> mip[d] \cup raised(d)]
    BY <1>8, Zenon DEF DeliverIPI
  <2>4. inbox' \in [Cpus -> Seq(IpiMessage)]
    <3> HIDE DEF out, takers
    <3>1. \A d \in Cpus : PushBack(d, [origin |-> c, msg |-> out.msg]) \in Seq(IpiMessage)
      BY <2>2 DEF TypeOK, PushBack
    <3> QED
      BY <2>3, <3>1 DEF TypeOK
  <2>5. ipMask' \in [Cpus -> SUBSET Nat] /\ mip' \in [Cpus -> SUBSET Nat]
    <3> HIDE DEF takers
    <3>1. \A d \in Cpus : raised(d) \in SUBSET Nat
      BY DEF IL_IPI
    <3> HIDE DEF raised
    <3>2. \A d \in Cpus : /\ ipMask[d] \cup raised(d) \in SUBSET Nat
                          /\ mip[d] \cup raised(d) \in SUBSET Nat
      BY <3>1 DEF TypeOK
    <3> QED
      BY <2>3, <3>2
  <2> QED
    BY <1>8, <2>1, <2>4, <2>5 DEF DeliverIPI, TypeOK, sourceVars, guestVars
<1>9. CASE UNCHANGED vars
  BY <1>9 DEF vars, sourceVars, cpuVars, ipiVars, guestVars, TypeOK
<1> QED
  BY <1>1, <1>2, <1>3, <1>4, <1>5, <1>6, <1>7, <1>8, <1>9
     DEF Next, OtherThanRequests

(* Every variable of the controller keeps its type, whatever the devices, the
   timer and the guest do and in whatever order. *)
THEOREM TypeCorrect == Spec => []TypeOK
  BY InitTypeOK, StepTypeOK, PTL DEF Spec

-----------------------------------------------------------------------------
(* The facts about one step of the controller that the invariants use.  A
   request of s is either lost or delivered to one core. *)
LEMMA StartIRQCases ==
    ASSUME NEW s \in Sources, StartIRQ(s)
    PROVE  /\ UNCHANGED ipiVars
           /\ \/ UNCHANGED <<lastTarget, cpuVars>>
              \/ \E t \in Cpus : Deliver(s, t)
  BY Zenon DEF StartIRQ

(* An acknowledgement changes the one core the request was delivered to, and
   the source forgets that core. *)
LEMMA EndIRQCases ==
    ASSUME TypeOK, NEW s \in Sources, EndIRQ(s)
    PROVE  \E c \in Cpus :
             /\ c = lastTarget[s]
             /\ UNCHANGED ipiVars
             /\ lastTarget' = [lastTarget EXCEPT ![s] = NoCpu]
             /\ idb' = IF s \in Shared
                       THEN [idb EXCEPT ![c][s[1]] = @ \ {s[2]}]
                       ELSE idb
             /\ IF LineQuiet(c, s)
                THEN LineDown(c, IrqLine(s))
                ELSE UNCHANGED <<ipMask, mip>>
<1>1. lastTarget[s] \in Cpus
  BY ConstantFacts DEF EndIRQ, TypeOK, AckTarget
<1> QED
  BY <1>1 DEF EndIRQ, AckTarget, ForgetTarget

(* The numbers of the lines of two sources do not clash. *)
LEMMA LineNumbers ==
    /\ \A s \in Shared : /\ IrqLine(s) = kBaseIL + s[1]
                         /\ MaskBit(s) = kBaseIL + s[1]
                         /\ IrqLine(s) # IL_IPI
                         /\ IrqLine(s) # IL_TIMER
    /\ IrqLine(Timer) = IL_TIMER /\ IL_TIMER # IL_IPI
    /\ \A l \in Lines : /\ kBaseIL + l # IrqLine(Timer)
                        /\ kBaseIL + l # MaskBit(Timer)
                        /\ kBaseIL + l # IL_IPI
    /\ \A k, l \in Lines : kBaseIL + k = kBaseIL + l <=> k = l
<1>1. Timer[1] = 0
  BY DEF Timer
<1> QED
  BY <1>1, ConstantFacts DEF IrqLine, MaskBit, kBaseIL, IL_TIMER, IL_IPI

(* Delivering or taking back a request keeps the lines and the bitmaps in
   agreement. *)
LEMMA LinesStep ==
    TypeOK /\ LinesMatchBitmaps /\ [Next]_vars => LinesMatchBitmaps'
<1> SUFFICES ASSUME TypeOK, LinesMatchBitmaps, [Next]_vars,
                    NEW d \in Cpus, NEW l \in Lines
             PROVE  /\ kBaseIL + l \in mip'[d] <=> idb'[d][l] # {}
                    /\ kBaseIL + l \in ipMask'[d] <=> idb'[d][l] # {}
  BY DEF LinesMatchBitmaps
<1> DEFINE Agree == /\ kBaseIL + l \in mip'[d] <=> idb'[d][l] # {}
                    /\ kBaseIL + l \in ipMask'[d] <=> idb'[d][l] # {}
<1>0. /\ kBaseIL + l \in mip[d] <=> idb[d][l] # {}
      /\ kBaseIL + l \in ipMask[d] <=> idb[d][l] # {}
  BY DEF LinesMatchBitmaps
<1>types. /\ idb \in [Cpus -> [Lines -> SUBSET Devs]]
          /\ mip \in [Cpus -> SUBSET Nat]
          /\ ipMask \in [Cpus -> SUBSET Nat]
  BY DEF TypeOK
<1>same. ASSUME UNCHANGED cpuVars PROVE Agree
  BY <1>0, <1>same DEF cpuVars
<1>1. ASSUME NEW s \in Sources, StartIRQ(s) PROVE Agree
  <2>1. CASE UNCHANGED <<lastTarget, cpuVars>>
    BY <2>1, <1>same
  <2>2. ASSUME NEW t \in Cpus, Deliver(s, t) PROVE Agree
    <3>1. CASE s \in Shared
      <4>1. /\ mip' = [mip EXCEPT ![t] = mip[t] \cup {kBaseIL + s[1]}]
            /\ ipMask' = [ipMask EXCEPT ![t] = ipMask[t] \cup {kBaseIL + s[1]}]
            /\ idb' = [idb EXCEPT ![t][s[1]] = idb[t][s[1]] \cup {s[2]}]
            /\ s[1] \in Lines
        BY <2>2, <3>1, LineNumbers, ConstantFacts DEF Deliver
      <4>2. kBaseIL + l = kBaseIL + s[1] <=> l = s[1]
        BY <4>1, LineNumbers
      <4>3. CASE d = t /\ l = s[1]
        BY <4>1, <4>3, <1>types
      <4>4. CASE d = t /\ l # s[1]
        BY <4>1, <4>2, <4>4, <1>types, <1>0
      <4>5. CASE d # t
        BY <4>1, <4>5, <1>types, <1>0
      <4> QED
        BY <4>3, <4>4, <4>5
    <3>2. CASE s = Timer
      <4>1. /\ mip' = [mip EXCEPT ![t] = mip[t] \cup {IrqLine(Timer)}]
            /\ ipMask' = [ipMask EXCEPT ![t] = ipMask[t] \cup {MaskBit(Timer)}]
            /\ idb' = idb
        BY <2>2, <3>2, ConstantFacts DEF Deliver
      <4> QED
        BY <4>1, <1>types, <1>0, LineNumbers
    <3> QED
      BY <3>1, <3>2, ConstantFacts
  <2> QED
    BY <1>1, <2>1, <2>2, StartIRQCases
<1>2. ASSUME NEW s \in Sources, EndIRQ(s) PROVE Agree
  <2>1. PICK c \in Cpus :
          /\ idb' = IF s \in Shared
                    THEN [idb EXCEPT ![c][s[1]] = @ \ {s[2]}]
                    ELSE idb
          /\ IF LineQuiet(c, s)
             THEN LineDown(c, IrqLine(s))
             ELSE UNCHANGED <<ipMask, mip>>
    BY <1>2, EndIRQCases
  <2>2. CASE s = Timer
    <3>1. /\ mip' = [mip EXCEPT ![c] = mip[c] \ {IrqLine(Timer)}]
          /\ ipMask' = [ipMask EXCEPT ![c] = ipMask[c] \ {IrqLine(Timer)}]
          /\ idb' = idb
      BY <2>1, <2>2, ConstantFacts DEF LineQuiet, LineDown
    <3> QED
      BY <3>1, <1>types, <1>0, LineNumbers
  <2>3. CASE s \in Shared
    <3>1. /\ idb' = [idb EXCEPT ![c][s[1]] = idb[c][s[1]] \ {s[2]}]
          /\ s[1] \in Lines
          /\ LineQuiet(c, s) <=> idb[c][s[1]] \ {s[2]} = {}
          /\ IrqLine(s) = kBaseIL + s[1]
      BY <2>1, <2>3, ConstantFacts, LineNumbers DEF LineQuiet
    <3>2. kBaseIL + l = kBaseIL + s[1] <=> l = s[1]
      BY <3>1, LineNumbers
    <3>3. CASE LineQuiet(c, s)
      <4>1. /\ mip' = [mip EXCEPT ![c] = mip[c] \ {kBaseIL + s[1]}]
            /\ ipMask' = [ipMask EXCEPT ![c] = ipMask[c] \ {kBaseIL + s[1]}]
        BY <2>1, <3>1, <3>3 DEF LineDown
      <4>2. CASE d = c /\ l = s[1]
        BY <4>1, <4>2, <3>1, <3>3, <1>types
      <4>3. CASE ~(d = c /\ l = s[1])
        BY <4>1, <4>3, <3>1, <3>2, <1>types, <1>0
      <4> QED
        BY <4>2, <4>3
    <3>4. CASE ~LineQuiet(c, s)
      <4>1. mip' = mip /\ ipMask' = ipMask
        BY <2>1, <3>4
      <4>2. CASE d = c /\ l = s[1]
        BY <4>1, <4>2, <3>1, <3>4, <1>types, <1>0
      <4>3. CASE ~(d = c /\ l = s[1])
        BY <4>1, <4>3, <3>1, <1>types, <1>0
      <4> QED
        BY <4>2, <4>3
    <3> QED
      BY <3>3, <3>4
  <2> QED
    BY <2>2, <2>3, ConstantFacts
<1>3. ASSUME NEW c \in Cpus, WriteInbox(c) PROVE Agree
  <2>1. idb' = idb
    BY <1>3 DEF WriteInbox
  <2>2. \/ UNCHANGED <<ipMask, mip>>
        \/ /\ ipMask' = [ipMask EXCEPT ![c] = ipMask[c] \ {IL_IPI}]
           /\ mip' = [mip EXCEPT ![c] = mip[c] \ {IL_IPI}]
    BY <1>3 DEF WriteInbox, LineDown
  <2>3. /\ kBaseIL + l \in mip'[d] <=> kBaseIL + l \in mip[d]
        /\ kBaseIL + l \in ipMask'[d] <=> kBaseIL + l \in ipMask[d]
    BY <2>2, <1>types, LineNumbers
  <2> QED
    BY <2>1, <2>3, <1>0
<1>4. ASSUME NEW c \in Cpus, DeliverIPI(c) PROVE Agree
  <2>1. /\ idb' = idb
        /\ \E m, i : /\ m = mip'[d] /\ i = ipMask'[d]
                     /\ m \in {mip[d], mip[d] \cup {IL_IPI}}
                     /\ i \in {ipMask[d], ipMask[d] \cup {IL_IPI}}
    BY <1>4 DEF DeliverIPI
  <2> QED
    BY <2>1, <1>0, LineNumbers
<1>5. ASSUME NEW s \in Sources, NEW r \in Routes, WriteIRT(s, r) PROVE Agree
  BY <1>5, <1>same DEF WriteIRT
<1>6. ASSUME NEW c \in Cpus, NEW p \in Priorities, WriteTaskPriority(c, p) PROVE Agree
  BY <1>6, <1>same DEF WriteTaskPriority
<1>7. ASSUME NEW c \in Cpus, NEW i \in {0, 1}, NEW w \in Words, WriteBiosReserved(c, i, w)
      PROVE Agree
  BY <1>7, <1>same DEF WriteBiosReserved
<1>8. ASSUME NEW c \in Cpus, NEW rs \in SUBSET Cpus, NEW m \in Msgs, WriteOutbox(c, rs, m)
      PROVE Agree
  BY <1>8, <1>same DEF WriteOutbox
<1>9. CASE UNCHANGED vars
  BY <1>9, <1>same DEF vars
<1> QED
  BY <1>1, <1>2, <1>3, <1>4, <1>5, <1>6, <1>7, <1>8, <1>9
     DEF Next, OtherThanRequests

(* On every machine, a shared line is pending at a core exactly when the
   bitmap of that core names an interrupting device: StartIRQ and EndIRQ
   never let the two drift apart. *)
THEOREM LinesAlwaysMatchBitmaps == Spec => []LinesMatchBitmaps
<1>1. Init => LinesMatchBitmaps
  BY DEF Init, LinesMatchBitmaps
<1> QED
  BY <1>1, LinesStep, TypeCorrect, PTL DEF Spec

-----------------------------------------------------------------------------
(* Two sources that share a line and a device number are the same source. *)
LEMMA SourceIdentity ==
    \A s, u \in Shared : s[1] = u[1] /\ s[2] = u[2] => s = u
  BY DEF Shared

(* A source that raises while nothing of it is unacknowledged leaves its
   request where the acknowledgement goes. *)
LEMMA RequestStep ==
    ASSUME TypeOK, NoRequestLeftBehind,
           NEW s \in Sources, StartIRQ(s), lastTarget[s] = NoCpu
    PROVE  NoRequestLeftBehind'
<1> SUFFICES ASSUME NEW d \in Cpus
             PROVE  /\ \A u \in Shared : u[2] \in idb'[d][u[1]] => lastTarget'[u] = d
                    /\ IL_TIMER \in mip'[d] => lastTarget'[Timer] = d
  BY DEF NoRequestLeftBehind
<1> DEFINE Good == /\ \A u \in Shared : u[2] \in idb'[d][u[1]] => lastTarget'[u] = d
                   /\ IL_TIMER \in mip'[d] => lastTarget'[Timer] = d
<1>0. /\ \A c \in Cpus : \A u \in Shared : u[2] \in idb[c][u[1]] => lastTarget[u] = c
      /\ \A c \in Cpus : IL_TIMER \in mip[c] => lastTarget[Timer] = c
  BY DEF NoRequestLeftBehind
<1>types. /\ idb \in [Cpus -> [Lines -> SUBSET Devs]]
          /\ mip \in [Cpus -> SUBSET Nat]
          /\ lastTarget \in [Sources -> Cpus \cup {NoCpu}]
  BY DEF TypeOK
<1>same. ASSUME UNCHANGED <<lastTarget, idb, mip>> PROVE Good
  BY <1>0, <1>same
<1>1. CASE UNCHANGED <<lastTarget, cpuVars>>
  BY <1>1, <1>same DEF cpuVars
<1>2. ASSUME NEW t \in Cpus, Deliver(s, t) PROVE Good
  <2>1. lastTarget[s] = NoCpu
    OBVIOUS
  <2>2. CASE s \in Shared
    <3>1. /\ mip' = [mip EXCEPT ![t] = mip[t] \cup {kBaseIL + s[1]}]
          /\ idb' = [idb EXCEPT ![t][s[1]] = idb[t][s[1]] \cup {s[2]}]
          /\ lastTarget' = [lastTarget EXCEPT ![s] = t]
          /\ s[1] \in Lines /\ s # Timer /\ kBaseIL + s[1] # IL_TIMER
      BY <1>2, <2>2, LineNumbers, ConstantFacts DEF Deliver
    <3>2. IL_TIMER \in mip'[d] => lastTarget'[Timer] = d
      BY <3>1, <1>types, <1>0, ConstantFacts
    <3>3. ASSUME NEW u \in Shared, u[2] \in idb'[d][u[1]] PROVE lastTarget'[u] = d
      <4>1. u[1] \in Lines /\ u \in Sources
        BY ConstantFacts
      <4>2. CASE u = s
        <5>1. u[2] \notin idb[d][u[1]]
          BY <1>0, <2>1, <4>2, ConstantFacts
        <5>2. d = t
          BY <3>1, <3>3, <4>1, <5>1, <1>types
        <5> QED
          BY <3>1, <4>1, <4>2, <5>2, <1>types
      <4>3. CASE u # s
        <5>1. u[2] \in idb[d][u[1]]
          BY <3>1, <3>3, <4>1, <4>3, <2>2, SourceIdentity, <1>types
        <5> QED
          BY <3>1, <4>1, <4>3, <5>1, <1>0, <1>types
      <4> QED
        BY <4>2, <4>3
    <3> QED
      BY <3>2, <3>3
  <2>3. CASE s = Timer
    <3>1. /\ mip' = [mip EXCEPT ![t] = mip[t] \cup {IL_TIMER}]
          /\ idb' = idb
          /\ lastTarget' = [lastTarget EXCEPT ![Timer] = t]
      BY <1>2, <2>3, LineNumbers, ConstantFacts DEF Deliver
    <3>2. \A u \in Shared : lastTarget'[u] = lastTarget[u]
      BY <3>1, <1>types, ConstantFacts
    <3>3. IL_TIMER \notin mip[d]
      BY <2>1, <2>3, <1>0, ConstantFacts
    <3>4. IL_TIMER \in mip'[d] => lastTarget'[Timer] = d
      BY <3>1, <3>3, <1>types, ConstantFacts
    <3> QED
      BY <3>1, <3>2, <3>4, <1>0
  <2> QED
    BY <2>2, <2>3, ConstantFacts
<1> QED
  BY <1>1, <1>2, StartIRQCases

(* Whatever else happens, no request is left behind. *)
LEMMA OtherStep ==
    ASSUME TypeOK, NoRequestLeftBehind, [OtherThanRequests]_vars
    PROVE  NoRequestLeftBehind'
<1> SUFFICES ASSUME NEW d \in Cpus
             PROVE  /\ \A u \in Shared : u[2] \in idb'[d][u[1]] => lastTarget'[u] = d
                    /\ IL_TIMER \in mip'[d] => lastTarget'[Timer] = d
  BY DEF NoRequestLeftBehind
<1> DEFINE Good == /\ \A u \in Shared : u[2] \in idb'[d][u[1]] => lastTarget'[u] = d
                   /\ IL_TIMER \in mip'[d] => lastTarget'[Timer] = d
<1>0. /\ \A c \in Cpus : \A u \in Shared : u[2] \in idb[c][u[1]] => lastTarget[u] = c
      /\ \A c \in Cpus : IL_TIMER \in mip[c] => lastTarget[Timer] = c
  BY DEF NoRequestLeftBehind
<1>types. /\ idb \in [Cpus -> [Lines -> SUBSET Devs]]
          /\ mip \in [Cpus -> SUBSET Nat]
          /\ lastTarget \in [Sources -> Cpus \cup {NoCpu}]
  BY DEF TypeOK
<1>same. ASSUME UNCHANGED <<lastTarget, idb, mip>> PROVE Good
  BY <1>0, <1>same
<1>1. ASSUME NEW s \in Sources, EndIRQ(s) PROVE Good
  <2>1. PICK c \in Cpus :
          /\ c = lastTarget[s]
          /\ lastTarget' = [lastTarget EXCEPT ![s] = NoCpu]
          /\ idb' = IF s \in Shared
                    THEN [idb EXCEPT ![c][s[1]] = @ \ {s[2]}]
                    ELSE idb
          /\ IF LineQuiet(c, s)
             THEN LineDown(c, IrqLine(s))
             ELSE UNCHANGED <<ipMask, mip>>
    BY <1>1, EndIRQCases
  <2>2. CASE s = Timer
    <3>1. /\ mip' = [mip EXCEPT ![c] = mip[c] \ {IL_TIMER}]
          /\ idb' = idb
          /\ lastTarget' = [lastTarget EXCEPT ![Timer] = NoCpu]
      BY <2>1, <2>2, LineNumbers, ConstantFacts DEF LineQuiet, LineDown
    <3>2. \A u \in Shared : lastTarget'[u] = lastTarget[u]
      BY <3>1, <1>types, ConstantFacts
    <3>3. IL_TIMER \notin mip'[d]
      BY <3>1, <2>1, <2>2, <1>0, <1>types
    <3> QED
      BY <3>1, <3>2, <3>3, <1>0
  <2>3. CASE s \in Shared
    <3>1. /\ idb' = [idb EXCEPT ![c][s[1]] = idb[c][s[1]] \ {s[2]}]
          /\ lastTarget' = [lastTarget EXCEPT ![s] = NoCpu]
          /\ s[1] \in Lines /\ s # Timer
          /\ IrqLine(s) = kBaseIL + s[1] /\ kBaseIL + s[1] # IL_TIMER
      BY <2>1, <2>3, ConstantFacts, LineNumbers
    <3>2. \/ mip' = mip
          \/ mip' = [mip EXCEPT ![c] = mip[c] \ {IrqLine(s)}]
      BY <2>1 DEF LineDown
    <3>3. IL_TIMER \in mip'[d] => lastTarget'[Timer] = d
      BY <3>1, <3>2, <1>types, <1>0, ConstantFacts
    <3>4. ASSUME NEW u \in Shared, u[2] \in idb'[d][u[1]] PROVE lastTarget'[u] = d
      <4>1. u[1] \in Lines /\ u \in Sources
        BY ConstantFacts
      <4>2. u[2] \in idb[d][u[1]]
        BY <3>1, <3>4, <4>1, <1>types
      <4>3. lastTarget[u] = d
        BY <4>2, <1>0
      <4>4. u # s
        BY <2>1, <3>1, <3>4, <4>1, <4>3, <1>types
      <4> QED
        BY <3>1, <4>1, <4>3, <4>4, <1>types
    <3> QED
      BY <3>3, <3>4
  <2> QED
    BY <2>2, <2>3, ConstantFacts
<1>2. ASSUME NEW c \in Cpus, WriteInbox(c) PROVE Good
  <2>1. UNCHANGED <<idb, lastTarget>>
    BY <1>2 DEF WriteInbox, sourceVars
  <2>2. mip' = mip \/ mip' = [mip EXCEPT ![c] = mip[c] \ {IL_IPI}]
    BY <1>2 DEF WriteInbox, LineDown
  <2>3. IL_TIMER \in mip'[d] => IL_TIMER \in mip[d]
    BY <2>2, <1>types
  <2> QED
    BY <2>1, <2>3, <1>0
<1>3. ASSUME NEW c \in Cpus, DeliverIPI(c) PROVE Good
  <2>1. UNCHANGED <<idb, lastTarget>>
    BY <1>3 DEF DeliverIPI, sourceVars
  <2>2. mip'[d] = mip[d] \/ mip'[d] = mip[d] \cup {IL_IPI}
    BY <1>3 DEF DeliverIPI
  <2>3. IL_TIMER \in mip'[d] => IL_TIMER \in mip[d]
    BY <2>2, LineNumbers
  <2> QED
    BY <2>1, <2>3, <1>0
<1>4. ASSUME NEW s \in Sources, NEW r \in Routes, WriteIRT(s, r) PROVE Good
  BY <1>4, <1>same DEF WriteIRT, cpuVars
<1>5. ASSUME NEW c \in Cpus, NEW p \in Priorities, WriteTaskPriority(c, p) PROVE Good
  BY <1>5, <1>same DEF WriteTaskPriority, cpuVars, sourceVars
<1>6. ASSUME NEW c \in Cpus, NEW i \in {0, 1}, NEW w \in Words, WriteBiosReserved(c, i, w)
      PROVE Good
  BY <1>6, <1>same DEF WriteBiosReserved, cpuVars, sourceVars
<1>7. ASSUME NEW c \in Cpus, NEW rs \in SUBSET Cpus, NEW m \in Msgs, WriteOutbox(c, rs, m)
      PROVE Good
  BY <1>7, <1>same DEF WriteOutbox, cpuVars, sourceVars
<1>8. CASE UNCHANGED vars
  BY <1>8, <1>same DEF vars, cpuVars, sourceVars
<1> QED
  BY <1>1, <1>2, <1>3, <1>4, <1>5, <1>6, <1>7, <1>8
     DEF OtherThanRequests

(* While no source raises a request before its last one was acknowledged,
   every pending request sits at the core its acknowledgement goes to. *)
LEMMA LeftBehindStep ==
    ASSUME ~Reraise
    PROVE  TypeOK /\ NoRequestLeftBehind /\ [Next]_vars => NoRequestLeftBehind'
<1>1. ASSUME NEW s \in Sources, StartIRQ(s) PROVE lastTarget[s] = NoCpu
  BY <1>1, Zenon DEF StartIRQ
<1> QED
  BY <1>1, RequestStep, OtherStep DEF Next

(* Where sources wait for their acknowledgement, lastTarget serves its
   purpose: no routing table, priority or arbiter the guest can set up leaves
   a request behind at a core that no acknowledgement reaches. *)
THEOREM NothingLeftBehind == ~Reraise => (Spec => []NoRequestLeftBehind)
<1> SUFFICES ASSUME ~Reraise PROVE Spec => []NoRequestLeftBehind
  OBVIOUS
<1>1. Init => NoRequestLeftBehind
  BY ConstantFacts DEF Init, NoRequestLeftBehind
<1>2. TypeOK /\ NoRequestLeftBehind /\ [Next]_vars => NoRequestLeftBehind'
  BY LeftBehindStep
<1> QED
  BY <1>1, <1>2, TypeCorrect, PTL DEF Spec

-----------------------------------------------------------------------------
(* Neither a delivery nor an acknowledgement lets a remembered core lose the
   request. *)
LEMMA AckStep == TypeOK /\ AckFindsRequest /\ [Next]_vars => AckFindsRequest'
<1> SUFFICES ASSUME TypeOK, AckFindsRequest, [Next]_vars PROVE AckFindsRequest'
  OBVIOUS
<1>0. /\ \A u \in Shared : lastTarget[u] # NoCpu => u[2] \in idb[lastTarget[u]][u[1]]
      /\ lastTarget[Timer] # NoCpu => IL_TIMER \in mip[lastTarget[Timer]]
  BY DEF AckFindsRequest
<1>types. /\ idb \in [Cpus -> [Lines -> SUBSET Devs]]
          /\ mip \in [Cpus -> SUBSET Nat]
          /\ lastTarget \in [Sources -> Cpus \cup {NoCpu}]
  BY DEF TypeOK
<1>same. ASSUME UNCHANGED <<lastTarget, idb, mip>> PROVE AckFindsRequest'
  BY <1>0, <1>same DEF AckFindsRequest
<1>1. ASSUME NEW s \in Sources, StartIRQ(s) PROVE AckFindsRequest'
  <2>1. CASE UNCHANGED <<lastTarget, cpuVars>>
    BY <2>1, <1>same DEF cpuVars
  <2>2. ASSUME NEW t \in Cpus, Deliver(s, t) PROVE AckFindsRequest'
    <3>1. CASE s \in Shared
      <4>1. /\ mip' = [mip EXCEPT ![t] = mip[t] \cup {kBaseIL + s[1]}]
            /\ idb' = [idb EXCEPT ![t][s[1]] = idb[t][s[1]] \cup {s[2]}]
            /\ lastTarget' = [lastTarget EXCEPT ![s] = t]
            /\ s[1] \in Lines /\ s # Timer
        BY <2>2, <3>1, LineNumbers, ConstantFacts DEF Deliver
      <4>2. lastTarget'[Timer] # NoCpu => IL_TIMER \in mip'[lastTarget'[Timer]]
        BY <4>1, <1>types, <1>0, ConstantFacts
      <4>3. ASSUME NEW u \in Shared, lastTarget'[u] # NoCpu
            PROVE  u[2] \in idb'[lastTarget'[u]][u[1]]
        <5>1. u[1] \in Lines /\ u \in Sources
          BY ConstantFacts
        <5>2. CASE u = s
          BY <4>1, <5>1, <5>2, <1>types
        <5>3. CASE u # s
          <6>1. lastTarget'[u] = lastTarget[u] /\ lastTarget[u] \in Cpus
            BY <4>1, <4>3, <5>1, <5>3, <1>types
          <6>2. u[2] \in idb[lastTarget[u]][u[1]]
            BY <6>1, <1>0, ConstantFacts
          <6> QED
            BY <4>1, <5>1, <6>1, <6>2, <1>types
        <5> QED
          BY <5>2, <5>3
      <4> QED
        BY <4>2, <4>3 DEF AckFindsRequest
    <3>2. CASE s = Timer
      <4>1. /\ mip' = [mip EXCEPT ![t] = mip[t] \cup {IL_TIMER}]
            /\ idb' = idb
            /\ lastTarget' = [lastTarget EXCEPT ![Timer] = t]
        BY <2>2, <3>2, LineNumbers, ConstantFacts DEF Deliver
      <4>2. \A u \in Shared : lastTarget'[u] = lastTarget[u]
        BY <4>1, <1>types, ConstantFacts
      <4>3. IL_TIMER \in mip'[lastTarget'[Timer]]
        BY <4>1, <1>types, ConstantFacts
      <4> QED
        BY <4>1, <4>2, <4>3, <1>0 DEF AckFindsRequest
    <3> QED
      BY <3>1, <3>2, ConstantFacts
  <2> QED
    BY <1>1, <2>1, <2>2, StartIRQCases
<1>2. ASSUME NEW s \in Sources, EndIRQ(s) PROVE AckFindsRequest'
  <2>1. PICK c \in Cpus :
          /\ c = lastTarget[s]
          /\ lastTarget' = [lastTarget EXCEPT ![s] = NoCpu]
          /\ idb' = IF s \in Shared
                    THEN [idb EXCEPT ![c][s[1]] = @ \ {s[2]}]
                    ELSE idb
          /\ IF LineQuiet(c, s)
             THEN LineDown(c, IrqLine(s))
             ELSE UNCHANGED <<ipMask, mip>>
    BY <1>2, EndIRQCases
  <2>2. CASE s = Timer
    <3>1. /\ idb' = idb
          /\ lastTarget'[Timer] = NoCpu
          /\ \A u \in Shared : lastTarget'[u] = lastTarget[u]
      BY <2>1, <2>2, <1>types, ConstantFacts
    <3> QED
      BY <3>1, <1>0 DEF AckFindsRequest
  <2>3. CASE s \in Shared
    <3>1. /\ idb' = [idb EXCEPT ![c][s[1]] = idb[c][s[1]] \ {s[2]}]
          /\ s[1] \in Lines /\ s # Timer
          /\ IrqLine(s) # IL_TIMER
      BY <2>1, <2>3, ConstantFacts, LineNumbers
    <3>2. \/ mip' = mip
          \/ mip' = [mip EXCEPT ![c] = mip[c] \ {IrqLine(s)}]
      BY <2>1 DEF LineDown
    <3>3. lastTarget'[Timer] # NoCpu => IL_TIMER \in mip'[lastTarget'[Timer]]
      <4>1. lastTarget'[Timer] = lastTarget[Timer]
        BY <2>1, <3>1, <1>types, ConstantFacts
      <4> QED
        BY <4>1, <3>1, <3>2, <1>types, <1>0, ConstantFacts
    <3>4. ASSUME NEW u \in Shared, lastTarget'[u] # NoCpu
          PROVE  u[2] \in idb'[lastTarget'[u]][u[1]]
      <4>1. u[1] \in Lines /\ u \in Sources
        BY ConstantFacts
      <4>2. u # s
        BY <2>1, <3>4, <4>1, <1>types
      <4>3. lastTarget'[u] = lastTarget[u] /\ lastTarget[u] \in Cpus
        BY <2>1, <3>4, <4>1, <4>2, <1>types
      <4>4. u[2] \in idb[lastTarget[u]][u[1]]
        BY <4>3, <1>0, ConstantFacts
      <4>5. ~(u[1] = s[1] /\ u[2] = s[2])
        BY <4>2, <2>3, SourceIdentity
      <4> QED
        BY <3>1, <4>1, <4>3, <4>4, <4>5, <1>types
    <3> QED
      BY <3>3, <3>4 DEF AckFindsRequest
  <2> QED
    BY <2>2, <2>3, ConstantFacts
<1>3. ASSUME NEW c \in Cpus, WriteInbox(c) PROVE AckFindsRequest'
  <2>1. UNCHANGED <<idb, lastTarget>>
    BY <1>3 DEF WriteInbox, sourceVars
  <2>2. mip' = mip \/ mip' = [mip EXCEPT ![c] = mip[c] \ {IL_IPI}]
    BY <1>3 DEF WriteInbox, LineDown
  <2>3. \A d \in Cpus : IL_TIMER \in mip[d] => IL_TIMER \in mip'[d]
    BY <2>2, <1>types, LineNumbers
  <2>4. lastTarget[Timer] \in Cpus \cup {NoCpu}
    BY <1>types, ConstantFacts
  <2> QED
    BY <2>1, <2>3, <2>4, <1>0 DEF AckFindsRequest
<1>4. ASSUME NEW c \in Cpus, DeliverIPI(c) PROVE AckFindsRequest'
  <2>1. UNCHANGED <<idb, lastTarget>>
    BY <1>4 DEF DeliverIPI, sourceVars
  <2>2. \A d \in Cpus : mip'[d] = mip[d] \/ mip'[d] = mip[d] \cup {IL_IPI}
    BY <1>4 DEF DeliverIPI
  <2>3. lastTarget[Timer] \in Cpus \cup {NoCpu}
    BY <1>types, ConstantFacts
  <2> QED
    BY <2>1, <2>2, <2>3, <1>0 DEF AckFindsRequest
<1>5. ASSUME NEW s \in Sources, NEW r \in Routes, WriteIRT(s, r) PROVE AckFindsRequest'
  BY <1>5, <1>same DEF WriteIRT, cpuVars
<1>6. ASSUME NEW c \in Cpus, NEW p \in Priorities, WriteTaskPriority(c, p)
      PROVE AckFindsRequest'
  BY <1>6, <1>same DEF WriteTaskPriority, cpuVars, sourceVars
<1>7. ASSUME NEW c \in Cpus, NEW i \in {0, 1}, NEW w \in Words, WriteBiosReserved(c, i, w)
      PROVE AckFindsRequest'
  BY <1>7, <1>same DEF WriteBiosReserved, cpuVars, sourceVars
<1>8. ASSUME NEW c \in Cpus, NEW rs \in SUBSET Cpus, NEW m \in Msgs, WriteOutbox(c, rs, m)
      PROVE AckFindsRequest'
  BY <1>8, <1>same DEF WriteOutbox, cpuVars, sourceVars
<1>9. CASE UNCHANGED vars
  BY <1>9, <1>same DEF vars, cpuVars, sourceVars
<1> QED
  BY <1>1, <1>2, <1>3, <1>4, <1>5, <1>6, <1>7, <1>8, <1>9
     DEF Next, OtherThanRequests

(* Only a message moves the inter-processor line, and only in step with the
   inbox. *)
LEMMA IpiStep == TypeOK /\ IpiLineMatchesInbox /\ [Next]_vars => IpiLineMatchesInbox'
<1> SUFFICES ASSUME TypeOK, IpiLineMatchesInbox, [Next]_vars, NEW d \in Cpus
             PROVE  IL_IPI \in mip'[d] <=> inbox'[d] # <<>>
  BY DEF IpiLineMatchesInbox
<1> DEFINE Agree == IL_IPI \in mip'[d] <=> inbox'[d] # <<>>
<1>0. IL_IPI \in mip[d] <=> inbox[d] # <<>>
  BY DEF IpiLineMatchesInbox
<1>types. /\ mip \in [Cpus -> SUBSET Nat]
          /\ inbox \in [Cpus -> Seq(IpiMessage)]
  BY DEF TypeOK
<1>same. ASSUME UNCHANGED <<inbox, mip>> PROVE Agree
  BY <1>0, <1>same
<1>lines. \A s \in Sources : IrqLine(s) # IL_IPI
  BY LineNumbers, ConstantFacts
<1>1. ASSUME NEW s \in Sources, StartIRQ(s) PROVE Agree
  <2>1. UNCHANGED inbox
    BY <1>1, StartIRQCases DEF ipiVars
  <2>2. CASE UNCHANGED cpuVars
    BY <2>1, <2>2, <1>same DEF cpuVars
  <2>3. ASSUME NEW t \in Cpus, Deliver(s, t) PROVE Agree
    <3>1. mip' = [mip EXCEPT ![t] = mip[t] \cup {IrqLine(s)}]
      BY <2>3 DEF Deliver
    <3>2. IL_IPI \in mip'[d] <=> IL_IPI \in mip[d]
      BY <3>1, <1>lines, <1>types
    <3> QED
      BY <2>1, <3>2, <1>0
  <2> QED
    BY <1>1, <2>2, <2>3, StartIRQCases
<1>2. ASSUME NEW s \in Sources, EndIRQ(s) PROVE Agree
  <2>1. PICK c \in Cpus :
          /\ UNCHANGED ipiVars
          /\ IF LineQuiet(c, s)
             THEN LineDown(c, IrqLine(s))
             ELSE UNCHANGED <<ipMask, mip>>
    BY <1>2, EndIRQCases
  <2>2. mip' = mip \/ mip' = [mip EXCEPT ![c] = mip[c] \ {IrqLine(s)}]
    BY <2>1 DEF LineDown
  <2>3. IL_IPI \in mip'[d] <=> IL_IPI \in mip[d]
    BY <2>2, <1>lines, <1>types
  <2> QED
    BY <2>1, <2>3, <1>0 DEF ipiVars
<1>3. ASSUME NEW c \in Cpus, WriteInbox(c) PROVE Agree
  <2>1. /\ inbox[c] # <<>> /\ inbox[c] \in Seq(IpiMessage)
        /\ inbox' = [inbox EXCEPT ![c] = Tail(inbox[c])]
    BY <1>3, <1>types DEF WriteInbox
  <2>2. Tail(inbox[c]) = <<>> <=> Len(inbox[c]) = 1
    <3>1. \A q \in Seq(IpiMessage) : q = <<>> <=> Len(q) = 0
      OBVIOUS
    <3>2. /\ Len(inbox[c]) \in Nat /\ Len(inbox[c]) # 0
          /\ Tail(inbox[c]) \in Seq(IpiMessage)
          /\ Len(Tail(inbox[c])) = Len(inbox[c]) - 1
      BY <2>1, <3>1
    <3> DEFINE rest == Tail(inbox[c])
               n    == Len(inbox[c])
    <3>3. rest = <<>> <=> Len(rest) = 0
      BY <3>1, <3>2
    <3>4. n \in Nat /\ Len(rest) = n - 1
      BY <3>2
    <3> HIDE DEF rest, n
    <3>5. rest = <<>> <=> n = 1
      BY <3>3, <3>4
    <3> QED
      BY <3>5 DEF rest, n
  <2>3. CASE LastMessage(c)
    <3>1. mip' = [mip EXCEPT ![c] = mip[c] \ {IL_IPI}]
      BY <1>3, <2>3 DEF WriteInbox, LineDown
    <3>2. Tail(inbox[c]) = <<>>
      BY <2>2, <2>3 DEF LastMessage
    <3>3. CASE d = c
      BY <2>1, <3>1, <3>2, <3>3, <1>types
    <3>4. CASE d # c
      BY <2>1, <3>1, <3>4, <1>types, <1>0
    <3> QED
      BY <3>3, <3>4
  <2>4. CASE ~LastMessage(c)
    <3>1. mip' = mip
      BY <1>3, <2>4 DEF WriteInbox
    <3>2. Tail(inbox[c]) # <<>>
      BY <2>2, <2>4 DEF LastMessage
    <3>3. CASE d = c
      BY <2>1, <3>1, <3>2, <3>3, <1>types, <1>0
    <3>4. CASE d # c
      BY <2>1, <3>1, <3>4, <1>types, <1>0
    <3> QED
      BY <3>3, <3>4
  <2> QED
    BY <2>3, <2>4
<1>4. ASSUME NEW c \in Cpus, DeliverIPI(c) PROVE Agree
  <2> DEFINE takers == {e \in Head(outbox[c]).recipients : HasSlot(e, c)}
             m == [origin |-> c, msg |-> Head(outbox[c]).msg]
  <2>1. /\ inbox'[d] = IF d \in takers THEN PushBack(d, m) ELSE inbox[d]
        /\ mip'[d] = mip[d] \cup (IF d \in takers THEN {IL_IPI} ELSE {})
    BY <1>4 DEF DeliverIPI
  <2> HIDE DEF takers, m
  <2>2. CASE d \in takers
    <3>1. PushBack(d, m) # <<>>
      BY <1>types DEF PushBack
    <3> QED
      BY <2>1, <2>2, <3>1
  <2>3. CASE d \notin takers
    BY <2>1, <2>3, <1>0
  <2> QED
    BY <2>2, <2>3
<1>5. ASSUME NEW s \in Sources, NEW r \in Routes, WriteIRT(s, r) PROVE Agree
  BY <1>5, <1>same DEF WriteIRT, cpuVars, ipiVars
<1>6. ASSUME NEW c \in Cpus, NEW p \in Priorities, WriteTaskPriority(c, p) PROVE Agree
  BY <1>6, <1>same DEF WriteTaskPriority, cpuVars, ipiVars
<1>7. ASSUME NEW c \in Cpus, NEW i \in {0, 1}, NEW w \in Words, WriteBiosReserved(c, i, w)
      PROVE Agree
  BY <1>7, <1>same DEF WriteBiosReserved, cpuVars, ipiVars
<1>8. ASSUME NEW c \in Cpus, NEW rs \in SUBSET Cpus, NEW m \in Msgs, WriteOutbox(c, rs, m)
      PROVE Agree
  BY <1>8, <1>same DEF WriteOutbox, cpuVars
<1>9. CASE UNCHANGED vars
  BY <1>9, <1>same DEF vars, cpuVars, ipiVars
<1> QED
  BY <1>1, <1>2, <1>3, <1>4, <1>5, <1>6, <1>7, <1>8, <1>9
     DEF Next, OtherThanRequests

(* On every machine the lines of the cores, the bitmaps and inboxes of the
   controller and the cores that requests were delivered to agree: the
   invariant is the conjunction of three that are each inductive with the
   types. *)
THEOREM LinesAlwaysAgree == Spec => []LinesInv
<1>1. Init => AckFindsRequest /\ IpiLineMatchesInbox
  BY ConstantFacts DEF Init, AckFindsRequest, IpiLineMatchesInbox
<1>2. LinesMatchBitmaps /\ AckFindsRequest /\ IpiLineMatchesInbox => LinesInv
  BY DEF LinesInv
<1> QED
  BY <1>1, <1>2, AckStep, IpiStep, TypeCorrect, LinesAlwaysMatchBitmaps, PTL DEF Spec

-----------------------------------------------------------------------------
(* A message is put behind those that wait, and only the core itself takes
   the first one away. *)
LEMMA FrontStep ==
    TypeOK /\ [Next]_vars =>
        [\A c \in Cpus :
           inbox[c] # <<>> /\ ~(inbox'[c] # <<>> /\ Head(inbox'[c]) = Head(inbox[c]))
              => WriteInbox(c)]_vars
<1> SUFFICES ASSUME TypeOK, Next, NEW c \in Cpus, inbox[c] # <<>>, ~WriteInbox(c)
             PROVE  inbox'[c] # <<>> /\ Head(inbox'[c]) = Head(inbox[c])
  OBVIOUS
<1> DEFINE Kept == inbox'[c] # <<>> /\ Head(inbox'[c]) = Head(inbox[c])
<1>types. inbox \in [Cpus -> Seq(IpiMessage)] /\ inbox[c] \in Seq(IpiMessage)
  BY DEF TypeOK
<1>same. ASSUME inbox' = inbox PROVE Kept
  BY <1>same
<1>1. ASSUME NEW s \in Sources, StartIRQ(s) PROVE Kept
  BY <1>1, <1>same, StartIRQCases DEF ipiVars
<1>2. ASSUME NEW s \in Sources, EndIRQ(s) PROVE Kept
  BY <1>2, <1>same, EndIRQCases DEF ipiVars
<1>3. ASSUME NEW d \in Cpus, WriteInbox(d) PROVE Kept
  <2>1. d # c /\ inbox' = [inbox EXCEPT ![d] = Tail(inbox[d])]
    BY <1>3 DEF WriteInbox
  <2>2. inbox'[c] = inbox[c]
    BY <2>1, <1>types
  <2> QED
    BY <2>2
<1>4. ASSUME NEW d \in Cpus, DeliverIPI(d) PROVE Kept
  <2> DEFINE takers == {e \in Head(outbox[d]).recipients : HasSlot(e, d)}
             m == [origin |-> d, msg |-> Head(outbox[d]).msg]
  <2>1. inbox'[c] = IF c \in takers THEN PushBack(c, m) ELSE inbox[c]
    BY <1>4 DEF DeliverIPI
  <2>2. m \in IpiMessage
    <3>1. Head(outbox[d]) \in Outgoing
      BY <1>4 DEF DeliverIPI, TypeOK
    <3> QED
      BY <3>1 DEF Outgoing, IpiMessage
  <2> HIDE DEF takers, m
  <2>3. PushBack(c, m) # <<>> /\ Head(PushBack(c, m)) = Head(inbox[c])
    BY <2>2, <1>types DEF PushBack
  <2> QED
    BY <2>1, <2>3
<1>5. ASSUME NEW s \in Sources, NEW r \in Routes, WriteIRT(s, r) PROVE Kept
  BY <1>5, <1>same DEF WriteIRT, ipiVars
<1>6. ASSUME NEW d \in Cpus, NEW p \in Priorities, WriteTaskPriority(d, p) PROVE Kept
  BY <1>6, <1>same DEF WriteTaskPriority, ipiVars
<1>7. ASSUME NEW d \in Cpus, NEW i \in {0, 1}, NEW w \in Words, WriteBiosReserved(d, i, w)
      PROVE Kept
  BY <1>7, <1>same DEF WriteBiosReserved, ipiVars
<1>8. ASSUME NEW d \in Cpus, NEW rs \in SUBSET Cpus, NEW n \in Msgs, WriteOutbox(d, rs, n)
      PROVE Kept
  BY <1>8, <1>same DEF WriteOutbox
<1> QED
  BY <1>1, <1>2, <1>3, <1>4, <1>5, <1>6, <1>7, <1>8 DEF Next, OtherThanRequests

(* What a core has read from its inbox is what it acknowledges: no other
   step changes the front of a queue. *)
THEOREM FrontAlwaysStable == Spec => FrontIsStable
<1>1. TypeOK /\ [Next]_vars =>
        [\A c \in Cpus :
           inbox[c] # <<>> /\ ~(inbox'[c] # <<>> /\ Head(inbox'[c]) = Head(inbox[c]))
              => WriteInbox(c)]_vars
  BY FrontStep
<1> QED
  BY <1>1, TypeCorrect, PTL DEF Spec, FrontIsStable

-----------------------------------------------------------------------------
(* What TLC explores: a behaviour of MCInterruptController is one of the
   controller, and its history variables tell more about it. *)

(* A step of either scenario is a request or another step. *)
LEMMA ScenarioSteps ==
    ASSUME MCNext
    PROVE  \/ \E s \in Sources : Request(s)
           \/ OtherThanRequests /\ UNCHANGED history
<1>1. CASE RoutingScenario
  BY <1>1 DEF RoutingScenario, OtherThanRequests
<1>2. CASE MessageScenario
  <2>1. Timer \in Sources /\ Fixed(1) \in Routes
    BY ConstantFacts, RoutesAssumption DEF RoutesAssumption
  <2> QED
    BY <1>2, <2>1 DEF MessageScenario, OtherThanRequests
<1> QED
  BY <1>1, <1>2 DEF MCNext

THEOREM ScenariosAreBehaviours == MCSpec => Spec
<1>1. MCInit => Init
  BY DEF MCInit
<1>2. [MCNext]_mcVars => [Next]_vars
  BY ScenarioSteps, Zenon DEF Request, Next, mcVars
<1> QED
  BY <1>1, <1>2, PTL DEF MCSpec, Spec

(* However the routing table is rewritten between a request and its
   acknowledgement, only a source that raises twice can leave a request
   behind. *)
THEOREM AlwaysLeftBehindOnlyIfRaisedAgain == MCSpec => []LeftBehindOnlyIfRaisedAgain
<1>1. MCInit => LeftBehindOnlyIfRaisedAgain
  BY ConstantFacts DEF MCInit, Init, NoRequestLeftBehind, LeftBehindOnlyIfRaisedAgain
<1>2. TypeOK /\ LeftBehindOnlyIfRaisedAgain /\ [MCNext]_mcVars
        => LeftBehindOnlyIfRaisedAgain'
  <2> SUFFICES ASSUME TypeOK, LeftBehindOnlyIfRaisedAgain, [MCNext]_mcVars, ~raisedAgain'
               PROVE  NoRequestLeftBehind'
    BY DEF LeftBehindOnlyIfRaisedAgain
  <2>1. ASSUME NEW s \in Sources, Request(s) PROVE NoRequestLeftBehind'
    <3>1. StartIRQ(s) /\ ~raisedAgain /\ lastTarget[s] = NoCpu
      BY <2>1 DEF Request
    <3> QED
      BY <3>1, RequestStep DEF LeftBehindOnlyIfRaisedAgain
  <2>2. ASSUME [OtherThanRequests]_vars, UNCHANGED history PROVE NoRequestLeftBehind'
    BY <2>2, OtherStep DEF LeftBehindOnlyIfRaisedAgain, history
  <2> QED
    BY <2>1, <2>2, ScenarioSteps DEF mcVars
<1>3. MCSpec => []TypeOK
  BY ScenariosAreBehaviours, TypeCorrect, PTL
<1> QED
  BY <1>1, <1>2, <1>3, PTL DEF MCSpec

-----------------------------------------------------------------------------
(* The rotation: after core c was chosen, the scan looks at it last. *)

LEMMA ModuloOnce ==
    ASSUME NEW n \in Nat, n > 0, NEW x \in 0..(2 * n - 1)
    PROVE  x % n = IF x < n THEN x ELSE x - n
OBVIOUS

LEMMA ScannedLast ==
    ASSUME NEW c \in Cpus, arbiter = NextArbiter(c), NEW d \in Cpus, d # c
    PROVE  /\ ScanRank(d) \in Int /\ ScanRank(c) \in Int
           /\ ScanRank(d) < ScanRank(c)
<1>1. NCpus \in Nat /\ NCpus > 0 /\ c \in 0..(NCpus - 1) /\ d \in 0..(NCpus - 1)
  BY ConstantFacts DEF Cpus
<1>2. c + 1 \in 0..(2 * NCpus - 1)
  BY <1>1
<1>3. arbiter = IF c + 1 < NCpus THEN c + 1 ELSE 0
  BY <1>1, <1>2, ModuloOnce DEF NextArbiter
<1>4. /\ c + NCpus - arbiter \in 0..(2 * NCpus - 1)
      /\ d + NCpus - arbiter \in 0..(2 * NCpus - 1)
  BY <1>1, <1>3
<1>5. ScanRank(c) = NCpus - 1
  BY <1>1, <1>3, <1>4, ModuloOnce DEF ScanRank
<1>6. ScanRank(d) \in Int /\ ScanRank(d) < NCpus - 1
  BY <1>1, <1>3, <1>4, ModuloOnce DEF ScanRank
<1> QED
  BY <1>1, <1>5, <1>6

(* A dynamic route that finds a core chooses the one it delivers to, and the
   next scan starts behind it. *)
LEMMA RotationCases ==
    ASSUME TypeOK, NEW s \in Sources, StartIRQ(s), IsRotation(s)
    PROVE  /\ lastTarget'[s] \in Eligible(s)
           /\ arbiter' = NextArbiter(lastTarget'[s])
           /\ \A d \in Eligible(s) : Beats(lastTarget'[s], d)
<1>1. PICK target \in Cpus \cup {NoCpu} :
         /\ Routed(s, target)
         /\ arbiter' = IF route[s].policy = "DYNAMIC" /\ target # NoCpu
                       THEN NextArbiter(target)
                       ELSE arbiter
         /\ IF target = NoCpu
            THEN UNCHANGED <<lastTarget, cpuVars>>
            ELSE Deliver(s, target)
  BY Zenon DEF StartIRQ
<1>2. /\ target # NoCpu /\ target \in Eligible(s)
      /\ \A d \in Eligible(s) : Beats(target, d)
  BY <1>1 DEF Routed, IsRotation
<1>3. lastTarget'[s] = target
  BY <1>1, <1>2 DEF Deliver, TypeOK
<1> QED
  BY <1>1, <1>2, <1>3 DEF IsRotation

(* A request that no dynamic route chooses a core for leaves the arbiter. *)
LEMMA NoRotation ==
    ASSUME NEW s \in Sources, StartIRQ(s), ~IsRotation(s)
    PROVE  arbiter' = arbiter
<1>1. PICK target \in Cpus \cup {NoCpu} :
         /\ Routed(s, target)
         /\ arbiter' = IF route[s].policy = "DYNAMIC" /\ target # NoCpu
                       THEN NextArbiter(target)
                       ELSE arbiter
  BY Zenon DEF StartIRQ
<1> QED
  BY <1>1 DEF Routed, IsRotation

(* Where the arbiter is after a core was chosen. *)
ArbiterInv == previous = NoCpu \/ (previous \in Cpus /\ arbiter = NextArbiter(previous))

LEMMA ArbiterStep == TypeOK /\ ArbiterInv /\ [MCNext]_mcVars => ArbiterInv'
<1> SUFFICES ASSUME TypeOK, ArbiterInv, [MCNext]_mcVars PROVE ArbiterInv'
  OBVIOUS
<1>1. ASSUME NEW s \in Sources, Request(s) PROVE ArbiterInv'
  <2>1. CASE IsRotation(s)
    <3>1. previous' = lastTarget'[s] /\ StartIRQ(s)
      BY <1>1, <2>1 DEF Request
    <3> QED
      BY <2>1, <3>1, RotationCases DEF ArbiterInv, Eligible
  <2>2. CASE ~IsRotation(s)
    <3>1. previous' = previous /\ StartIRQ(s)
      BY <1>1, <2>2 DEF Request
    <3> QED
      BY <2>2, <3>1, NoRotation DEF ArbiterInv
  <2> QED
    BY <2>1, <2>2
<1>2. ASSUME OtherThanRequests \/ UNCHANGED vars PROVE arbiter' = arbiter
  BY <1>2 DEF OtherThanRequests, EndIRQ, WriteIRT, WriteTaskPriority, WriteBiosReserved,
     WriteOutbox, WriteInbox, DeliverIPI, sourceVars, vars
<1> QED
  BY <1>1, <1>2, ScenarioSteps DEF ArbiterInv, mcVars, history

(* Requests rotate: for any number of cores, any sets of destinations and any
   task priorities, a core is chosen again only where every other core of the
   destination has a lower priority value. *)
THEOREM Rotates == MCSpec => NoCoreTwiceInARow
<1>1. MCInit => ArbiterInv
  BY DEF MCInit, ArbiterInv
<1>2. TypeOK /\ ArbiterInv
        => \A s \in Sources :
             (StartIRQ(s) /\ IsRotation(s) /\ lastTarget'[s] = previous)
               => \A d \in Eligible(s) \ {previous} :
                    taskPriority[d] < taskPriority[previous]
  <2> SUFFICES ASSUME TypeOK, ArbiterInv, NEW s \in Sources, StartIRQ(s), IsRotation(s),
                      lastTarget'[s] = previous,
                      NEW d \in Eligible(s) \ {previous}
               PROVE  taskPriority[d] < taskPriority[previous]
    OBVIOUS
  <2>1. previous \in Cpus /\ d \in Cpus /\ Beats(previous, d)
    BY RotationCases DEF Eligible
  <2>2. arbiter = NextArbiter(previous)
    BY <2>1, ConstantFacts DEF ArbiterInv
  <2>3. /\ ScanRank(d) \in Int /\ ScanRank(previous) \in Int
        /\ ScanRank(d) < ScanRank(previous)
    BY <2>1, <2>2, ScannedLast
  <2>4. taskPriority[d] \in Int /\ taskPriority[previous] \in Int
    <3>1. taskPriority \in [Cpus -> 0..15]
      BY DEF TypeOK, CPUCTL_TPR_PRIORITY_MASK
    <3>2. taskPriority[d] \in 0..15 /\ taskPriority[previous] \in 0..15
      BY <2>1, <3>1
    <3> QED
      BY <3>2
  <2> QED
    BY <2>1, <2>3, <2>4 DEF Beats
<1>3. MCSpec => []TypeOK
  BY ScenariosAreBehaviours, TypeCorrect, PTL
<1> QED
  BY <1>1, <1>2, <1>3, ArbiterStep, PTL DEF MCSpec, NoCoreTwiceInARow
================================================================================
