----------------------------- MODULE TerminalProofs -----------------------------
(***************************************************************************)
(* Proofs about the terminal, for any durations of its operations and any  *)
(* input, and about the Ethernet interface, for every size of its queue    *)
(* and any traffic; the last section is about what MCDevices makes of the  *)
(* two.                                                                    *)
(***************************************************************************)
EXTENDS MCDevices, SequenceTheorems, TLAPS

(* Only operations are in progress. *)
BusyOperates == \A x \in Halves : Busy(x) => half[x].command \in Operations

DeviceInv == TypeOK /\ OneEventPerOperation /\ BusyOperates

(* The times of the queued events: from now to the longest operation. *)
LEMMA TimeFacts ==
    /\ LastTime \in Nat \ {0}
    /\ TERMRESETTIME \in 1..LastTime
    /\ RECVCHRTIME \in 1..LastTime
    /\ TRANCHRTIME \in 1..LastTime
    /\ \A x \in Halves, command \in Commands : Duration(x, command) \in 1..LastTime
<1>1. \E t \in Times : \A u \in Times : u <= t
  BY TimesAssumption DEF Times, TimesAssumption
<1>2. LastTime \in Times /\ \A u \in Times : u <= LastTime
  BY <1>1 DEF LastTime
<1> HIDE DEF LastTime
<1>3. Times = {TERMRESETTIME, RECVCHRTIME, TRANCHRTIME}
  BY DEF Times
<1> QED
  BY <1>2, <1>3, TimesAssumption DEF TimesAssumption, Duration

(* The half the handler picks is the one whose event is due. *)
LEMMA CompletingFacts ==
    ASSUME DeviceInv, events[0] > 0
    PROVE  /\ Completing \in Halves
           /\ Busy(Completing)
           /\ half[Completing].left = 0
           /\ half[Completing].command \in Operations
<1>1. 0 \in 0..LastTime
  BY TimeFacts
<1>2. events[0] = DueAt("recv", 0) + DueAt("tran", 0)
  BY <1>1 DEF DeviceInv, OneEventPerOperation
<1>3. DueAt("recv", 0) \in {0, 1} /\ DueAt("tran", 0) \in {0, 1}
  BY DEF DueAt
<1>4. DueAt("recv", 0) = 1 \/ DueAt("tran", 0) = 1
  BY <1>2, <1>3
<1>5. \A x \in Halves : DueAt(x, 0) = 1 => Busy(x) /\ half[x].left = 0
  BY DEF DueAt
<1>6. "recv" \in Halves /\ "tran" \in Halves
  BY DEF Halves
<1>7. half["recv"].left \in 0..LastTime /\ half["tran"].left \in 0..LastTime
  BY <1>6 DEF DeviceInv, TypeOK
<1>8. /\ Completing \in Halves /\ Busy(Completing) /\ half[Completing].left = 0
  BY <1>4, <1>5, <1>6, <1>7, TimeFacts DEF Completing
<1> QED
  BY <1>8 DEF DeviceInv, BusyOperates

-----------------------------------------------------------------------------
(* One half changes while the events of the other one stay where they are *)

(* What a half is, with the statuses and times its operations give it. *)
HalfState == [status : {"READY", "BUSY", "ILOPERR", "DONE", "ERROR"},
              command : Commands, intPend : BOOLEAN, left : 0..LastTime]

DeviceTyped == half \in [Halves -> HalfState] /\ events \in [0..LastTime -> Nat]

(* The event of half h is at its own time t. *)
EndsAt(h, t) == IF h.status = "BUSY" /\ h.left = t THEN 1 ELSE 0

LEMMA HalfChanges ==
    ASSUME DeviceInv, NEW x \in Halves, NEW h \in HalfState,
           half' = [half EXCEPT ![x] = h],
           events' \in [0..LastTime -> Nat],
           \A t \in 0..LastTime : events'[t] = (events[t] - DueAt(x, t)) + EndsAt(h, t),
           h.status = "BUSY" => h.command \in Operations
    PROVE  DeviceTyped' /\ OneEventPerOperation' /\ BusyOperates'
<1>1. half \in [Halves -> HalfState] /\ events \in [0..LastTime -> Nat]
  BY DEF DeviceInv, TypeOK, HalfState
<1>2. half' \in [Halves -> HalfState] /\ half'[x] = h
  BY <1>1
<1>3. \A y \in Halves : y # x => half'[y] = half[y]
  BY <1>1
<1>4. DeviceTyped'
  BY <1>2 DEF DeviceTyped
<1>5. BusyOperates'
  BY <1>2, <1>3 DEF BusyOperates, DeviceInv, Busy
<1>6. \A t \in 0..LastTime : DueAt(x, t)' = EndsAt(h, t)
  BY <1>2 DEF DueAt, EndsAt, Busy
<1>7. \A y \in Halves, t \in 0..LastTime : y # x => DueAt(y, t)' = DueAt(y, t)
  BY <1>3 DEF DueAt, Busy
<1>8. \A y \in Halves, t \in 0..LastTime : DueAt(y, t) \in Nat /\ EndsAt(h, t) \in Nat
  BY DEF DueAt, EndsAt
<1>9. \A t \in 0..LastTime : events[t] = DueAt("recv", t) + DueAt("tran", t)
  BY DEF DeviceInv, OneEventPerOperation
<1>10. "recv" \in Halves /\ "tran" \in Halves /\ (x = "recv" \/ x = "tran")
  BY DEF Halves
<1>11. ASSUME NEW t \in 0..LastTime
       PROVE  events'[t] = DueAt("recv", t)' + DueAt("tran", t)'
  <2>1. /\ events'[t] = (events[t] - DueAt(x, t)) + EndsAt(h, t)
        /\ events[t] = DueAt("recv", t) + DueAt("tran", t)
        /\ DueAt(x, t)' = EndsAt(h, t) /\ EndsAt(h, t) \in Nat
    BY <1>6, <1>8, <1>9, <1>10
  <2>2. DueAt("recv", t) \in Nat /\ DueAt("tran", t) \in Nat
    BY <1>8, <1>10
  <2>3. CASE x = "recv"
    <3>1. DueAt("tran", t)' = DueAt("tran", t)
      BY <1>7, <1>10, <2>3
    <3> QED
      BY <2>1, <2>2, <2>3, <3>1
  <2>4. CASE x = "tran"
    <3>1. DueAt("recv", t)' = DueAt("recv", t)
      BY <1>7, <1>10, <2>4
    <3> QED
      BY <2>1, <2>2, <2>4, <3>1
  <2> QED
    BY <1>10, <2>3, <2>4
<1>12. OneEventPerOperation'
  BY <1>11 DEF OneEventPerOperation
<1> QED
  BY <1>4, <1>5, <1>12

(* The variables a step leaves alone keep what is known of them. *)
InputTyped ==
    /\ isWorking \in BOOLEAN
    /\ recvBuf \in Seq(Characters) /\ recvBp \in 0..Len(recvBuf)
    /\ typed \in Seq(Characters) /\ received \in Seq(Characters)

LEMMA TypeParts == TypeOK <=> DeviceTyped /\ InputTyped
  BY DEF TypeOK, DeviceTyped, InputTyped, HalfState

LEMMA StartStep ==
    ASSUME DeviceInv, NEW x \in Halves, NEW command \in Operations, Start(x, command)
    PROVE  DeviceTyped' /\ OneEventPerOperation' /\ BusyOperates'
<1> DEFINE d == Duration(x, command)
           h == [status |-> "BUSY", command |-> command, intPend |-> FALSE, left |-> d]
<1>1. d \in 1..LastTime /\ LastTime \in Nat
  BY TimeFacts DEF Commands
<1>2. ~Busy(x) /\ half' = [half EXCEPT ![x] = h] /\ events' = [events EXCEPT ![d] = @ + 1]
  BY DEF Start, Accepts, Enqueued
<1> HIDE DEF d
<1>3. h \in HalfState /\ h.status = "BUSY" /\ h.command \in Operations
  BY <1>1 DEF HalfState, Commands
<1>4. events \in [0..LastTime -> Nat]
  BY DEF DeviceInv, TypeOK
<1>5. events' \in [0..LastTime -> Nat]
  BY <1>1, <1>2, <1>4
<1>6. \A t \in 0..LastTime : DueAt(x, t) = 0 /\ EndsAt(h, t) = IF t = d THEN 1 ELSE 0
  BY <1>2 DEF DueAt, EndsAt
<1> HIDE DEF h
<1>7. \A t \in 0..LastTime : events'[t] = IF t = d THEN events[t] + 1 ELSE events[t]
  BY <1>1, <1>2, <1>4
<1>8. \A t \in 0..LastTime : events[t] \in Nat
  BY <1>4
<1>9. \A t \in 0..LastTime : events'[t] = (events[t] - DueAt(x, t)) + EndsAt(h, t)
  BY <1>6, <1>7, <1>8
<1> QED
  BY <1>2, <1>3, <1>5, <1>9, HalfChanges

(* A half that is not busy takes a command that begins no operation. *)
LEMMA QuietCommandStep ==
    ASSUME DeviceInv, NEW x \in Halves, Acknowledge(x) \/ Refuse(x)
    PROVE  DeviceTyped' /\ OneEventPerOperation' /\ BusyOperates'
<1>1. PICK s \in {"READY", "ILOPERR"}, c \in {"ACK", "unknown"}, p \in BOOLEAN :
         half' = [half EXCEPT ![x] = [@ EXCEPT !.status = s, !.command = c, !.intPend = p]]
  BY DEF Acknowledge, Refuse
<1>2. ~Busy(x) /\ events' = events
  BY DEF Acknowledge, Refuse, Accepts
<1> DEFINE h == [half[x] EXCEPT !.status = s, !.command = c, !.intPend = p]
<1>3. half \in [Halves -> HalfState] /\ events \in [0..LastTime -> Nat]
  BY DEF DeviceInv, TypeOK, HalfState
<1>4. half' = [half EXCEPT ![x] = h]
  BY <1>1
<1>5. h \in HalfState /\ h.status # "BUSY"
  BY <1>3 DEF HalfState, Commands
<1>6. \A t \in 0..LastTime : DueAt(x, t) = 0 /\ EndsAt(h, t) = 0
  BY <1>2, <1>5 DEF DueAt, EndsAt
<1> HIDE DEF h
<1>7. \A t \in 0..LastTime : events'[t] = (events[t] - DueAt(x, t)) + EndsAt(h, t)
  BY <1>2, <1>3, <1>6
<1> QED
  BY <1>2, <1>3, <1>4, <1>5, <1>7, HalfChanges

LEMMA PollStep ==
    ASSUME DeviceInv, Poll
    PROVE  DeviceTyped' /\ OneEventPerOperation' /\ BusyOperates'
<1> DEFINE h == [half["recv"] EXCEPT !.left = RECVCHRTIME]
<1>1. /\ Completing = "recv" /\ Busy("recv") /\ half["recv"].left = 0
      /\ "recv" \in Halves /\ half["recv"].command \in Operations
  BY CompletingFacts DEF Poll, NothingToReceive
<1>2. half \in [Halves -> HalfState] /\ events \in [0..LastTime -> Nat]
  BY DEF DeviceInv, TypeOK, HalfState
<1>3. half' = [half EXCEPT !["recv"] = h]
  BY DEF Poll
<1>4. RECVCHRTIME \in 1..LastTime /\ LastTime \in Nat /\ 0 \in 0..LastTime
  BY TimeFacts
<1>5. h \in HalfState /\ h.status = "BUSY" /\ h.left = RECVCHRTIME
      /\ h.command \in Operations
  BY <1>1, <1>2, <1>4 DEF HalfState, Busy
<1>6. \A t \in 0..LastTime : /\ DueAt("recv", t) = IF t = 0 THEN 1 ELSE 0
                             /\ EndsAt(h, t) = IF t = RECVCHRTIME THEN 1 ELSE 0
  BY <1>1, <1>5 DEF DueAt, EndsAt
<1> HIDE DEF h
<1>7. events[0] > 0 /\ events' = [[events EXCEPT ![0] = @ - 1] EXCEPT ![RECVCHRTIME] = @ + 1]
  BY DEF Poll, Polling, Dequeued
<1> DEFINE e == [events EXCEPT ![0] = @ - 1]
<1>8. e \in [0..LastTime -> Nat]
      /\ \A t \in 0..LastTime : e[t] = IF t = 0 THEN events[0] - 1 ELSE events[t]
  BY <1>2, <1>4, <1>7
<1>9. events' = [e EXCEPT ![RECVCHRTIME] = @ + 1]
  BY <1>7
<1> HIDE DEF e
<1>10. events' \in [0..LastTime -> Nat]
       /\ \A t \in 0..LastTime : events'[t] = IF t = RECVCHRTIME THEN e[t] + 1 ELSE e[t]
  BY <1>4, <1>8, <1>9
<1>11. \A t \in 0..LastTime : events[t] \in Nat
  BY <1>2
<1>12. \A t \in 0..LastTime : events'[t] = (events[t] - DueAt("recv", t)) + EndsAt(h, t)
  BY <1>4, <1>6, <1>8, <1>10, <1>11, SMTT(40)
<1> QED
  BY <1>1, <1>3, <1>5, <1>10, <1>12, HalfChanges

LEMMA CompleteStep ==
    ASSUME DeviceInv, Complete
    PROVE  DeviceTyped' /\ OneEventPerOperation' /\ BusyOperates'
<1> DEFINE x == Completing
           h == [half[x] EXCEPT !.status = Outcome(x), !.intPend = TRUE, !.left = 0]
<1>1. x \in Halves /\ Busy(x) /\ half[x].left = 0
  BY CompletingFacts DEF Complete
<1>2. half \in [Halves -> HalfState] /\ events \in [0..LastTime -> Nat]
  BY DEF DeviceInv, TypeOK, HalfState
<1>3. /\ half' = [half EXCEPT ![x] = h]
      /\ events' = [events EXCEPT ![0] = @ - 1] /\ events[0] > 0
  BY DEF Complete, Dequeued
<1> HIDE DEF x
<1>4. LastTime \in Nat /\ 0 \in 0..LastTime
  BY TimeFacts
<1>5. Outcome(x) \in {"READY", "DONE", "ERROR"}
  BY DEF Outcome
<1>6. h \in HalfState /\ h.status # "BUSY"
  BY <1>1, <1>2, <1>4, <1>5 DEF HalfState
<1>7. \A t \in 0..LastTime : /\ DueAt(x, t) = IF t = 0 THEN 1 ELSE 0
                             /\ EndsAt(h, t) = 0
  BY <1>1, <1>6 DEF DueAt, EndsAt
<1> HIDE DEF h
<1>8. /\ events' \in [0..LastTime -> Nat]
      /\ \A t \in 0..LastTime : events'[t] = IF t = 0 THEN events[0] - 1 ELSE events[t]
  BY <1>2, <1>3, <1>4
<1>9. \A t \in 0..LastTime : events[t] \in Nat
  BY <1>2
<1>10. \A t \in 0..LastTime : events'[t] = (events[t] - DueAt(x, t)) + EndsAt(h, t)
  BY <1>7, <1>8, <1>9
<1> QED
  BY <1>1, <1>3, <1>6, <1>8, <1>10, HalfChanges

(* Time passes: every event and every operation comes one cycle closer. *)
LEMMA ElapseStep ==
    ASSUME DeviceInv, Elapse
    PROVE  DeviceTyped' /\ OneEventPerOperation' /\ BusyOperates'
<1>1. half \in [Halves -> HalfState] /\ events \in [0..LastTime -> Nat]
  BY DEF DeviceInv, TypeOK, HalfState
<1>2. LastTime \in Nat \ {0} /\ 0 \in 0..LastTime
  BY TimeFacts
<1>3. \A y \in Halves, t \in 0..LastTime : DueAt(y, t) \in {0, 1}
  BY DEF DueAt
<1>4. "recv" \in Halves /\ "tran" \in Halves /\ \A y \in Halves : y = "recv" \/ y = "tran"
  BY DEF Halves
<1>5. events[0] = 0 /\ events[0] = DueAt("recv", 0) + DueAt("tran", 0)
  BY <1>2 DEF Elapse, DeviceInv, OneEventPerOperation
<1>6. \A y \in Halves : DueAt(y, 0) = 0
  BY <1>2, <1>3, <1>4, <1>5
<1>7. \A y \in Halves : half[y] \in HalfState /\ half[y].left \in 0..LastTime
  BY <1>1 DEF HalfState
<1>8. \A y \in Halves : Busy(y) => half[y].left > 0
  BY <1>6, <1>7, <1>2 DEF DueAt
<1> DEFINE sooner(y) == IF Busy(y) /\ half[y].left > 0 THEN half[y].left - 1 ELSE half[y].left
<1>9. half' = [y \in Halves |-> [half[y] EXCEPT !.left = sooner(y)]]
  BY DEF Elapse
<1>10. \A y \in Halves : /\ sooner(y) \in 0..LastTime
                         /\ Busy(y) => sooner(y) = half[y].left - 1
  BY <1>7, <1>8, <1>2
<1> HIDE DEF sooner
<1>11. \A y \in Halves : /\ half'[y] \in HalfState
                         /\ half'[y].status = half[y].status
                         /\ half'[y].command = half[y].command
                         /\ half'[y].left = sooner(y)
  BY <1>7, <1>9, <1>10 DEF HalfState
<1>12. half' \in [Halves -> HalfState]
  BY <1>9, <1>11
<1>13. /\ events' = [t \in 0..LastTime |-> IF t < LastTime THEN events[t + 1] ELSE 0]
  BY DEF Elapse
<1>14. events' \in [0..LastTime -> Nat]
  BY <1>1, <1>2, <1>13
<1>15. BusyOperates'
  BY <1>11 DEF BusyOperates, DeviceInv, Busy
<1>16. \A y \in Halves, t \in 0..LastTime :
          DueAt(y, t)' = IF t < LastTime THEN DueAt(y, t + 1) ELSE 0
  <2> TAKE y \in Halves, t \in 0..LastTime
  <2>1. DueAt(y, t)' = IF Busy(y) /\ sooner(y) = t THEN 1 ELSE 0
    BY <1>11 DEF DueAt, Busy
  <2>2. Busy(y) => (sooner(y) = t <=> half[y].left = t + 1)
    BY <1>7, <1>10, <1>2
  <2>3. t = LastTime => half[y].left # t + 1
    BY <1>7, <1>2
  <2>4. t < LastTime \/ t = LastTime
    BY <1>2
  <2> QED
    BY <2>1, <2>2, <2>3, <2>4, <1>2 DEF DueAt
<1>17. \A t \in 0..LastTime : events'[t] = DueAt("recv", t)' + DueAt("tran", t)'
  <2> TAKE t \in 0..LastTime
  <2>1. CASE t < LastTime
    <3>1. t + 1 \in 0..LastTime
      BY <2>1, <1>2
    <3>2. events[t + 1] = DueAt("recv", t + 1) + DueAt("tran", t + 1)
      BY <3>1 DEF DeviceInv, OneEventPerOperation
    <3>3. events'[t] = events[t + 1]
      BY <1>13, <2>1
    <3> QED
      BY <1>4, <1>16, <2>1, <3>2, <3>3
  <2>2. CASE ~(t < LastTime)
    BY <1>4, <1>13, <1>16, <2>2
  <2> QED
    BY <2>1, <2>2
<1> QED
  BY <1>12, <1>14, <1>15, <1>17 DEF DeviceTyped, OneEventPerOperation

(* Typing, faults and routing do not touch the halves or their events. *)
LEMMA BystanderStep ==
    ASSUME DeviceInv, UNCHANGED deviceVars
    PROVE  DeviceTyped' /\ OneEventPerOperation' /\ BusyOperates'
<1>1. half' = half /\ events' = events
  BY DEF deviceVars
<1>2. \A y \in Halves, t \in 0..LastTime : DueAt(y, t)' = DueAt(y, t)
  BY <1>1 DEF DueAt, Busy
<1>3. OneEventPerOperation'
  BY <1>1, <1>2 DEF DeviceInv, OneEventPerOperation, Halves
<1> QED
  BY <1>1, <1>3, TypeParts DEF DeviceInv, DeviceTyped, BusyOperates, Busy

LEMMA DeviceStep ==
    ASSUME DeviceInv, [Next]_vars
    PROVE  DeviceTyped' /\ OneEventPerOperation' /\ BusyOperates'
<1>1. ASSUME NEW x \in Halves, NEW command \in Operations, Start(x, command)
      PROVE  DeviceTyped' /\ OneEventPerOperation' /\ BusyOperates'
  BY <1>1, StartStep
<1>2. ASSUME NEW x \in Halves, Acknowledge(x) \/ Refuse(x)
      PROVE  DeviceTyped' /\ OneEventPerOperation' /\ BusyOperates'
  BY <1>2, QuietCommandStep
<1>3. ASSUME NEW line \in InputLines, Input(line) PROVE UNCHANGED deviceVars
  BY <1>3 DEF Input
<1>4. ASSUME NEW working \in BOOLEAN, SetCondition(working) PROVE UNCHANGED deviceVars
  BY <1>4 DEF SetCondition
<1>5. ASSUME NEW r \in Routes, Reroute(r) PROVE UNCHANGED deviceVars
  BY <1>5 DEF Reroute
<1>6. ASSUME UNCHANGED vars PROVE UNCHANGED deviceVars
  BY <1>6 DEF vars
<1> QED
  BY <1>1, <1>2, <1>3, <1>4, <1>5, <1>6, PollStep, CompleteStep, ElapseStep,
     BystanderStep DEF Next, CompleteDevOp

-----------------------------------------------------------------------------
(* What is typed and what is received *)

(* What is left to receive is a sequence of characters. *)
LEMMA UnreadIsSeq == ASSUME InputTyped PROVE Unread \in Seq(Characters)
  BY DEF InputTyped, Unread

(* A line is typed: the buffer is replaced by what was not received and the
   line, and nothing is lost. *)
LEMMA InputStep ==
    ASSUME InputTyped, ReceivesWhatWasTyped, NEW line \in InputLines, Input(line)
    PROVE  InputTyped' /\ ReceivesWhatWasTyped'
<1> DEFINE l == Append(line, Newline)
<1>1. l \in Seq(Characters)
  <2>1. line \in Seq(Characters)
    BY InputAssumption DEF InputAssumption
  <2>2. Newline \in Characters
    BY InputAssumption DEF InputAssumption
  <2> QED
    BY <2>1, <2>2, AppendProperties
<1>2. recvBuf' = Unread \o l /\ recvBp' = 0 /\ typed' = typed \o l
      /\ received' = received /\ isWorking' = isWorking
  BY DEF Input, NewOffset
<1> HIDE DEF l
<1>3. recvBuf' \in Seq(Characters) /\ typed' \in Seq(Characters)
  BY <1>1, <1>2, UnreadIsSeq, ConcatProperties DEF InputTyped
<1>4. Len(recvBuf') \in Nat
  BY <1>3, LenProperties
<1>5. InputTyped'
  BY <1>2, <1>3, <1>4 DEF InputTyped
<1>6. Unread' = recvBuf'
  <2>1. Unread' = SubSeq(recvBuf', 0 + 1, Len(recvBuf'))
    BY <1>2 DEF Unread
  <2> QED
    BY <1>3, <2>1, SubSeqFull
<1>7. received \o (Unread \o l) = (received \o Unread) \o l
  <2>1. received \in Seq(Characters) /\ Unread \in Seq(Characters)
    BY UnreadIsSeq DEF InputTyped
  <2> QED
    BY <1>1, <2>1, ConcatAssociative
<1> QED
  BY <1>2, <1>5, <1>6, <1>7 DEF ReceivesWhatWasTyped

(* A character is received: it leaves the buffer and joins what was. *)
LEMMA ReceiveStep ==
    ASSUME InputTyped, ReceivesWhatWasTyped, Unread # <<>>,
           recvBp' = recvBp + 1,
           received' = Append(received, recvBuf[recvBp + 1]),
           UNCHANGED <<recvBuf, typed, isWorking>>
    PROVE  InputTyped' /\ ReceivesWhatWasTyped'
<1>1. Len(recvBuf) \in Nat /\ recvBp \in 0..Len(recvBuf)
  BY LenProperties DEF InputTyped
<1>2. recvBp + 1 \in 1..Len(recvBuf)
  BY <1>1, SubSeqEmpty DEF Unread
<1> DEFINE k == recvBuf[recvBp + 1]
           rest == SubSeq(recvBuf, recvBp + 2, Len(recvBuf))
<1>3. k \in Characters
  BY <1>2, ElementOfSeq DEF InputTyped
<1>4. Unread = <<k>> \o SubSeq(recvBuf, (recvBp + 1) + 1, Len(recvBuf))
  BY <1>1, <1>2, SubSeqRecursiveFirst, SMTT(40) DEF Unread, InputTyped
<1>5. Unread = <<k>> \o rest
  BY <1>1, <1>4
<1>6. Unread' = rest
  BY <1>1 DEF Unread
<1>7. rest \in Seq(Characters)
  BY <1>1 DEF InputTyped
<1> HIDE DEF k, rest
<1>8. received' = received \o <<k>> /\ received' \in Seq(Characters)
  BY <1>3, AppendProperties, AppendIsConcat DEF InputTyped, k
<1>9. (received \o <<k>>) \o rest = received \o (<<k>> \o rest)
  BY <1>3, <1>7, ConcatAssociative, SMTT(40) DEF InputTyped
<1>10. ReceivesWhatWasTyped'
  BY <1>5, <1>6, <1>8, <1>9 DEF ReceivesWhatWasTyped
<1> QED
  BY <1>2, <1>8, <1>10 DEF InputTyped

LEMMA InputUnchanged ==
    ASSUME InputTyped, ReceivesWhatWasTyped, UNCHANGED inputVars, isWorking' \in BOOLEAN
    PROVE  InputTyped' /\ ReceivesWhatWasTyped'
  BY DEF InputTyped, ReceivesWhatWasTyped, inputVars, Unread

LEMMA InputsStep ==
    ASSUME DeviceInv, ReceivesWhatWasTyped, [Next]_vars
    PROVE  InputTyped' /\ ReceivesWhatWasTyped'
<1>1. InputTyped
  BY TypeParts DEF DeviceInv
<1>2. isWorking \in BOOLEAN
  BY <1>1 DEF InputTyped
<1>3. ASSUME NEW line \in InputLines, Input(line)
      PROVE  InputTyped' /\ ReceivesWhatWasTyped'
  BY <1>1, <1>3, InputStep
<1>4. ASSUME NEW x \in Halves, NEW command \in Operations, Start(x, command)
      PROVE  UNCHANGED inputVars /\ isWorking' \in BOOLEAN
  BY <1>2, <1>4 DEF Start
<1>5. ASSUME NEW x \in Halves, Acknowledge(x) \/ Refuse(x)
      PROVE  UNCHANGED inputVars /\ isWorking' \in BOOLEAN
  BY <1>2, <1>5 DEF Acknowledge, Refuse
<1>6. ASSUME Poll \/ Elapse PROVE UNCHANGED inputVars /\ isWorking' \in BOOLEAN
  BY <1>2, <1>6 DEF Poll, Elapse
<1>7. ASSUME NEW working \in BOOLEAN, SetCondition(working)
      PROVE  UNCHANGED inputVars /\ isWorking' \in BOOLEAN
  BY <1>7 DEF SetCondition
<1>8. ASSUME NEW r \in Routes, Reroute(r)
      PROVE  UNCHANGED inputVars /\ isWorking' \in BOOLEAN
  BY <1>2, <1>8 DEF Reroute
<1>9. ASSUME UNCHANGED vars PROVE UNCHANGED inputVars /\ isWorking' \in BOOLEAN
  BY <1>2, <1>9 DEF vars
<1>10. ASSUME Complete PROVE InputTyped' /\ ReceivesWhatWasTyped'
  <2>1. UNCHANGED <<recvBuf, typed, isWorking>> /\ ~NothingToReceive(Completing)
    BY <1>10 DEF Complete
  <2>2. CASE Completing = "recv" /\ Outcome(Completing) = "DONE"
    <3>1. Unread # <<>>
      <4>1. half["recv"].command # "RESET" /\ half["recv"].command \in Operations
        BY <1>10, <2>2, CompletingFacts DEF Complete, Outcome
      <4> QED
        BY <2>1, <2>2, <4>1 DEF NothingToReceive, Operations
    <3>2. recvBp' = recvBp + 1 /\ received' = Append(received, recvBuf[recvBp + 1])
      BY <1>10, <2>2 DEF Complete
    <3> QED
      BY <1>1, <2>1, <3>1, <3>2, ReceiveStep
  <2>3. CASE ~(Completing = "recv" /\ Outcome(Completing) = "DONE")
    <3>1. UNCHANGED <<recvBp, received>>
      BY <1>10, <2>3 DEF Complete
    <3> QED
      BY <1>1, <1>2, <2>1, <3>1, InputUnchanged DEF inputVars
  <2> QED
    BY <2>2, <2>3
<1> QED
  BY <1>1, <1>3, <1>4, <1>5, <1>6, <1>7, <1>8, <1>9, <1>10, InputUnchanged
  DEF Next, CompleteDevOp

-----------------------------------------------------------------------------

IInv == DeviceInv /\ ReceivesWhatWasTyped

LEMMA InitIInv == Init => IInv
<1> SUFFICES ASSUME Init PROVE IInv
  OBVIOUS
<1>1. DeviceTyped
  BY TimeFacts DEF Init, DeviceTyped, HalfState, Commands, Operations
<1>2. InputTyped
  BY EmptySeq DEF Init, InputTyped
<1>3. OneEventPerOperation /\ BusyOperates
  BY DEF Init, OneEventPerOperation, BusyOperates, DueAt, Busy, Halves
<1>4. Unread = <<>>
  BY SubSeqEmpty DEF Init, Unread
<1>5. ReceivesWhatWasTyped
  BY <1>4 DEF Init, ReceivesWhatWasTyped
<1> QED
  BY <1>1, <1>2, <1>3, <1>5, TypeParts DEF IInv, DeviceInv

LEMMA StepIInv == IInv /\ [Next]_vars => IInv'
<1> SUFFICES ASSUME IInv, [Next]_vars PROVE IInv'
  OBVIOUS
<1>1. DeviceTyped' /\ OneEventPerOperation' /\ BusyOperates'
  BY DeviceStep DEF IInv
<1>2. InputTyped' /\ ReceivesWhatWasTyped'
  BY InputsStep DEF IInv
<1>3. TypeOK'
  BY <1>1, <1>2, TypeParts, PTL
<1> QED
  BY <1>1, <1>2, <1>3 DEF IInv, DeviceInv

(* The invariant holds in every state. *)
THEOREM TerminalInvariant == Spec => []IInv
  BY InitIInv, StepIInv, PTL DEF Spec

(* Every variable keeps its type, whatever the durations of the operations:
   no operation is ever overdue (Elapse, CompleteDevOp). *)
THEOREM TerminalTypeCorrect == Spec => []TypeOK
  BY TerminalInvariant, PTL DEF IInv, DeviceInv

(* Every operation in progress has exactly one event, at its own time: the
   guess of the completion handler is right for any durations. *)
THEOREM AlwaysOneEvent == Spec => []OneEventPerOperation
  BY TerminalInvariant, PTL DEF IInv, DeviceInv

(* The completion handler never reaches its calls of Panic. *)
THEOREM NeverReachesPanic == Spec => []NeverPanics
<1>1. IInv => NeverPanics
  BY CompletingFacts DEF IInv, NeverPanics
<1> QED
  BY <1>1, TerminalInvariant, PTL

(* What the handler assumes always holds. *)
THEOREM HandlerIsRight == Spec => []HandlerInv
  BY TerminalTypeCorrect, AlwaysOneEvent, NeverReachesPanic, PTL DEF HandlerInv

(* Whatever is typed, and whenever, is received in order and without loss. *)
THEOREM ReceivesAllInOrder == Spec => []ReceivesWhatWasTyped
  BY TerminalInvariant, PTL DEF IInv

-----------------------------------------------------------------------------
(* Requests and acknowledgements, under routes to one core each that change
   only while nothing is to be acknowledged *)

FixedRouting ==
    /\ NCpus \in Nat \ {0}
    /\ ~RerouteAtAnyTime
    /\ Routes \subseteq [policy : {"FIXED"}, dest : PIC!Cpus]

ControllerTyped ==
    /\ route \in [PIC!Sources -> [policy : {"FIXED"}, dest : PIC!Cpus]]
    /\ lastTarget \in [PIC!Sources -> PIC!Cpus \cup {PIC!NoCpu}]
    /\ idb \in [PIC!Cpus -> [{Line} -> SUBSET {Dev}]]

(* A request is where the table says, and nowhere else: this is what makes
   one acknowledgement enough for the requests of both halves. *)
TargetIsRouted ==
    lastTarget[Me] # PIC!NoCpu => lastTarget[Me] = route[Me].dest
OnlyAtTarget ==
    \A c \in PIC!Cpus : Dev \in idb[c][Line] => lastTarget[Me] = c

ControllerInv == ControllerTyped /\ TargetIsRouted /\ OnlyAtTarget

LEMMA SourceFacts ==
    /\ Me \in PIC!Sources /\ Me \in PIC!Shared /\ Me # PIC!Timer
    /\ Me[1] = Line /\ Me[2] = Dev
    /\ PIC!NoCpu \notin PIC!Cpus
<1>1. Me \in PIC!Shared
  BY DEF Me, PIC!Shared
<1>2. Me # PIC!Timer
  BY DEF Me, PIC!Timer, Line
<1>3. Me[1] = Line /\ Me[2] = Dev
  BY DEF Me
<1>4. PIC!NoCpu \notin PIC!Cpus
  BY DEF PIC!NoCpu, PIC!Cpus
<1> QED
  BY <1>1, <1>2, <1>3, <1>4 DEF PIC!Sources

LEMMA RequestStep ==
    ASSUME FixedRouting, ControllerInv, IntReq
    PROVE  ControllerInv' /\ lastTarget'[Me] # PIC!NoCpu
<1> DEFINE d == route[Me].dest
<1>1. route[Me].policy = "FIXED" /\ d \in PIC!Cpus
  BY SourceFacts DEF ControllerInv, ControllerTyped
<1>2. d < NCpus
  BY <1>1 DEF PIC!Cpus, FixedRouting
<1>3. PIC!Deliver(Me, d) /\ route' = route
  BY <1>1, <1>2, SourceFacts DEF IntReq, PIC!StartIRQ, PIC!Routed
<1> HIDE DEF d
<1>4. /\ lastTarget' = [lastTarget EXCEPT ![Me] = d]
      /\ idb' = [idb EXCEPT ![d][Line] = idb[d][Line] \cup {Dev}]
  BY <1>3, SourceFacts DEF PIC!Deliver
<1>5. lastTarget' \in [PIC!Sources -> PIC!Cpus \cup {PIC!NoCpu}] /\ lastTarget'[Me] = d
  BY <1>1, <1>4, SourceFacts DEF ControllerInv, ControllerTyped
<1>6. /\ idb' \in [PIC!Cpus -> [{Line} -> SUBSET {Dev}]]
      /\ \A c \in PIC!Cpus : c # d => idb'[c] = idb[c]
  BY <1>1, <1>4 DEF ControllerInv, ControllerTyped
<1>7. lastTarget[Me] = PIC!NoCpu \/ lastTarget[Me] = d
  BY DEF ControllerInv, TargetIsRouted, d
<1>8. OnlyAtTarget'
  BY <1>5, <1>6, <1>7, SourceFacts DEF ControllerInv, OnlyAtTarget
<1>9. TargetIsRouted'
  BY <1>3, <1>5 DEF TargetIsRouted, d
<1>10. ControllerTyped'
  BY <1>3, <1>5, <1>6 DEF ControllerInv, ControllerTyped
<1> QED
  BY <1>1, <1>5, <1>8, <1>9, <1>10, SourceFacts DEF ControllerInv

LEMMA AckStep ==
    ASSUME FixedRouting, ControllerInv, IntAck
    PROVE  ControllerInv' /\ lastTarget'[Me] = PIC!NoCpu
<1>1. CASE lastTarget[Me] = PIC!NoCpu
  <2>1. UNCHANGED <<route, lastTarget, idb>>
    BY <1>1 DEF IntAck, picVars
  <2> QED
    BY <1>1, <2>1 DEF ControllerInv, ControllerTyped, TargetIsRouted, OnlyAtTarget
<1>2. CASE lastTarget[Me] # PIC!NoCpu
  <2> DEFINE d == lastTarget[Me]
  <2>1. d \in PIC!Cpus
    BY <1>2, SourceFacts DEF ControllerInv, ControllerTyped
  <2>2. /\ lastTarget' = [lastTarget EXCEPT ![Me] = PIC!NoCpu]
        /\ idb' = [idb EXCEPT ![d][Line] = idb[d][Line] \ {Dev}]
        /\ route' = route
    BY <1>2, SourceFacts DEF IntAck, PIC!EndIRQ, PIC!AckTarget, PIC!ForgetTarget
  <2>3. \A c \in PIC!Cpus : Dev \in idb[c][Line] => c = d
    BY DEF ControllerInv, OnlyAtTarget
  <2> HIDE DEF d
  <2>4. /\ lastTarget' \in [PIC!Sources -> PIC!Cpus \cup {PIC!NoCpu}]
        /\ lastTarget'[Me] = PIC!NoCpu
    BY <2>2, SourceFacts DEF ControllerInv, ControllerTyped
  <2>5. /\ idb' \in [PIC!Cpus -> [{Line} -> SUBSET {Dev}]]
        /\ Dev \notin idb'[d][Line]
        /\ \A c \in PIC!Cpus : c # d => idb'[c] = idb[c]
    BY <2>1, <2>2 DEF ControllerInv, ControllerTyped
  <2>6. OnlyAtTarget'
    BY <2>3, <2>5 DEF OnlyAtTarget
  <2> QED
    BY <2>2, <2>4, <2>5, <2>6 DEF ControllerInv, ControllerTyped, TargetIsRouted
<1> QED
  BY <1>1, <1>2

(* A step that does not touch the controller. *)
LEMMA ControllerUnchanged ==
    ASSUME ControllerInv, UNCHANGED picVars
    PROVE  ControllerInv' /\ lastTarget' = lastTarget
  BY DEF ControllerInv, ControllerTyped, TargetIsRouted, OnlyAtTarget, picVars

LEMMA AckUnlessSharedStep ==
    ASSUME FixedRouting, ControllerInv, RequestFollowsPending,
           NEW x \in Halves, AckUnlessShared(x)
    PROVE  /\ ControllerInv'
           /\ lastTarget'[Me] # PIC!NoCpu <=> Pending(Other(x))
<1>1. CASE MayAcknowledge(x)
  BY <1>1, AckStep DEF AckUnlessShared, MayAcknowledge
<1>2. CASE ~MayAcknowledge(x)
  <2>1. Other(x) \in Halves
    BY DEF Other, Halves
  <2>2. UNCHANGED picVars /\ Pending(Other(x))
    BY <1>2 DEF AckUnlessShared, MayAcknowledge
  <2> QED
    BY <2>1, <2>2, ControllerUnchanged DEF RequestFollowsPending
<1> QED
  BY <1>1, <1>2

(* Who is pending, after one half changed. *)
LEMMA PendingAfter ==
    ASSUME DeviceInv, NEW x \in Halves, NEW h, half' = [half EXCEPT ![x] = h]
    PROVE  (\E y \in Halves : Pending(y))' <=> (h.intPend \/ Pending(Other(x)))
<1>1. half \in [Halves -> HalfState]
  BY DEF DeviceInv, TypeOK, HalfState
<1>2. Other(x) \in Halves /\ \A y \in Halves : y = x \/ y = Other(x)
  BY DEF Other, Halves
<1>3. Other(x) # x
  BY DEF Other, Halves
<1>4. half'[x] = h /\ half'[Other(x)] = half[Other(x)]
  BY <1>1, <1>2, <1>3
<1> QED
  BY <1>2, <1>4 DEF Pending

RequestInv == ControllerInv /\ RequestFollowsPending

LEMMA InitRequestInv == FixedRouting /\ Init => RequestInv
<1> SUFFICES ASSUME FixedRouting, Init PROVE RequestInv
  OBVIOUS
<1>1. 0 \in PIC!Cpus
  BY DEF FixedRouting, PIC!Cpus
<1>2. /\ route = [s \in PIC!Sources |-> PIC!DefaultRoute]
      /\ lastTarget = [s \in PIC!Sources |-> PIC!NoCpu]
      /\ idb = [c \in PIC!Cpus |-> [l \in {Line} |-> {}]]
      /\ \A x \in Halves : ~Pending(x)
  BY DEF Init, Pending
<1>3. PIC!DefaultRoute \in [policy : {"FIXED"}, dest : PIC!Cpus]
  BY <1>1 DEF PIC!DefaultRoute
<1>4. ControllerTyped
  BY <1>2, <1>3 DEF ControllerTyped
<1>5. lastTarget[Me] = PIC!NoCpu /\ \A c \in PIC!Cpus : Dev \notin idb[c][Line]
  BY <1>2, SourceFacts
<1> QED
  BY <1>2, <1>4, <1>5 DEF RequestInv, ControllerInv, TargetIsRouted, OnlyAtTarget,
     RequestFollowsPending

(* The steps that acknowledge: the request goes exactly if nobody needs it. *)
LEMMA AcceptedCommand ==
    ASSUME DeviceInv, FixedRouting, RequestInv, NEW x \in Halves, AckUnlessShared(x),
           NEW h, half' = [half EXCEPT ![x] = h], h.intPend = FALSE
    PROVE  RequestInv'
<1>1. (\E y \in Halves : Pending(y))' <=> Pending(Other(x))
  BY PendingAfter
<1>2. ControllerInv' /\ (lastTarget'[Me] # PIC!NoCpu <=> Pending(Other(x)))
  BY AckUnlessSharedStep DEF RequestInv
<1> QED
  BY <1>1, <1>2 DEF RequestInv, RequestFollowsPending

(* The steps that ask for attention. *)
LEMMA NewRequest ==
    ASSUME DeviceInv, FixedRouting, RequestInv, NEW x \in Halves, IntReq,
           NEW h, half' = [half EXCEPT ![x] = h], h.intPend = TRUE
    PROVE  RequestInv'
<1>1. (\E y \in Halves : Pending(y))'
  BY PendingAfter
<1>2. ControllerInv' /\ lastTarget'[Me] # PIC!NoCpu
  BY RequestStep DEF RequestInv
<1> QED
  BY <1>1, <1>2 DEF RequestInv, RequestFollowsPending

LEMMA NothingRequested ==
    ASSUME RequestInv, UNCHANGED picVars, \A x \in Halves : Pending(x)' = Pending(x)
    PROVE  RequestInv'
  BY ControllerUnchanged DEF RequestInv, RequestFollowsPending

(* While the table is written nothing is to be acknowledged. *)
LEMMA RerouteStep ==
    ASSUME DeviceInv, FixedRouting, RequestInv, NEW r \in Routes, Reroute(r)
    PROVE  RequestInv'
<1>1. /\ \A x \in Halves : ~Pending(x)
      /\ route' = [route EXCEPT ![Me] = r]
      /\ UNCHANGED <<lastTarget, idb, half>>
  BY DEF Reroute, FixedRouting, PIC!WriteIRT, PIC!cpuVars, deviceVars
<1>2. lastTarget[Me] = PIC!NoCpu
  BY <1>1 DEF RequestInv, RequestFollowsPending
<1>3. r \in [policy : {"FIXED"}, dest : PIC!Cpus]
  BY DEF FixedRouting
<1>4. ControllerTyped'
  BY <1>1, <1>3 DEF RequestInv, ControllerInv, ControllerTyped
<1>5. TargetIsRouted' /\ OnlyAtTarget'
  BY <1>1, <1>2 DEF RequestInv, ControllerInv, TargetIsRouted, OnlyAtTarget
<1>6. RequestFollowsPending'
  BY <1>1 DEF RequestInv, RequestFollowsPending, Pending
<1> QED
  BY <1>4, <1>5, <1>6 DEF RequestInv, ControllerInv

LEMMA StepRequestInv ==
    ASSUME DeviceInv, FixedRouting, RequestInv, [Next]_vars PROVE RequestInv'
<1>1. half \in [Halves -> HalfState]
  BY DEF DeviceInv, TypeOK, HalfState
<1>2. ASSUME NEW x \in Halves, NEW command \in Operations, Start(x, command)
      PROVE  RequestInv'
  <2> DEFINE h == [status |-> "BUSY", command |-> command, intPend |-> FALSE,
                   left |-> Duration(x, command)]
  <2>1. AckUnlessShared(x) /\ half' = [half EXCEPT ![x] = h]
    BY <1>2 DEF Start
  <2>2. h.intPend = FALSE
    OBVIOUS
  <2> HIDE DEF h
  <2> QED
    BY <2>1, <2>2, AcceptedCommand
<1>3. ASSUME NEW x \in Halves, Acknowledge(x) PROVE RequestInv'
  <2> DEFINE h == [half[x] EXCEPT !.status = "READY", !.command = "ACK", !.intPend = FALSE]
  <2>1. AckUnlessShared(x) /\ half' = [half EXCEPT ![x] = h]
    BY <1>3 DEF Acknowledge
  <2>2. h.intPend = FALSE
    BY <1>1 DEF HalfState
  <2> HIDE DEF h
  <2> QED
    BY <2>1, <2>2, AcceptedCommand
<1>4. ASSUME NEW x \in Halves, Refuse(x) PROVE RequestInv'
  <2> DEFINE h == [half[x] EXCEPT !.status = "ILOPERR", !.command = "unknown",
                                  !.intPend = TRUE]
  <2>1. IntReq /\ half' = [half EXCEPT ![x] = h]
    BY <1>4 DEF Refuse
  <2>2. h.intPend = TRUE
    BY <1>1 DEF HalfState
  <2> HIDE DEF h
  <2> QED
    BY <2>1, <2>2, NewRequest
<1>5. ASSUME Complete PROVE RequestInv'
  <2> DEFINE x == Completing
             h == [half[x] EXCEPT !.status = Outcome(x), !.intPend = TRUE, !.left = 0]
  <2>1. IntReq /\ half' = [half EXCEPT ![x] = h]
    BY <1>5 DEF Complete
  <2>2. x \in Halves
    BY <1>5, CompletingFacts DEF Complete
  <2> HIDE DEF x
  <2>3. h.intPend = TRUE
    BY <1>1, <2>2 DEF HalfState
  <2> HIDE DEF h
  <2> QED
    BY <2>1, <2>2, <2>3, NewRequest
<1>6. ASSUME Poll PROVE RequestInv'
  <2>1. half' = [half EXCEPT !["recv"].left = RECVCHRTIME] /\ UNCHANGED picVars
    BY <1>6 DEF Poll
  <2>2. \A x \in Halves : Pending(x)' = Pending(x)
    BY <1>1, <2>1 DEF Pending, HalfState, Halves
  <2> QED
    BY <2>1, <2>2, NothingRequested
<1>7. ASSUME Elapse PROVE RequestInv'
  <2>1. UNCHANGED picVars /\ \A x \in Halves : half'[x].intPend = half[x].intPend
    BY <1>1, <1>7 DEF Elapse, HalfState
  <2> QED
    BY <2>1, NothingRequested DEF Pending
<1>8. ASSUME UNCHANGED deviceVars, UNCHANGED picVars PROVE RequestInv'
  BY <1>8, NothingRequested DEF deviceVars, Pending
<1>9. ASSUME NEW line \in InputLines, Input(line)
      PROVE  UNCHANGED deviceVars /\ UNCHANGED picVars
  BY <1>9 DEF Input
<1>10. ASSUME NEW working \in BOOLEAN, SetCondition(working)
       PROVE  UNCHANGED deviceVars /\ UNCHANGED picVars
  BY <1>10 DEF SetCondition
<1>11. ASSUME UNCHANGED vars PROVE UNCHANGED deviceVars /\ UNCHANGED picVars
  BY <1>11 DEF vars
<1> QED
  BY <1>2, <1>3, <1>4, <1>5, <1>6, <1>7, <1>8, <1>9, <1>10, <1>11, RerouteStep
  DEF Next, CompleteDevOp

THEOREM RequestInvariant == FixedRouting => (Spec => []RequestInv)
<1> SUFFICES ASSUME FixedRouting PROVE Spec => []RequestInv
  OBVIOUS
<1>1. Init => RequestInv
  BY InitRequestInv
<1>2. IInv /\ RequestInv /\ [Next]_vars => RequestInv'
  BY StepRequestInv DEF IInv
<1> QED
  BY <1>1, <1>2, TerminalInvariant, PTL DEF Spec

(* Under routes to one core each, written while nothing is pending, the
   source waits for an acknowledgement exactly while a half does. *)
THEOREM RequestsFollowPending == FixedRouting => (Spec => []RequestFollowsPending)
<1>1. RequestInv => RequestFollowsPending
  BY DEF RequestInv
<1> QED
  BY <1>1, RequestInvariant, PTL

(* Under the same routes no core sees an interrupt of a terminal whose two
   halves have been answered. *)
THEOREM TerminalQuiet == FixedRouting => (Spec => []QuietWhenAcknowledged)
<1>1. RequestInv => QuietWhenAcknowledged
  BY SourceFacts DEF RequestInv, ControllerInv, OnlyAtTarget, RequestFollowsPending,
     QuietWhenAcknowledged
<1> QED
  BY <1>1, RequestInvariant, PTL

(* The one source serves both halves. *)
THEOREM SourceIsShared == FixedRouting => (Spec => []SharedSourceInv)
  BY RequestsFollowPending, TerminalQuiet, PTL DEF SharedSourceInv

-----------------------------------------------------------------------------
(* Each half is a device. *)

(* What a driver of half x sees of a step. *)
HalfUnchanged(x) == Busy(x)' = Busy(x) /\ Pending(x)' = Pending(x)
HalfAccepts(x)   == ~Busy(x) /\ Busy(x)' /\ ~Pending(x)'
HalfAnswers(x)   == ~Busy(x) /\ ~Busy(x)'
HalfCompletes(x) == Busy(x) /\ ~Busy(x)' /\ Pending(x)'
HalfSteps(x) == HalfUnchanged(x) \/ HalfAccepts(x) \/ HalfAnswers(x) \/ HalfCompletes(x)

(* A step that changes half x and leaves the other as it was. *)
LEMMA OtherHalf ==
    ASSUME DeviceTyped, NEW x \in Halves, NEW h, half' = [half EXCEPT ![x] = h]
    PROVE  half'[x] = h /\ \A y \in Halves : y # x => HalfUnchanged(y)
BY DEF DeviceTyped, HalfUnchanged, Busy, Pending

LEMMA HalvesStep ==
    ASSUME IInv, [Next]_vars
    PROVE  \A x \in Halves : HalfSteps(x)
<1>1. DeviceTyped /\ DeviceInv
  BY TypeParts DEF IInv, DeviceInv
<1>2. CASE UNCHANGED half
  BY <1>2 DEF HalfSteps, HalfUnchanged, Busy, Pending
<1>3. ASSUME NEW x \in Halves, NEW command \in Operations, Start(x, command)
      PROVE  \A y \in Halves : HalfSteps(y)
  <2> DEFINE h == [status |-> "BUSY", command |-> command, intPend |-> FALSE,
                   left |-> Duration(x, command)]
  <2>1. ~Busy(x) /\ half' = [half EXCEPT ![x] = h]
    BY <1>3 DEF Start, Accepts
  <2>2. h.status = "BUSY" /\ ~h.intPend
    OBVIOUS
  <2> HIDE DEF h
  <2>3. half'[x] = h /\ \A y \in Halves : y # x => HalfUnchanged(y)
    BY <1>1, <2>1, OtherHalf
  <2>4. HalfAccepts(x)
    BY <2>1, <2>2, <2>3 DEF HalfAccepts, Busy, Pending
  <2> QED
    BY <2>3, <2>4 DEF HalfSteps
<1>4. ASSUME NEW x \in Halves, Acknowledge(x) \/ Refuse(x)
      PROVE  \A y \in Halves : HalfSteps(y)
  <2>1. PICK h : half' = [half EXCEPT ![x] = h] /\ h.status \in {"READY", "ILOPERR"}
    <3>1. half[x] \in HalfState
      BY <1>1 DEF DeviceTyped
    <3>2. CASE Acknowledge(x)
      <4> DEFINE h == [half[x] EXCEPT !.status = "READY", !.command = "ACK",
                                      !.intPend = FALSE]
      <4>1. half' = [half EXCEPT ![x] = h]
        BY <3>2 DEF Acknowledge
      <4>2. h.status = "READY"
        BY <3>1 DEF HalfState
      <4> QED
        BY <4>1, <4>2
    <3>3. CASE Refuse(x)
      <4> DEFINE h == [half[x] EXCEPT !.status = "ILOPERR", !.command = "unknown",
                                      !.intPend = TRUE]
      <4>1. half' = [half EXCEPT ![x] = h]
        BY <3>3 DEF Refuse
      <4>2. h.status = "ILOPERR"
        BY <3>1 DEF HalfState
      <4> QED
        BY <4>1, <4>2
    <3> QED
      BY <1>4, <3>2, <3>3
  <2>2. ~Busy(x)
    BY <1>4 DEF Acknowledge, Refuse, Accepts
  <2>3. half'[x] = h /\ \A y \in Halves : y # x => HalfUnchanged(y)
    BY <1>1, <2>1, OtherHalf
  <2>4. HalfAnswers(x)
    BY <2>1, <2>2, <2>3 DEF HalfAnswers, Busy
  <2> QED
    BY <2>3, <2>4 DEF HalfSteps
<1>5. CASE Poll
  BY <1>1, <1>5 DEF Poll, DeviceTyped, HalfSteps, HalfUnchanged, Busy, Pending, Halves,
                    HalfState
<1>6. CASE Complete
  <2> PICK x \in Halves : x = Completing
    BY <1>1, <1>6, CompletingFacts DEF Complete
  <2> DEFINE h == [half[x] EXCEPT !.status = Outcome(x), !.intPend = TRUE, !.left = 0]
  <2>1. x \in Halves /\ Busy(x)
    BY <1>1, <1>6, CompletingFacts DEF Complete
  <2>2. half' = [half EXCEPT ![x] = h]
    BY <1>6 DEF Complete
  <2>3. h.status # "BUSY" /\ h.intPend
    <3>1. half[x] \in HalfState
      BY <1>1, <2>1 DEF DeviceTyped
    <3>2. Outcome(x) # "BUSY"
      BY DEF Outcome
    <3> QED
      BY <3>1, <3>2 DEF HalfState
  <2> HIDE DEF h
  <2>4. half'[x] = h /\ \A y \in Halves : y # x => HalfUnchanged(y)
    BY <1>1, <2>1, <2>2, OtherHalf
  <2>5. HalfCompletes(x)
    BY <2>1, <2>3, <2>4 DEF HalfCompletes, Busy, Pending
  <2> QED
    BY <2>4, <2>5 DEF HalfSteps
<1>7. CASE Elapse
  <2>1. \A x \in Halves : half'[x].status = half[x].status
                          /\ half'[x].intPend = half[x].intPend
    BY <1>1, <1>7 DEF Elapse, DeviceTyped, HalfState
  <2> QED
    BY <2>1 DEF HalfSteps, HalfUnchanged, Busy, Pending
<1> QED
  BY <1>2, <1>3, <1>4, <1>5, <1>6, <1>7
     DEF Next, CompleteDevOp, Input, SetCondition, Reroute, vars, deviceVars

(* For any durations, routes and input, whichever of the two the handler
   completes: each half takes a command only when it is not busy, and ends
   each operation with a request for attention. *)
THEOREM TerminalImplementsDevices == Spec => ImplementsDevices
<1>1. Init => Receiver!Init /\ Transmitter!Init
  BY DEF Init, Receiver!Init, Transmitter!Init, Busy, Pending, Halves
<1>2. IInv /\ [Next]_vars =>
        /\ [Receiver!Next]_(Receiver!vars)
        /\ [Transmitter!Next]_(Transmitter!vars)
  <2> SUFFICES ASSUME IInv, [Next]_vars
               PROVE  /\ [Receiver!Next]_(Receiver!vars)
                      /\ [Transmitter!Next]_(Transmitter!vars)
    OBVIOUS
  <2>1. HalfSteps("recv") /\ HalfSteps("tran")
    BY HalvesStep DEF Halves
  <2>2. [Receiver!Next]_(Receiver!vars)
    BY <2>1, Zenon DEF HalfSteps, HalfUnchanged, HalfAccepts, HalfAnswers, HalfCompletes,
       Receiver!Next, Receiver!vars, Receiver!Accept, Receiver!Acknowledge,
       Receiver!Refuse, Receiver!Complete
  <2>3. [Transmitter!Next]_(Transmitter!vars)
    BY <2>1, Zenon DEF HalfSteps, HalfUnchanged, HalfAccepts, HalfAnswers, HalfCompletes,
       Transmitter!Next, Transmitter!vars, Transmitter!Accept, Transmitter!Acknowledge,
       Transmitter!Refuse, Transmitter!Complete
  <2> QED
    BY <2>2, <2>3
<1> QED
  BY <1>1, <1>2, TerminalInvariant, PTL
     DEF Spec, ImplementsDevices, Receiver!Spec, Transmitter!Spec

-----------------------------------------------------------------------------
(* The Ethernet interface, for every size of its queue and any traffic.  That
   there is one event for the poll and one for the operation is what makes
   the handler's guess harmless: it is only called for an operation while one
   is in progress, and a command that is in progress is always one the
   handler has a case for.  EthInv combines both. *)

EthInv ==
    /\ Eth!NetAssumption
    /\ Eth!TypeOK
    /\ Eth!OneEventEach
    /\ Eth!PendingIsThere
    /\ Eth!PollsWhenEmpty
    /\ Eth!Busy => netCommand \in Eth!Operations

LEMMA EthInitInv ==
    ASSUME Eth!NetAssumption, Eth!Init
    PROVE  EthInv
<1>1. Eth!RegistersOK
  BY DEF Eth!Init, Eth!RegistersOK, Eth!Commands, Eth!Operations, Eth!Data0,
      Eth!Lengths
<1>2. Eth!FlagsOK
  BY DEF Eth!Init, Eth!FlagsOK
<1>3. Eth!CountsOK
  BY DEF Eth!Init, Eth!CountsOK, Eth!NetAssumption
<1>4. ~Eth!Busy /\ Eth!OneEventEach /\ Eth!PendingIsThere /\ Eth!PollsWhenEmpty
  BY DEF Eth!Init, Eth!OneEventEach, Eth!PendingIsThere, Eth!PollsWhenEmpty,
      Eth!Busy, Eth!One, Eth!READY, Eth!BUSY
<1> QED
  BY <1>1, <1>2, <1>3, <1>4 DEF EthInv, Eth!TypeOK

-----------------------------------------------------------------------------
(* Commands *)

LEMMA EthBeginStep ==
    ASSUME EthInv, NEW c \in Eth!Operations, Eth!Begin(c)
    PROVE  EthInv'
<1>1. /\ ~Eth!Busy /\ netStatus' = Eth!BUSY /\ netCommand' = c /\ netRequest' = FALSE
      /\ netEvents' = netEvents + 1
      /\ UNCHANGED <<readPending, data0, data1, polling, Eth!netVars, netWorking>>
  BY DEF Eth!Begin, Eth!Accepts, Eth!Scheduled
<1>2. Eth!RegistersOK' /\ Eth!FlagsOK'
  BY <1>1 DEF EthInv, Eth!TypeOK, Eth!RegistersOK, Eth!FlagsOK, Eth!netVars,
      Eth!Commands
<1>3. Eth!CountsOK'
  BY <1>1 DEF EthInv, Eth!TypeOK, Eth!CountsOK, Eth!netVars
<1>4. Eth!OneEventEach'
  BY <1>1 DEF EthInv, Eth!OneEventEach, Eth!One, Eth!Busy
<1>5. Eth!PendingIsThere' /\ Eth!PollsWhenEmpty' /\ (Eth!Busy => netCommand \in Eth!Operations)'
  BY <1>1 DEF EthInv, Eth!PendingIsThere, Eth!PollsWhenEmpty, Eth!Busy, Eth!netVars
<1> QED
  BY <1>2, <1>3, <1>4, <1>5 DEF EthInv, Eth!TypeOK

(* A step of an idle device that leaves it idle, its events and its network
   alone. *)
LEMMA EthIdleStep ==
    ASSUME EthInv, ~Eth!Busy, ~Eth!Busy',
           UNCHANGED <<readPending, polling, netEvents, interrupts, netQueue, wire,
                       netWorking>>,
           Eth!RegistersOK', netRequest' \in BOOLEAN
    PROVE  EthInv'
<1>1. Eth!FlagsOK' /\ Eth!CountsOK'
  BY DEF EthInv, Eth!TypeOK, Eth!FlagsOK, Eth!CountsOK
<1> QED
  BY <1>1 DEF EthInv, Eth!TypeOK, Eth!OneEventEach, Eth!PendingIsThere,
      Eth!PollsWhenEmpty, Eth!One

LEMMA EthCommandStep ==
    ASSUME EthInv,
           \/ Eth!Acknowledge
           \/ Eth!Refuse
           \/ \E d \in Eth!Data0 : Eth!WriteData0(d)
           \/ \E d \in Eth!Lengths : Eth!WriteData1(d)
    PROVE  EthInv'
<1>1. CASE Eth!Acknowledge
  <2>1. ~Eth!Busy /\ netStatus' = Eth!READY /\ netCommand' = "ACK" /\ netRequest' \in BOOLEAN
    BY <1>1 DEF Eth!Acknowledge, Eth!Accepts
  <2>2. ~Eth!Busy'
    BY <2>1 DEF Eth!Busy, Eth!READY, Eth!BUSY
  <2>3. Eth!RegistersOK /\ UNCHANGED <<data0, data1>>
    BY <1>1 DEF Eth!Acknowledge, EthInv, Eth!TypeOK
  <2>4. Eth!RegistersOK'
    BY <2>1, <2>3 DEF Eth!RegistersOK, Eth!Commands
  <2> QED
    BY <1>1, <2>1, <2>2, <2>4, EthIdleStep DEF Eth!Acknowledge, Eth!netVars
<1>2. CASE Eth!Refuse
  <2>1. Eth!RegistersOK' /\ ~Eth!Busy /\ ~Eth!Busy' /\ netRequest' \in BOOLEAN
    BY <1>2 DEF Eth!Refuse, Eth!Accepts, EthInv, Eth!TypeOK, Eth!RegistersOK,
        Eth!FlagsOK, Eth!Commands,
                Eth!Operations, Eth!Busy, Eth!ILOPERR, Eth!DDMAERR, Eth!BUSY
  <2> QED
    BY <1>2, <2>1, EthIdleStep DEF Eth!Refuse, Eth!netVars
<1>3. CASE \E d \in Eth!Data0 : Eth!WriteData0(d)
  <2>1. Eth!RegistersOK' /\ ~Eth!Busy /\ ~Eth!Busy' /\ netRequest' \in BOOLEAN
    BY <1>3 DEF Eth!WriteData0, Eth!Accepts, EthInv, Eth!TypeOK, Eth!RegistersOK,
        Eth!FlagsOK, Eth!Busy
  <2> QED
    BY <1>3, <2>1, EthIdleStep DEF Eth!WriteData0, Eth!netVars
<1>4. CASE \E d \in Eth!Lengths : Eth!WriteData1(d)
  <2>1. Eth!RegistersOK' /\ ~Eth!Busy /\ ~Eth!Busy' /\ netRequest' \in BOOLEAN
    BY <1>4 DEF Eth!WriteData1, Eth!Accepts, EthInv, Eth!TypeOK, Eth!RegistersOK,
        Eth!FlagsOK, Eth!Busy
  <2> QED
    BY <1>4, <2>1, EthIdleStep DEF Eth!WriteData1, Eth!netVars
<1> QED
  BY <1>1, <1>2, <1>3, <1>4

-----------------------------------------------------------------------------
(* The interface *)

(* The queue never holds more than it may. *)
LEMMA KeptFits ==
    ASSUME Eth!NetAssumption, NEW n \in Nat
    PROVE  Eth!Kept(n) \in 0..MAXNETQUEUE /\ (n > 0 => Eth!Kept(n) > 0)
BY DEF Eth!NetAssumption, Eth!Kept

LEMMA NetworkType ==
    ASSUME Eth!NetAssumption, Eth!TypeOK, Eth!Receive \/ Eth!Take
    PROVE  netQueue' \in 0..MAXNETQUEUE /\ wire' \in 0..MaxWire
<1>1. /\ netQueue \in Nat /\ netQueue <= MAXNETQUEUE /\ wire \in Nat
      /\ MAXNETQUEUE \in Nat /\ MaxWire \in Nat
  BY DEF Eth!TypeOK, Eth!CountsOK, Eth!NetAssumption
<1>2. wire' = 0
  BY DEF Eth!Receive, Eth!Take
<1>3. CASE Eth!Receive
  <2>1. netQueue + wire \in Nat
    BY <1>1
  <2> QED
    BY <1>1, <1>2, <1>3, <2>1, KeptFits DEF Eth!Receive
<1>4. CASE Eth!Take
  <2>1. CASE netQueue > 0
    <3>1. netQueue - 1 + wire \in Nat
      BY <1>1, <2>1
    <3> QED
      BY <1>1, <1>2, <1>4, <2>1, <3>1, KeptFits DEF Eth!Take
  <2>2. CASE ~(netQueue > 0) /\ wire > 0
    <3>1. Eth!Kept(wire) \in 0..MAXNETQUEUE /\ Eth!Kept(wire) > 0
      BY <1>1, <2>2, KeptFits
    <3>2. netQueue' = Eth!Kept(wire) - 1
      BY <1>4, <2>2 DEF Eth!Take
    <3> QED
      BY <1>1, <1>2, <3>1, <3>2
  <2>3. CASE ~(netQueue > 0) /\ ~(wire > 0)
    BY <1>1, <1>2, <1>4, <2>3 DEF Eth!Take
  <2> QED
    BY <2>1, <2>2, <2>3
<1> QED
  BY <1>3, <1>4

-----------------------------------------------------------------------------
(* The handler *)

LEMMA EthPollStep ==
    ASSUME EthInv, Eth!Poll
    PROVE  EthInv'
<1>1. /\ ~Eth!Busy /\ polling = TRUE /\ netEvents = 1
      /\ UNCHANGED <<netStatus, netCommand, data0, data1, interrupts, netWorking>>
      /\ netEvents' = IF polling' THEN netEvents ELSE netEvents - 1
  BY DEF Eth!Poll, EthInv, Eth!TypeOK, Eth!FlagsOK, Eth!OneEventEach, Eth!One
<1>2. ~Eth!Busy'
  BY <1>1 DEF Eth!Busy
<1>3. CASE readPending
  <2>1. UNCHANGED <<netQueue, wire, readPending, netRequest>> /\ polling' = FALSE
    BY <1>3 DEF Eth!Poll
  <2>2. Eth!RegistersOK' /\ Eth!FlagsOK'
    BY <1>1, <2>1 DEF EthInv, Eth!TypeOK, Eth!RegistersOK, Eth!FlagsOK
  <2>3. netEvents' = 0
    BY <1>1, <2>1
  <2>4. Eth!CountsOK' /\ Eth!OneEventEach'
    BY <1>2, <2>1, <2>3 DEF EthInv, Eth!TypeOK, Eth!CountsOK, Eth!OneEventEach,
        Eth!One
  <2>5. netQueue > 0 /\ netQueue \in Nat
    BY <1>3 DEF Eth!NetAssumption, EthInv, Eth!TypeOK, Eth!CountsOK,
        Eth!PendingIsThere
  <2>6. Eth!PendingIsThere' /\ Eth!PollsWhenEmpty'
    BY <2>1, <2>5 DEF Eth!PendingIsThere, Eth!PollsWhenEmpty
  <2> QED
    BY <1>2, <2>2, <2>4, <2>6 DEF EthInv, Eth!TypeOK
<1>4. CASE ~readPending
  <2>1. /\ Eth!Receive
        /\ readPending' = (netQueue' > 0)
        /\ netRequest' = (netRequest \/ netQueue' > 0)
        /\ polling' = (interrupts /\ netQueue' = 0)
    BY <1>4 DEF Eth!Poll
  <2>2. netQueue' \in 0..MAXNETQUEUE /\ wire' \in 0..MaxWire
    BY <2>1, NetworkType DEF EthInv
  <2>3. readPending' \in BOOLEAN /\ netRequest' \in BOOLEAN /\ polling' \in BOOLEAN
    BY <2>1
  <2>4. Eth!RegistersOK' /\ Eth!FlagsOK'
    BY <1>1, <2>3 DEF EthInv, Eth!TypeOK, Eth!RegistersOK, Eth!FlagsOK
  <2>5. Eth!CountsOK' /\ Eth!OneEventEach'
    BY <1>1, <1>2, <2>2, <2>3 DEF Eth!CountsOK, Eth!OneEventEach, Eth!One
  <2>6. Eth!PendingIsThere' /\ Eth!PollsWhenEmpty'
    BY <1>1, <2>1, <2>2 DEF EthInv, Eth!NetAssumption, Eth!PendingIsThere,
        Eth!PollsWhenEmpty
  <2> QED
    BY <1>2, <2>4, <2>5, <2>6 DEF EthInv, Eth!TypeOK
<1> QED
  BY <1>3, <1>4

(* The handler takes an event for the end of an operation only while one is
   in progress. *)
LEMMA OnlyBusyEnds ==
    ASSUME EthInv, Eth!Ends
    PROVE  Eth!Busy /\ netCommand \in Eth!Operations /\ netEvents = 1 + Eth!One(polling)
BY DEF EthInv, Eth!Ends, Eth!OneEventEach, Eth!One, Eth!TypeOK, Eth!FlagsOK

(* The common end of all operations keeps everything but the types of what
   the operation itself has changed. *)
LEMMA EthFinishStep ==
    ASSUME EthInv, Eth!Ends,
           NEW s \in {Eth!READY, Eth!DREADERR, Eth!DWRITERR, Eth!DDMAERR,
               Eth!FDMAERR},
           NEW waiting \in BOOLEAN,
           Eth!Finish(s, waiting), interrupts' \in BOOLEAN,
           netQueue' = 0 => ~waiting
    PROVE  /\ netStatus' = s /\ ~Eth!Busy' /\ netRequest' = TRUE
           /\ polling' \in BOOLEAN /\ netEvents' \in Nat
           /\ UNCHANGED <<netCommand, netWorking>>
           /\ Eth!OneEventEach' /\ Eth!PollsWhenEmpty'
<1> DEFINE starts == Eth!StartsPoll(interrupts', waiting)
<1>1. /\ netStatus' = s /\ netRequest' = TRUE
      /\ polling' = (polling \/ starts)
      /\ netEvents' = IF starts THEN netEvents ELSE netEvents - 1
      /\ UNCHANGED <<netCommand, netWorking>>
  BY DEF Eth!Finish
<1>2. ~Eth!Busy'
  BY <1>1 DEF Eth!Busy, Eth!READY, Eth!DREADERR, Eth!DWRITERR, Eth!DDMAERR,
      Eth!FDMAERR, Eth!BUSY
<1>3. polling \in BOOLEAN /\ starts \in BOOLEAN /\ (starts => ~polling)
  BY DEF EthInv, Eth!TypeOK, Eth!FlagsOK, Eth!StartsPoll
<1>4. netEvents = 1 + Eth!One(polling)
  BY OnlyBusyEnds
<1>5. Eth!PollsWhenEmpty'
  BY <1>1 DEF Eth!PollsWhenEmpty, Eth!StartsPoll
<1> HIDE DEF starts
<1>6. polling' \in BOOLEAN /\ netEvents' = Eth!One(polling')
  BY <1>1, <1>3, <1>4 DEF Eth!One
<1>7. Eth!OneEventEach'
  BY <1>2, <1>6 DEF Eth!OneEventEach, Eth!One
<1>8. netEvents' \in Nat
  BY <1>6 DEF Eth!One
<1> QED
  BY <1>1, <1>2, <1>5, <1>6, <1>7, <1>8

(* Operations that leave the packets alone. *)
LEMMA EthQuietEndStep ==
    ASSUME EthInv, Eth!Ends,
           NEW s \in {Eth!READY, Eth!DREADERR, Eth!DWRITERR, Eth!DDMAERR,
               Eth!FDMAERR},
           Eth!Finish(s, readPending), interrupts' \in BOOLEAN,
           UNCHANGED <<readPending, netQueue, wire>>,
           data0' \in Eth!Data0, data1' \in Eth!Lengths
    PROVE  EthInv' /\ ~Eth!Busy' /\ netRequest' = TRUE
<1>1. readPending \in BOOLEAN /\ (netQueue' = 0 => ~readPending)
  BY DEF Eth!NetAssumption, EthInv, Eth!TypeOK, Eth!FlagsOK, Eth!CountsOK,
      Eth!PendingIsThere
<1>2. /\ netStatus' = s /\ ~Eth!Busy' /\ netRequest' = TRUE
      /\ polling' \in BOOLEAN /\ netEvents' \in Nat
      /\ UNCHANGED <<netCommand, netWorking>>
      /\ Eth!OneEventEach' /\ Eth!PollsWhenEmpty'
  BY <1>1, EthFinishStep
<1>3. Eth!RegistersOK'
  BY <1>2 DEF EthInv, Eth!TypeOK, Eth!RegistersOK, Eth!FDMAERR, Eth!DWRITERR
<1>4. Eth!FlagsOK'
  BY <1>1, <1>2 DEF EthInv, Eth!TypeOK, Eth!FlagsOK
<1>5. Eth!CountsOK'
  BY <1>2 DEF EthInv, Eth!TypeOK, Eth!CountsOK
<1> QED
  BY <1>2, <1>3, <1>4, <1>5 DEF EthInv, Eth!TypeOK, Eth!PendingIsThere

LEMMA EthEndReadStep ==
    ASSUME EthInv, Eth!EndRead
    PROVE  EthInv' /\ ~Eth!Busy' /\ netRequest' = TRUE
<1>1. Eth!Ends
  BY DEF Eth!EndRead
<1>2. CASE ~netWorking
  <2>1. /\ UNCHANGED <<readPending, data0, data1, Eth!netVars>>
        /\ Eth!Finish(Eth!DREADERR, readPending)
    BY <1>2 DEF Eth!EndRead
  <2>2. /\ interrupts' \in BOOLEAN /\ UNCHANGED <<readPending, netQueue, wire>>
        /\ data0' \in Eth!Data0 /\ data1' \in Eth!Lengths
    BY <2>1 DEF EthInv, Eth!TypeOK, Eth!RegistersOK, Eth!FlagsOK, Eth!netVars
  <2> QED
    BY <1>1, <2>1, <2>2, EthQuietEndStep
<1>3. CASE netWorking
  <2> DEFINE any == netQueue > 0 \/ wire > 0
             s   == IF any /\ ~data0.valid THEN Eth!FDMAERR ELSE Eth!READY
             t   == IF netQueue' > 0 THEN Eth!WithWaiting(s) ELSE s
  <2>1. /\ Eth!Take /\ readPending' = FALSE
        /\ data1' = IF any THEN "packet" ELSE "zero"
        /\ UNCHANGED <<data0, interrupts>>
        /\ Eth!Finish(t, netQueue' > 0)
    BY <1>3 DEF Eth!EndRead, Eth!LeavePending
  <2>2. t \in {Eth!READY, Eth!DREADERR, Eth!DWRITERR, Eth!DDMAERR, Eth!FDMAERR}
    BY DEF Eth!WithWaiting, Eth!READY, Eth!FDMAERR, Eth!DDMAERR
  <2>3. data1' \in Eth!Lengths
    BY <2>1 DEF Eth!Lengths
  <2> HIDE DEF t, any
  <2>4. netQueue' \in 0..MAXNETQUEUE /\ wire' \in 0..MaxWire
    BY <2>1, NetworkType DEF EthInv
  <2>5. /\ interrupts' \in BOOLEAN /\ (netQueue' > 0) \in BOOLEAN
        /\ netQueue' = 0 => ~(netQueue' > 0)
    BY <2>1, <2>4 DEF EthInv, Eth!TypeOK, Eth!FlagsOK
  <2>6. /\ netStatus' = t /\ ~Eth!Busy' /\ netRequest' = TRUE
        /\ polling' \in BOOLEAN /\ netEvents' \in Nat
        /\ UNCHANGED <<netCommand, netWorking>>
        /\ Eth!OneEventEach' /\ Eth!PollsWhenEmpty'
    BY <1>1, <2>1, <2>2, <2>5, EthFinishStep
  <2>7. Eth!RegistersOK'
    BY <2>1, <2>2, <2>3, <2>6 DEF EthInv, Eth!TypeOK, Eth!RegistersOK, Eth!FDMAERR,
        Eth!DWRITERR
  <2>8. Eth!FlagsOK'
    BY <2>1, <2>6 DEF EthInv, Eth!TypeOK, Eth!FlagsOK
  <2>9. Eth!CountsOK'
    BY <2>4, <2>6 DEF Eth!CountsOK
  <2> QED
    BY <2>1, <2>6, <2>7, <2>8, <2>9 DEF EthInv, Eth!TypeOK, Eth!PendingIsThere
<1> QED
  BY <1>2, <1>3

LEMMA EthEndStep ==
    ASSUME EthInv, Eth!EndReset \/ Eth!EndReadConf \/ Eth!EndConfigure \/ Eth!EndRead \/ Eth!EndWrite
    PROVE  EthInv' /\ ~Eth!Busy' /\ netRequest' = TRUE
<1>1. CASE Eth!EndReset
  <2>1. /\ Eth!Ends /\ UNCHANGED <<readPending, data0, data1, Eth!netVars>>
        /\ netCommand \in {"RESET", "ACK", "unknown"}
        /\ Eth!Finish(IF netCommand = "RESET" THEN Eth!READY ELSE netStatus, readPending)
    BY <1>1 DEF Eth!EndReset
  <2>2. netCommand = "RESET"
    BY <2>1, OnlyBusyEnds DEF Eth!Operations
  <2>3. /\ interrupts' \in BOOLEAN /\ UNCHANGED <<readPending, netQueue, wire>>
        /\ data0' \in Eth!Data0 /\ data1' \in Eth!Lengths
    BY <2>1 DEF EthInv, Eth!TypeOK, Eth!RegistersOK, Eth!FlagsOK, Eth!netVars
  <2> QED
    BY <2>1, <2>2, <2>3, EthQuietEndStep
<1>2. CASE Eth!EndReadConf
  <2>1. /\ Eth!Ends /\ UNCHANGED <<readPending, Eth!netVars>> /\ Eth!Finish(Eth!READY, readPending)
        /\ \E valid \in BOOLEAN : data0' = [valid |-> valid, interrupt |-> interrupts]
        /\ data1' \in Eth!Lengths
    BY <1>2 DEF Eth!EndReadConf
  <2>2. /\ interrupts' \in BOOLEAN /\ UNCHANGED <<readPending, netQueue, wire>>
        /\ data0' \in Eth!Data0
    BY <2>1 DEF EthInv, Eth!TypeOK, Eth!FlagsOK, Eth!netVars, Eth!Data0
  <2> QED
    BY <2>1, <2>2, EthQuietEndStep
<1>3. CASE Eth!EndConfigure
  <2>1. /\ Eth!Ends /\ UNCHANGED <<readPending, data0, data1, netQueue, wire>>
        /\ interrupts' = data0.interrupt /\ Eth!Finish(Eth!READY, readPending)
    BY <1>3 DEF Eth!EndConfigure
  <2>2. interrupts' \in BOOLEAN /\ data0' \in Eth!Data0 /\ data1' \in Eth!Lengths
    BY <2>1 DEF EthInv, Eth!TypeOK, Eth!RegistersOK, Eth!Data0
  <2> QED
    BY <2>1, <2>2, EthQuietEndStep
<1>4. CASE Eth!EndRead
  BY <1>4, EthEndReadStep
<1>5. CASE Eth!EndWrite
  <2>1. /\ Eth!Ends /\ UNCHANGED <<readPending, data0, data1, Eth!netVars>>
        /\ Eth!Finish(Eth!READY, readPending) \/ Eth!Finish(Eth!DWRITERR, readPending)
    BY <1>5 DEF Eth!EndWrite
  <2>2. /\ interrupts' \in BOOLEAN /\ UNCHANGED <<readPending, netQueue, wire>>
        /\ data0' \in Eth!Data0 /\ data1' \in Eth!Lengths
    BY <2>1 DEF EthInv, Eth!TypeOK, Eth!RegistersOK, Eth!FlagsOK, Eth!netVars
  <2> QED
    BY <2>1, <2>2, EthQuietEndStep
<1> QED
  BY <1>1, <1>2, <1>3, <1>4, <1>5

-----------------------------------------------------------------------------
(* The network and the user *)

LEMMA EthOutsideStep ==
    ASSUME EthInv, Eth!Arrive \/ (\E working \in BOOLEAN : Eth!SetCondition(working))
                   \/ UNCHANGED Eth!vars
    PROVE  EthInv'
<1>1. UNCHANGED <<netStatus, readPending, netCommand, data0, data1, polling, netEvents,
                  interrupts, netQueue, netRequest>>
  BY DEF Eth!Arrive, Eth!SetCondition, Eth!vars, Eth!netVars
<1>2. wire' \in 0..MaxWire /\ netWorking' \in BOOLEAN
  BY DEF Eth!NetAssumption, Eth!Arrive, Eth!SetCondition, Eth!vars, Eth!netVars,
      EthInv, Eth!TypeOK, Eth!FlagsOK,
      Eth!CountsOK
<1>3. Eth!RegistersOK' /\ Eth!FlagsOK' /\ Eth!CountsOK'
  BY <1>1, <1>2 DEF EthInv, Eth!TypeOK, Eth!RegistersOK, Eth!FlagsOK, Eth!CountsOK
<1> QED
  BY <1>1, <1>3 DEF Eth!TypeOK, EthInv, Eth!OneEventEach, Eth!PendingIsThere,
      Eth!PollsWhenEmpty, Eth!Busy

-----------------------------------------------------------------------------

(* Holds in every state of an Ethernet interface, whatever arrives. *)
THEOREM EthInvariant == Eth!Spec => []EthInv
<1>1. EthInv /\ [Eth!Next]_(Eth!vars) => EthInv'
  BY EthBeginStep, EthCommandStep, EthPollStep, EthEndStep, EthOutsideStep
  DEF Eth!Next, Eth!CompleteDevOp
<1>2. Eth!Init => EthInv
  BY EthAssumption, EthInitInv
<1> QED
  BY <1>1, <1>2, PTL DEF Eth!Spec

(* There is one event for the poll and one for the operation, at all times. *)
THEOREM AlwaysOneEventEach == Eth!Spec => []Eth!OneEventEach
<1>1. EthInv => Eth!OneEventEach
  BY DEF EthInv
<1> QED
  BY <1>1, EthInvariant, PTL

(* READPENDING never promises a packet that is not there. *)
THEOREM NoFalsePromise == Eth!Spec => []Eth!PendingIsThere
<1>1. EthInv => Eth!PendingIsThere
  BY DEF EthInv
<1> QED
  BY <1>1, EthInvariant, PTL

(* A guest that wants interrupts and has nothing to read is polled for. *)
THEOREM AlwaysPolls == Eth!Spec => []Eth!PollsWhenEmpty
<1>1. EthInv => Eth!PollsWhenEmpty
  BY DEF EthInv
<1> QED
  BY <1>1, EthInvariant, PTL

(* The device behaves to its driver as every device does: its polls only ever
   add a request. *)
THEOREM EthIsDevice == Eth!Spec => Eth!ImplementsDeviceOperation
<1>1. Eth!Init => Eth!Driver!Init
  BY DEF Eth!Init, Eth!Driver!Init, Eth!Busy, Eth!READY, Eth!BUSY
<1>2. EthInv /\ [Eth!Next]_(Eth!vars) => [Eth!Driver!Next]_(Eth!Driver!vars)
  <2> SUFFICES ASSUME EthInv, [Eth!Next]_(Eth!vars) PROVE [Eth!Driver!Next]_(Eth!Driver!vars)
    OBVIOUS
  <2> USE DEF Eth!Driver!Next, Eth!Driver!vars, Eth!Driver!Accept, Eth!Driver!Acknowledge,
              Eth!Driver!Refuse, Eth!Driver!Complete
  <2>1. ASSUME NEW c \in Eth!Operations, Eth!Begin(c) PROVE [Eth!Driver!Next]_(Eth!Driver!vars)
    BY <2>1 DEF Eth!Begin, Eth!Accepts, Eth!Busy
  <2>2. CASE Eth!Acknowledge
    BY <2>2 DEF Eth!Acknowledge, Eth!Accepts, Eth!Busy, Eth!READY, Eth!BUSY
  <2>3. CASE Eth!Refuse
    <3>1. ~Eth!Busy /\ ~Eth!Busy' /\ netRequest' = TRUE
      BY <2>3 DEF Eth!Refuse, Eth!Accepts, Eth!Busy, Eth!DDMAERR, Eth!ILOPERR,
          Eth!BUSY
    <3> QED
      BY <3>1
  <2>4. CASE Eth!Poll
    <3>1. ~Eth!Busy /\ netStatus' = netStatus
      BY <2>4 DEF Eth!Poll
    <3>2. netRequest' = netRequest \/ netRequest' = TRUE
      BY <2>4 DEF Eth!Poll, EthInv, Eth!TypeOK, Eth!FlagsOK
    <3>3. CASE netRequest' = netRequest
      BY <3>1, <3>3 DEF Eth!Busy
    <3>4. CASE netRequest' = TRUE
      <4>1. ~Eth!Busy' /\ netRequest'
        BY <3>1, <3>4 DEF Eth!Busy
      <4> QED
        BY <3>1, <4>1
    <3> QED
      BY <3>2, <3>3, <3>4
  <2>5. CASE Eth!EndReset \/ Eth!EndReadConf \/ Eth!EndConfigure \/ Eth!EndRead
      \/ Eth!EndWrite
    <3>1. Eth!Ends
      BY <2>5 DEF Eth!EndReset, Eth!EndReadConf, Eth!EndConfigure, Eth!EndRead,
          Eth!EndWrite
    <3>2. Eth!Busy /\ ~Eth!Busy' /\ netRequest' = TRUE
      BY <2>5, <3>1, OnlyBusyEnds, EthEndStep
    <3> QED
      BY <3>2
  <2>6. CASE UNCHANGED <<netStatus, netRequest>>
    BY <2>6 DEF Eth!Busy
  <2>7. Eth!Arrive \/ (\E d : Eth!WriteData0(d) \/ Eth!WriteData1(d))
          \/ (\E working : Eth!SetCondition(working)) \/ UNCHANGED Eth!vars
          => UNCHANGED <<netStatus, netRequest>>
    BY DEF Eth!Arrive, Eth!WriteData0, Eth!WriteData1, Eth!SetCondition, Eth!vars
  <2> QED
    BY <2>1, <2>2, <2>3, <2>4, <2>5, <2>6, <2>7 DEF Eth!Next, Eth!CompleteDevOp
<1> QED
  BY <1>1, <1>2, EthInvariant, PTL
     DEF Eth!Spec, Eth!ImplementsDeviceOperation, Eth!Driver!Spec

-----------------------------------------------------------------------------
(* What TLC explores: a behaviour of MCDevices is one of the terminal, one of
   the Ethernet interface and one of the queue of events. *)

THEOREM DevicesCompose == MCSpec => Spec /\ Eth!Spec /\ QueueSpec
<1>1. MCInit => Init /\ Eth!Init /\ QueueInit
  BY DEF MCInit
<1>2. [MCNext]_mcVars => [Next]_vars /\ [Eth!Next]_(Eth!vars) /\ [QueueNext]_queueVars
  <2>1. CASE TerminalStep(Next)
    BY <2>1 DEF TerminalStep, ethVars, Eth!vars, Eth!netVars
  <2>2. CASE EthernetStep(Eth!Next)
    BY <2>2 DEF EthernetStep
  <2>3. CASE QueueStep(QueueNext)
    BY <2>3 DEF QueueStep, ethVars, Eth!vars, Eth!netVars
  <2>4. CASE UNCHANGED mcVars
    BY <2>4 DEF mcVars, ethVars, Eth!vars, Eth!netVars
  <2> QED
    BY <2>1, <2>2, <2>3, <2>4 DEF MCNext
<1> QED
  BY <1>1, <1>2, PTL DEF MCSpec, Spec, Eth!Spec, QueueSpec

(* Polls and operations never get into each other's way: see PollingInv of
   EthDevice. *)
THEOREM PollingIsRight == MCSpec => []PollingInv
<1>1. EthInv => PollingInv
  BY DEF EthInv, PollingInv, Eth!PollingInv
<1> QED
  BY <1>1, EthInvariant, DevicesCompose, PTL

(* The Ethernet interface implements the abstract device. *)
THEOREM EthImplementsDevice == MCSpec => ImplementsDeviceOperation
  BY EthIsDevice, DevicesCompose, PTL DEF ImplementsDeviceOperation
================================================================================
