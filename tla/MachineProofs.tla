----------------------------- MODULE MachineProofs -----------------------------
(***************************************************************************)
(* Proofs about the machine's clock and the debugger that drives it, for   *)
(* any number of cores, any width of the timers and any events.            *)
(***************************************************************************)
EXTENDS Machine, Recursion, TLAPS

-----------------------------------------------------------------------------
(* Timers and lines *)

LEMMA TimerWraps ==
    \A x \in Int : /\ x % W \in 0..(W - 1)
                   /\ x \in 0..(W - 1) => x % W = x
BY MachineAssumption DEF MachineAssumption

LEMMA LineFacts ==
    /\ IL_TIMER \in Lines /\ IL_CPUTIMER \in Lines
    /\ \A r \in Requests : /\ r \in Event
                           /\ r.kind = "irq" => r.line \in Lines
    /\ \A ls \in MipValues : ls \subseteq Lines
    /\ TimerCpu \in Cpus /\ 0 \in Cpus
    /\ TimerValues \subseteq 0..(W - 1)
    /\ W - 1 \in 0..(W - 1) /\ 0 \in 0..(W - 1)
<1>1. IL_TIMER \in Lines /\ IL_CPUTIMER \in Lines /\ \A ls \in MipValues : ls \subseteq Lines
  BY DEF Lines
<1>2. ASSUME NEW r \in Requests
      PROVE  r \in Event /\ (r.kind = "irq" => r.line \in Lines)
  <2>1. r \in Event
    BY MachineAssumption DEF MachineAssumption
  <2> DEFINE irqs == {q.line : q \in {x \in Requests : x.kind = "irq"}}
  <2>2. r.kind = "irq" => r.line \in irqs
    OBVIOUS
  <2>3. Lines = {IL_TIMER, IL_CPUTIMER} \cup (UNION MipValues) \cup irqs
    BY DEF Lines
  <2> HIDE DEF irqs
  <2>4. irqs \subseteq Lines
    BY <2>3
  <2> QED
    BY <2>1, <2>2, <2>4
<1>3. TimerCpu \in Cpus /\ 0 \in Cpus /\ TimerValues \subseteq 0..(W - 1)
  BY MachineAssumption DEF MachineAssumption, Cpus
<1>4. W - 1 \in 0..(W - 1) /\ 0 \in 0..(W - 1)
  BY MachineAssumption DEF MachineAssumption
<1> QED
  BY <1>1, <1>2, <1>3, <1>4

(* The machines in which a core that waits has no interrupt pending. *)
Calm == {m \in MachineState :
            \A c \in Cpus : m.cpu[c].status = "IDLE" => m.cpu[c].mip = {}}

(* What an operation on one core leaves as it is. *)
SameBut(m, n, c) ==
    /\ n.timer = m.timer /\ n.queue = m.queue /\ n.halted = m.halted
    /\ \A d \in Cpus \ {c} : n.cpu[d] = m.cpu[d]

LEMMA PoweredOnCalm == PoweredOn \in Calm
<1>1. Absent \in Core /\ Fresh \in Core
  BY LineFacts DEF Absent, Fresh, Core
<1>2. PoweredOn \in MachineState
  <2>1. <<>> \in Seq(Entry)
    OBVIOUS
  <2> QED
    BY <1>1, <2>1, LineFacts DEF PoweredOn, MachineState
<1>3. \A c \in Cpus : PoweredOn.cpu[c].status # "IDLE"
  BY DEF PoweredOn, Fresh, Absent
<1> QED
  BY <1>2, <1>3 DEF Calm

LEMMA SetCore ==
    ASSUME NEW m \in MachineState, NEW c \in Cpus, NEW p \in Core
    PROVE  LET n == [m EXCEPT !.cpu[c] = p]
           IN  /\ n \in MachineState /\ SameBut(m, n, c) /\ n.cpu[c] = p
               /\ m \in Calm /\ (p.status = "IDLE" => p.mip = {}) => n \in Calm
<1> DEFINE n == [m EXCEPT !.cpu[c] = p]
<1>1. n \in MachineState /\ SameBut(m, n, c) /\ n.cpu[c] = p
  BY DEF MachineState, SameBut
<1> HIDE DEF n
<1>2. m \in Calm /\ (p.status = "IDLE" => p.mip = {}) => n \in Calm
  BY <1>1 DEF Calm, SameBut
<1> QED
  BY <1>1, <1>2 DEF n

LEMMA AssertFacts ==
    ASSUME NEW m \in MachineState, NEW c \in Cpus, NEW il \in Lines
    PROVE  LET n == AssertIRQ(m, c, il)
           IN  /\ n \in MachineState /\ SameBut(m, n, c)
               /\ n.cpu[c] = [m.cpu[c] EXCEPT !.mip = @ \cup {il}, !.status = Woken(@)]
               /\ n.cpu[c].status # "IDLE"
               /\ m.cpu[c].status = "HALTED" => n.cpu[c].status = "HALTED"
               /\ m \in Calm => n \in Calm
<1> DEFINE p == [m.cpu[c] EXCEPT !.mip = @ \cup {il}, !.status = Woken(@)]
<1>1. /\ p \in Core /\ p.status # "IDLE"
      /\ m.cpu[c].status = "HALTED" => p.status = "HALTED"
  <2>1. m.cpu[c] \in Core
    BY DEF MachineState
  <2> QED
    BY <2>1 DEF Core, Woken
<1>2. AssertIRQ(m, c, il) = [m EXCEPT !.cpu[c] = p]
  BY DEF AssertIRQ, MachineState, Core
<1> HIDE DEF p
<1>3. /\ [m EXCEPT !.cpu[c] = p] \in MachineState
      /\ SameBut(m, [m EXCEPT !.cpu[c] = p], c)
      /\ [m EXCEPT !.cpu[c] = p].cpu[c] = p
      /\ m \in Calm => [m EXCEPT !.cpu[c] = p] \in Calm
  BY <1>1, SetCore
<1> QED
  BY <1>1, <1>2, <1>3 DEF p

LEMMA DeassertFacts ==
    ASSUME NEW m \in MachineState, NEW c \in Cpus, NEW il
    PROVE  LET n == DeassertIRQ(m, c, il)
           IN  /\ n \in MachineState /\ SameBut(m, n, c)
               /\ n.cpu[c] = [m.cpu[c] EXCEPT !.mip = @ \ {il}]
               /\ n.cpu[c].status = m.cpu[c].status
               /\ m \in Calm => n \in Calm
<1> DEFINE p == [m.cpu[c] EXCEPT !.mip = @ \ {il}]
<1>1. /\ p \in Core /\ p.status = m.cpu[c].status
      /\ m.cpu[c].mip = {} => p.mip = {}
  <2>1. m.cpu[c] \in Core
    BY DEF MachineState
  <2> QED
    BY <2>1 DEF Core
<1>2. DeassertIRQ(m, c, il) = [m EXCEPT !.cpu[c] = p]
  BY DEF DeassertIRQ, MachineState, Core
<1>3. m \in Calm => (p.status = "IDLE" => p.mip = {})
  BY <1>1 DEF Calm
<1> HIDE DEF p
<1>4. /\ [m EXCEPT !.cpu[c] = p] \in MachineState
      /\ SameBut(m, [m EXCEPT !.cpu[c] = p], c)
      /\ [m EXCEPT !.cpu[c] = p].cpu[c] = p
      /\ m \in Calm => [m EXCEPT !.cpu[c] = p] \in Calm
  BY <1>1, <1>3, SetCore
<1> QED
  BY <1>1, <1>2, <1>4 DEF p

-----------------------------------------------------------------------------
(* A tick of the bus *)

(* An event changes one core or halts the machine; it starts a halted core
   only if it resets it. *)
LEMMA RunEventFacts ==
    ASSUME NEW m \in Calm, NEW e \in Requests
    PROVE  LET n == RunEvent(m, e)
           IN  /\ n \in Calm /\ n.timer = m.timer /\ n.queue = m.queue
               /\ \A c \in Cpus :
                     m.cpu[c].status = "HALTED" /\ n.cpu[c].status # "HALTED"
                        => e.kind = "reset" /\ e.cpu = c
<1> DEFINE n == RunEvent(m, e)
<1>0. /\ m \in MachineState /\ e.cpu \in Cpus /\ e.kind \in {"irq", "reset", "halt", "poweroff"}
      /\ e.kind = "irq" => e.line \in Lines
  BY LineFacts DEF Calm, Event
<1>1. CASE e.kind = "irq"
  <2>1. n = AssertIRQ(m, e.cpu, e.line)
    BY <1>1 DEF RunEvent
  <2> HIDE DEF n
  <2>2. n \in Calm /\ SameBut(m, n, e.cpu)
    BY <1>0, <1>1, <2>1, AssertFacts
  <2>3. m.cpu[e.cpu].status = "HALTED" => n.cpu[e.cpu].status = "HALTED"
    BY <1>0, <1>1, <2>1, AssertFacts
  <2> QED
    BY <2>2, <2>3 DEF SameBut, n
<1>2. CASE e.kind = "reset"
  <2>1. n = [m EXCEPT !.cpu[e.cpu] = Fresh] /\ Fresh \in Core /\ Fresh.status # "IDLE"
    BY <1>2, LineFacts DEF RunEvent, Fresh, Absent, Core
  <2> HIDE DEF n
  <2>2. n \in Calm /\ SameBut(m, n, e.cpu)
    BY <1>0, <2>1, SetCore
  <2> QED
    BY <1>2, <2>2 DEF SameBut, n
<1>3. CASE e.kind = "halt"
  <2> DEFINE p == [m.cpu[e.cpu] EXCEPT !.status = "HALTED"]
  <2>0. m.cpu[e.cpu] \in Core
    BY <1>0 DEF MachineState
  <2>1. p \in Core /\ p.status = "HALTED"
    BY <2>0 DEF Core
  <2>2. n = [m EXCEPT !.cpu[e.cpu] = p]
    BY <1>0, <1>3 DEF RunEvent, MachineState, Core
  <2> HIDE DEF n, p
  <2>3. n \in Calm /\ SameBut(m, n, e.cpu) /\ n.cpu[e.cpu] = p
    BY <1>0, <2>1, <2>2, SetCore
  <2> QED
    BY <1>3, <2>1, <2>3 DEF SameBut, n
<1>4. CASE e.kind = "poweroff"
  <2>1. n = [m EXCEPT !.halted = TRUE]
    BY <1>4 DEF RunEvent
  <2>2. n \in MachineState /\ n.timer = m.timer /\ n.queue = m.queue /\ n.cpu = m.cpu
    BY <1>0, <2>1 DEF MachineState
  <2> HIDE DEF n
  <2> QED
    BY <2>2 DEF Calm, n
<1> QED
  BY <1>0, <1>1, <1>2, <1>3, <1>4

(* The events that are due are a prefix of the queue, up to the first that
   is not. *)
LEMMA DueEventsFacts ==
    ASSUME NEW q \in Seq(Entry)
    PROVE  /\ DueEvents(q) \in 0..Len(q)
           /\ \A i \in 1..DueEvents(q) : q[i].left <= 1
           /\ DueEvents(q) < Len(q) => q[DueEvents(q) + 1].left > 1
<1> DEFINE T == {n \in 0..Len(q) : n < Len(q) => q[n + 1].left > 1}
<1>1. T \subseteq Nat /\ Len(q) \in T
  OBVIOUS
<1> HIDE DEF T
<1>2. PICK n \in T : \A k \in T : n <= k
  BY <1>1, LeastNat
<1>3. n \in 0..Len(q) /\ (n < Len(q) => q[n + 1].left > 1)
  BY <1>2 DEF T
<1>4. ASSUME NEW i \in 1..n
      PROVE  q[i].left <= 1
  <2>1. i - 1 \in 0..Len(q) /\ i - 1 < Len(q) /\ ~(n <= i - 1) /\ i \in 1..Len(q)
    BY <1>3
  <2>2. i - 1 \notin T
    BY <1>2, <2>1
  <2>3. ~(q[(i - 1) + 1].left > 1) /\ (i - 1) + 1 = i
    BY <2>1, <2>2 DEF T
  <2>4. q[i] \in Entry
    BY <2>1
  <2> QED
    BY <2>3, <2>4 DEF Entry
<1> QED
  BY <1>3, <1>4 DEF DueEvents

(* The queue is in the order of the deadlines. *)
InOrder(q) == \A i, j \in 1..Len(q) : i <= j => q[i].left <= q[j].left

LEMMA AdvancedFacts ==
    ASSUME NEW q \in Seq(Entry), InOrder(q)
    PROVE  LET r == Advanced(q, DueEvents(q))
           IN  r \in Seq(Entry) /\ InOrder(r)
<1> DEFINE n == DueEvents(q)
           r == Advanced(q, n)
<1>1. n \in 0..Len(q) /\ (n < Len(q) => q[n + 1].left > 1)
  BY DueEventsFacts
<1> HIDE DEF n
<1>2. ASSUME NEW i \in 1..(Len(q) - n)
      PROVE  /\ i + n \in 1..Len(q) /\ q[i + n] \in Entry /\ q[i + n].left > 1
             /\ r[i] = [q[i + n] EXCEPT !.left = @ - 1]
  <2>1. i + n \in 1..Len(q) /\ n + 1 \in 1..Len(q) /\ n + 1 <= i + n /\ n < Len(q)
    BY <1>1
  <2>2. q[i + n] \in Entry /\ q[n + 1] \in Entry
    BY <2>1
  <2>3. q[n + 1].left <= q[i + n].left
    BY <2>1 DEF InOrder
  <2>4. q[n + 1].left > 1
    BY <1>1, <2>1
  <2>5. q[i + n].left > 1
    BY <2>2, <2>3, <2>4 DEF Entry
  <2> QED
    BY <2>1, <2>2, <2>5 DEF Advanced
<1>3. ASSUME NEW i \in 1..(Len(q) - n)
      PROVE  r[i] \in Entry /\ r[i].left = q[i + n].left - 1
  <2> DEFINE e == q[i + n]
  <2>1. e \in Entry /\ e.left > 1 /\ r[i] = [e EXCEPT !.left = @ - 1]
    BY <1>2
  <2> HIDE DEF e, r
  <2>2. r[i] \in Entry /\ r[i].left = e.left - 1
    BY <2>1 DEF Entry
  <2> QED
    BY <2>2 DEF e
<1>4. r = [i \in 1..(Len(q) - n) |-> r[i]] /\ Len(q) - n \in Nat
  BY <1>1 DEF Advanced
<1> HIDE DEF r
<1>5. r \in Seq(Entry) /\ Len(r) = Len(q) - n
  BY <1>3, <1>4
<1>6. ASSUME NEW i \in 1..Len(r), NEW j \in 1..Len(r), i <= j
      PROVE  r[i].left <= r[j].left
  <2>1. i + n \in 1..Len(q) /\ j + n \in 1..Len(q) /\ i + n <= j + n
    BY <1>1, <1>2, <1>5, <1>6
  <2>2. q[i + n].left <= q[j + n].left
    BY <2>1 DEF InOrder
  <2>3. q[i + n].left \in Nat /\ q[j + n].left \in Nat
    BY <1>2, <1>5 DEF Entry
  <2> QED
    BY <1>3, <1>5, <2>2, <2>3, SMTT(40)
<1> QED
  BY <1>5, <1>6 DEF InOrder, r, n

LEMMA TimedFacts ==
    ASSUME NEW m \in Calm
    PROVE  LET n == Timed(m)
           IN  /\ n \in Calm /\ n.queue = m.queue
               /\ n.timer = Decremented(m.timer)
               /\ \A c \in Cpus : m.cpu[c].status = "HALTED" => n.cpu[c].status = "HALTED"
               /\ m.timer # 0 => n.cpu = m.cpu /\ n.halted = m.halted
<1> DEFINE t == [m EXCEPT !.timer = Decremented(@)]
<1>1. m \in MachineState /\ m.timer \in 0..(W - 1)
  BY DEF Calm, MachineState
<1>2. Decremented(m.timer) \in 0..(W - 1)
  BY <1>1, TimerWraps, MachineAssumption DEF Decremented, MachineAssumption
<1>3. /\ t \in MachineState /\ t.queue = m.queue /\ t.timer = Decremented(m.timer)
      /\ t.cpu = m.cpu /\ t.halted = m.halted
  BY <1>1, <1>2 DEF MachineState
<1>4. Timed(m) = IF m.timer = 0 THEN AssertIRQ(t, TimerCpu, IL_TIMER) ELSE t
  BY DEF Timed
<1> HIDE DEF t
<1>5. t \in Calm
  BY <1>3 DEF Calm
<1> DEFINE n == AssertIRQ(t, TimerCpu, IL_TIMER)
<1>6. /\ n \in Calm /\ SameBut(t, n, TimerCpu)
      /\ t.cpu[TimerCpu].status = "HALTED" => n.cpu[TimerCpu].status = "HALTED"
  BY <1>3, <1>5, LineFacts, AssertFacts, ZenonT(40)
<1> HIDE DEF n
<1> QED
  BY <1>3, <1>4, <1>5, <1>6 DEF SameBut, n

(* Events that have run: induction over their number. *)
LEMMA AfterEventsFacts ==
    ASSUME NEW m \in Calm, NEW q \in Seq(Entry), NEW n \in 0..Len(q)
    PROVE  LET r == AfterEvents(m, q, n)
           IN  /\ r \in Calm /\ r.timer = m.timer /\ r.queue = m.queue
               /\ n = 0 => r = m
               /\ \A c \in Cpus :
                     m.cpu[c].status = "HALTED" /\ r.cpu[c].status # "HALTED"
                        => \E i \in 1..n : q[i].event.kind = "reset" /\ q[i].event.cpu = c
<1>0. n \in Nat /\ \A k \in 1..n : q[k].event \in Requests
  <2>1. \A k \in 1..n : k \in 1..Len(q) /\ q[k] \in Entry
    OBVIOUS
  <2> QED
    BY <2>1 DEF Entry
<1>1. PICK F \in [1..n -> [Calm -> Calm]] :
          \A k \in 1..n, x \in Calm : F[k][x] = RunEvent(x, q[k].event)
  <2>1. \A k \in 1..n, x \in Calm : RunEvent(x, q[k].event) \in Calm
    BY <1>0, RunEventFacts
  <2> DEFINE G == [k \in 1..n |-> [x \in Calm |-> RunEvent(x, q[k].event)]]
  <2>2. /\ G \in [1..n -> [Calm -> Calm]]
        /\ \A k \in 1..n, x \in Calm : G[k][x] = RunEvent(x, q[k].event)
    BY <2>1
  <2> HIDE DEF G
  <2> QED
    BY <2>2
<1>2. PICK f \in [0..n -> Calm] : f[0] = m /\ \A k \in 1..n : f[k] = F[k][f[k - 1]]
  BY <1>0, RecursionExists, SMTT(40)
<1>3. \A k \in 0..n : f[k] = IF k = 0 THEN m ELSE RunEvent(f[k - 1], q[k].event)
  <2>1. \A k \in 0..n : k # 0 => /\ k \in 1..n /\ k - 1 \in 0..n /\ f[k - 1] \in Calm
                                 /\ F[k][f[k - 1]] = RunEvent(f[k - 1], q[k].event)
    BY <1>0, <1>1
  <2> QED
    BY <1>2, <2>1
<1> DEFINE ran == CHOOSE g : g = [k \in 0..n |-> IF k = 0 THEN m
                                                ELSE RunEvent(g[k - 1], q[k].event)]
<1>4. f = [k \in 0..n |-> IF k = 0 THEN m ELSE RunEvent(f[k - 1], q[k].event)]
  BY <1>2, <1>3
<1>5. ran = [k \in 0..n |-> IF k = 0 THEN m ELSE RunEvent(ran[k - 1], q[k].event)]
  BY <1>4
<1>6. AfterEvents(m, q, n) = ran[n]
  BY DEF AfterEvents
<1> HIDE DEF ran
<1> DEFINE Right(k) ==
              /\ ran[k] \in Calm /\ ran[k].timer = m.timer /\ ran[k].queue = m.queue
              /\ \A c \in Cpus :
                    m.cpu[c].status = "HALTED" /\ ran[k].cpu[c].status # "HALTED"
                       => \E i \in 1..k : q[i].event.kind = "reset" /\ q[i].event.cpu = c
           S == {k \in Nat : k <= n => Right(k)}
<1>11. ran[0] = m
  BY <1>0, <1>5
<1>7. 0 \in S
  BY <1>11
<1>8. ASSUME NEW k \in Nat, k \in S
      PROVE  k + 1 \in S
  <2> SUFFICES ASSUME k + 1 <= n PROVE Right(k + 1)
    OBVIOUS
  <2>1. Right(k)
    BY <1>8
  <2>2. k + 1 \in 0..n /\ k + 1 # 0 /\ (k + 1) - 1 = k /\ k + 1 \in 1..n
    OBVIOUS
  <2>3. ran[k + 1] = RunEvent(ran[k], q[k + 1].event) /\ q[k + 1].event \in Requests
    BY <1>0, <1>5, <2>2
  <2> DEFINE x == ran[k]
             e == q[k + 1].event
  <2>4. x \in Calm /\ x.timer = m.timer /\ x.queue = m.queue
    BY <2>1
  <2> HIDE DEF x, e
  <2>5. LET y == RunEvent(x, e)
        IN  /\ y \in Calm /\ y.timer = x.timer /\ y.queue = x.queue
            /\ \A c \in Cpus :
                  x.cpu[c].status = "HALTED" /\ y.cpu[c].status # "HALTED"
                     => e.kind = "reset" /\ e.cpu = c
    BY <2>3, <2>4, RunEventFacts DEF e
  <2>6. \A c \in Cpus :
           m.cpu[c].status = "HALTED" /\ ran[k + 1].cpu[c].status # "HALTED"
              => \E i \in 1..(k + 1) : q[i].event.kind = "reset" /\ q[i].event.cpu = c
    <3> SUFFICES ASSUME NEW c \in Cpus,
                        m.cpu[c].status = "HALTED", ran[k + 1].cpu[c].status # "HALTED"
                 PROVE  \E i \in 1..(k + 1) : q[i].event.kind = "reset" /\ q[i].event.cpu = c
      OBVIOUS
    <3>1. CASE x.cpu[c].status = "HALTED"
      BY <2>2, <2>3, <2>5, <3>1 DEF x, e
    <3>2. CASE x.cpu[c].status # "HALTED"
      BY <2>1, <2>2, <3>2 DEF x
    <3> QED
      BY <3>1, <3>2
  <2> QED
    BY <2>3, <2>4, <2>5, <2>6 DEF x, e
<1> HIDE DEF Right
<1>9. n \in S
  <2> HIDE DEF S
  <2> QED
    BY <1>0, <1>7, <1>8, Induction
<1>10. Right(n)
  BY <1>0, <1>9
<1> QED
  BY <1>6, <1>10, <1>11 DEF Right

(* A tick leaves a halted core halted unless an event that was due resets it. *)
LEMMA ClockTickFacts ==
    ASSUME NEW m \in Calm, InOrder(m.queue)
    PROVE  LET n == ClockTick(m)
           IN  /\ n \in Calm /\ InOrder(n.queue)
               /\ \A c \in Cpus :
                     m.cpu[c].status = "HALTED" /\ n.cpu[c].status # "HALTED"
                        => \E i \in 1..Len(m.queue) :
                              /\ m.queue[i].left <= 1
                              /\ m.queue[i].event.kind = "reset"
                              /\ m.queue[i].event.cpu = c
<1> DEFINE q == m.queue
           k == DueEvents(q)
           t == Timed(m)
           r == AfterEvents(t, q, k)
           n == ClockTick(m)
<1>1. q \in Seq(Entry) /\ InOrder(q)
  BY DEF Calm, MachineState
<1>2. k \in 0..Len(q) /\ \A i \in 1..k : q[i].left <= 1
  BY <1>1, DueEventsFacts
<1>3. Advanced(q, k) \in Seq(Entry) /\ InOrder(Advanced(q, k))
  BY <1>1, AdvancedFacts
<1>4. /\ t \in Calm
      /\ \A c \in Cpus : m.cpu[c].status = "HALTED" => t.cpu[c].status = "HALTED"
  BY TimedFacts
<1>5. n = [r EXCEPT !.queue = Advanced(q, k)]
  BY DEF ClockTick
<1> HIDE DEF q, k, t
<1>6. /\ r \in Calm
      /\ \A c \in Cpus :
            t.cpu[c].status = "HALTED" /\ r.cpu[c].status # "HALTED"
               => \E i \in 1..k : q[i].event.kind = "reset" /\ q[i].event.cpu = c
  BY <1>1, <1>2, <1>4, AfterEventsFacts
<1> HIDE DEF r, n
<1>7. n \in MachineState /\ n.queue = Advanced(q, k) /\ n.cpu = r.cpu
  BY <1>3, <1>5, <1>6 DEF Calm, MachineState
<1>8. n \in Calm /\ InOrder(n.queue)
  BY <1>3, <1>6, <1>7 DEF Calm
<1>9. ASSUME NEW c \in Cpus, m.cpu[c].status = "HALTED", n.cpu[c].status # "HALTED"
      PROVE  \E i \in 1..Len(q) : /\ q[i].left <= 1
                                  /\ q[i].event.kind = "reset" /\ q[i].event.cpu = c
  <2>1. PICK i \in 1..k : q[i].event.kind = "reset" /\ q[i].event.cpu = c
    BY <1>4, <1>6, <1>7, <1>9
  <2>2. i \in 1..Len(q) /\ q[i].left <= 1
    BY <1>2
  <2> QED
    BY <2>1, <2>2
<1> QED
  BY <1>8, <1>9 DEF n, q

-----------------------------------------------------------------------------
(* The timer of a core *)

LEMMA CpuTickFacts ==
    ASSUME NEW m \in Calm, NEW c \in Cpus
    PROVE  LET n == CpuTick(m, c)
           IN  /\ n \in Calm /\ SameBut(m, n, c)
               /\ m.cpu[c].status = "HALTED" => n.cpu[c].status = "HALTED"
<1> DEFINE fired == IF m.cpu[c].time = 0 THEN AssertIRQ(m, c, IL_CPUTIMER) ELSE m
           timed == [fired EXCEPT !.cpu[c].time = Decremented(@)]
           n == CpuTick(m, c)
<1>1. m \in MachineState /\ IL_CPUTIMER \in Lines
  BY LineFacts DEF Calm
<1>2. /\ fired \in Calm /\ SameBut(m, fired, c)
      /\ m.cpu[c].status = "HALTED" => fired.cpu[c].status = "HALTED"
  <2>1. CASE m.cpu[c].time = 0
    <3>1. fired = AssertIRQ(m, c, IL_CPUTIMER)
      BY <2>1
    <3> HIDE DEF fired
    <3> QED
      BY <1>1, <3>1, AssertFacts
  <2>2. CASE m.cpu[c].time # 0
    BY <2>2 DEF SameBut
  <2> QED
    BY <2>1, <2>2
<1>3. n = IF m.cpu[c].status = "HALTED" THEN m
          ELSE IF m.cpu[c].mtie THEN timed ELSE DeassertIRQ(m, c, IL_CPUTIMER)
  BY DEF CpuTick
<1>4. /\ timed \in Calm /\ SameBut(fired, timed, c)
  <2> HIDE DEF fired
  <2> DEFINE p == [fired.cpu[c] EXCEPT !.time = Decremented(@)]
  <2>1. fired \in MachineState /\ fired.cpu[c] \in Core
    BY <1>2 DEF Calm, MachineState
  <2>2. fired.cpu[c].time \in 0..(W - 1)
    BY <2>1 DEF Core
  <2>3. Decremented(fired.cpu[c].time) \in 0..(W - 1)
    BY <2>2, TimerWraps, MachineAssumption DEF Decremented, MachineAssumption
  <2>4. p \in Core /\ p.status = fired.cpu[c].status /\ p.mip = fired.cpu[c].mip
    BY <2>1, <2>3 DEF Core
  <2>5. timed = [fired EXCEPT !.cpu[c] = p]
    BY <2>1 DEF MachineState, Core
  <2>6. p.status = "IDLE" => p.mip = {}
    BY <1>2, <2>4 DEF Calm
  <2> HIDE DEF p
  <2> QED
    BY <1>2, <2>1, <2>4, <2>5, <2>6, SetCore
<1>5. /\ DeassertIRQ(m, c, IL_CPUTIMER) \in Calm
      /\ SameBut(m, DeassertIRQ(m, c, IL_CPUTIMER), c)
  BY <1>1, DeassertFacts
<1> HIDE DEF fired, timed, n
<1> QED
  BY <1>2, <1>3, <1>4, <1>5 DEF SameBut, n

-----------------------------------------------------------------------------
(* Instructions *)

(* The element at each position of a sequence r, which is q with x inserted. *)
IsInserted(r, q, i, x) ==
    /\ Len(r) = Len(q) + 1
    /\ \A j \in 1..(Len(q) + 1) : r[j] = IF j < i THEN q[j]
                                        ELSE IF j = i THEN x ELSE q[j - 1]

LEMMA InsertAtFacts ==
    ASSUME NEW S, NEW q \in Seq(S), NEW i \in 1..(Len(q) + 1), NEW x \in S
    PROVE  InsertAt(q, i, x) \in Seq(S) /\ IsInserted(InsertAt(q, i, x), q, i, x)
<1> DEFINE a == SubSeq(q, 1, i - 1)
           b == SubSeq(q, i, Len(q))
<1>1. a \in Seq(S) /\ Len(a) = i - 1 /\ \A j \in 1..(i - 1) : a[j] = q[j]
  OBVIOUS
<1>2. /\ b \in Seq(S) /\ Len(b) = Len(q) - i + 1
      /\ \A j \in 1..(Len(q) - i + 1) : b[j] = q[i + j - 1]
  OBVIOUS
<1>3. InsertAt(q, i, x) = a \o <<x>> \o b
  BY DEF InsertAt
<1> DEFINE c == a \o <<x>>
<1> HIDE DEF a, b
<1>4. /\ c \in Seq(S) /\ Len(c) = i
      /\ \A j \in 1..(i - 1) : c[j] = q[j]
      /\ c[i] = x
  BY <1>1
<1> HIDE DEF c
<1>5. /\ c \o b \in Seq(S) /\ Len(c \o b) = Len(q) + 1
      /\ \A j \in 1..i : (c \o b)[j] = c[j]
      /\ \A j \in (i + 1)..(Len(q) + 1) : (c \o b)[j] = b[j - i]
  BY <1>2, <1>4, SMTT(40)
<1>6. \A j \in (i + 1)..(Len(q) + 1) : b[j - i] = q[j - 1]
  BY <1>2
<1>7. InsertAt(q, i, x) = c \o b
  BY <1>3 DEF c
<1> QED
  BY <1>4, <1>5, <1>6, <1>7 DEF IsInserted

LEMMA ScheduleFacts ==
    ASSUME NEW m \in Calm, InOrder(m.queue), NEW e \in Requests, NEW d \in Delays,
           NEW i \in 1..(Len(m.queue) + 1), Place(m.queue, i, d)
    PROVE  LET n == Schedule(m, e, d, i)
           IN  n \in Calm /\ InOrder(n.queue) /\ n.cpu = m.cpu
<1> DEFINE q == m.queue
           x == [event |-> e, left |-> d]
           r == InsertAt(q, i, x)
           n == Schedule(m, e, d, i)
<1>0. i \in 1..(Len(q) + 1)
  OBVIOUS
<1>1. q \in Seq(Entry) /\ d \in Nat /\ x \in Entry
  BY MachineAssumption DEF Calm, MachineState, MachineAssumption, Entry
<1>2. Len(q) \in Nat /\ \A j \in 1..Len(q) : q[j] \in Entry
  BY <1>1
<1>3. \A j \in 1..Len(q) : q[j].left \in Nat
  BY <1>2 DEF Entry
<1>4. \A j \in 1..Len(q) : /\ j < i => q[j].left <= d
                           /\ j >= i => q[j].left >= d
  <2>1. CASE q = <<>> \/ d <= q[1].left
    BY <1>1, <1>2, <1>3, <2>1 DEF Place, InOrder
  <2>2. CASE ~(q = <<>> \/ d <= q[1].left)
    BY <1>1, <1>2, <1>3, <2>2 DEF Place, InOrder
  <2> QED
    BY <2>1, <2>2
<1> HIDE DEF q, x
<1>5. /\ r \in Seq(Entry) /\ Len(r) = Len(q) + 1
      /\ \A j \in 1..(Len(q) + 1) : r[j] = IF j < i THEN q[j]
                                           ELSE IF j = i THEN x ELSE q[j - 1]
  <2>1. r \in Seq(Entry) /\ IsInserted(r, q, i, x)
    BY <1>0, <1>1, InsertAtFacts
  <2> QED
    BY <2>1 DEF IsInserted
<1> HIDE DEF r
<1>6. ASSUME NEW j \in 1..Len(r), NEW k \in 1..Len(r), j <= k
      PROVE  r[j].left <= r[k].left
  <2> DEFINE before(l) == IF l < i THEN l ELSE l - 1
  <2>1. \A l \in 1..Len(r) : l # i => /\ before(l) \in 1..Len(q)
                                      /\ r[l] = q[before(l)]
    BY <1>2, <1>5 DEF q
  <2>2. CASE j # i /\ k # i
    <3>1. before(j) <= before(k)
      BY <1>2, <1>5, <1>6, <2>2 DEF q
    <3> HIDE DEF before
    <3> QED
      BY <2>1, <2>2, <3>1 DEF InOrder, q
  <2>3. CASE j = i /\ k # i
    <3>1. before(k) >= i /\ r[j].left = d
      BY <1>2, <1>5, <1>6, <2>3 DEF q, x
    <3> HIDE DEF before
    <3> QED
      BY <1>4, <2>1, <2>3, <3>1
  <2>4. CASE j # i /\ k = i
    <3>1. before(j) < i /\ r[k].left = d
      BY <1>2, <1>5, <1>6, <2>4 DEF q, x
    <3> HIDE DEF before
    <3> QED
      BY <1>4, <2>1, <2>4, <3>1
  <2>5. CASE j = i /\ k = i
    <3>1. r[j].left = d /\ r[k].left = d
      BY <1>2, <1>5, <2>5 DEF q, x
    <3> QED
      BY <1>1, <3>1
  <2> QED
    BY <2>2, <2>3, <2>4, <2>5
<1>7. n = [m EXCEPT !.queue = r]
  BY DEF Schedule, r, q, x
<1> HIDE DEF n
<1>8. n \in MachineState /\ n.queue = r /\ n.cpu = m.cpu
  BY <1>5, <1>7 DEF Calm, MachineState
<1>9. n \in Calm
  BY <1>8 DEF Calm
<1> QED
  BY <1>6, <1>8, <1>9 DEF InOrder, n

(* Whatever an instruction of core c does, only a core that finds no
   interrupt pending waits, and the queue stays in order. *)
LEMMA SuspendFacts ==
    ASSUME NEW m \in Calm, NEW c \in Cpus, m.cpu[c].status = "RUNNING", Suspend(m, c)
    PROVE  /\ machine' \in Calm /\ machine'.queue = m.queue
           /\ \A d \in Cpus : m.cpu[d].status = "HALTED" => machine'.cpu[d].status = "HALTED"
           /\ pauseRequested \in BOOLEAN => pauseRequested' \in BOOLEAN
<1> DEFINE sleeps == Sleeps(m.cpu[c])
           p == [m.cpu[c] EXCEPT !.status = IF sleeps THEN "IDLE" ELSE @, !.atWfi = sleeps]
<1>1. m \in MachineState /\ m.cpu[c] \in Core
  BY DEF Calm, MachineState
<1>2. p \in Core /\ (p.status = "IDLE" => p.mip = {})
  BY <1>1 DEF Core, Sleeps
<1>3. /\ machine' = [m EXCEPT !.cpu[c].status = IF sleeps THEN "IDLE" ELSE @,
                              !.cpu[c].atWfi = sleeps]
      /\ pauseRequested' = (pauseRequested \/ sleeps)
  BY DEF Suspend
<1>4. machine' = [m EXCEPT !.cpu[c] = p]
  BY <1>1, <1>3 DEF MachineState, Core
<1>5. pauseRequested \in BOOLEAN => pauseRequested' \in BOOLEAN
  BY <1>3 DEF Sleeps
<1> HIDE DEF p
<1>6. machine' \in Calm /\ SameBut(m, machine', c)
  BY <1>1, <1>2, <1>4, SetCore
<1> QED
  BY <1>5, <1>6 DEF SameBut

LEMMA ExecuteFacts ==
    ASSUME NEW m \in Calm, InOrder(m.queue), NEW c \in Cpus,
           m.cpu[c].status = "RUNNING", Execute(m, c)
    PROVE  /\ machine' \in Calm /\ InOrder(machine'.queue)
           /\ \A d \in Cpus : m.cpu[d].status = "HALTED" => machine'.cpu[d].status = "HALTED"
           /\ pauseRequested' = pauseRequested
<1>1. m \in MachineState /\ m.cpu[c] \in Core
  BY DEF Calm, MachineState
<1> DEFINE Fine == /\ machine' \in Calm /\ InOrder(machine'.queue)
                   /\ \A d \in Cpus : m.cpu[d].status = "HALTED"
                                        => machine'.cpu[d].status = "HALTED"
<1>2. ASSUME NEW t \in TimerValues,
             machine' = DeassertIRQ([m EXCEPT !.cpu[c].time = t], c, IL_CPUTIMER)
      PROVE  Fine
  <2> DEFINE p == [m.cpu[c] EXCEPT !.time = t]
             n == [m EXCEPT !.cpu[c] = p]
  <2>1. p \in Core /\ p.status = "RUNNING"
    BY <1>1, LineFacts DEF Core
  <2>2. n = [m EXCEPT !.cpu[c].time = t]
    BY <1>1 DEF MachineState
  <2> HIDE DEF p
  <2>3. n \in Calm /\ n \in MachineState /\ SameBut(m, n, c)
    BY <1>1, <2>1, SetCore
  <2> HIDE DEF n
  <2>4. machine' \in Calm /\ SameBut(n, machine', c)
    BY <1>2, <2>2, <2>3, DeassertFacts
  <2> QED
    BY <2>3, <2>4 DEF SameBut
<1>3. ASSUME NEW b \in BOOLEAN, machine' = [m EXCEPT !.cpu[c].mtie = b]
      PROVE  Fine
  <2> DEFINE p == [m.cpu[c] EXCEPT !.mtie = b]
  <2>1. p \in Core /\ p.status = "RUNNING"
    BY <1>1 DEF Core
  <2>2. machine' = [m EXCEPT !.cpu[c] = p]
    BY <1>1, <1>3 DEF MachineState
  <2> HIDE DEF p
  <2>3. machine' \in Calm /\ SameBut(m, machine', c)
    BY <1>1, <2>1, <2>2, SetCore
  <2> QED
    BY <2>3 DEF SameBut
<1>4. ASSUME NEW ls \in MipValues, machine' = [m EXCEPT !.cpu[c].mip = ls]
      PROVE  Fine
  <2> DEFINE p == [m.cpu[c] EXCEPT !.mip = ls]
  <2>1. p \in Core /\ p.status = "RUNNING"
    BY <1>1, LineFacts DEF Core
  <2>2. machine' = [m EXCEPT !.cpu[c] = p]
    BY <1>1, <1>4 DEF MachineState
  <2> HIDE DEF p
  <2>3. machine' \in Calm /\ SameBut(m, machine', c)
    BY <1>1, <2>1, <2>2, SetCore
  <2> QED
    BY <2>3 DEF SameBut
<1>5. ASSUME NEW t \in TimerValues,
             machine' = DeassertIRQ([m EXCEPT !.timer = t], TimerCpu, IL_TIMER)
      PROVE  Fine
  <2> DEFINE n == [m EXCEPT !.timer = t]
  <2>1. n \in MachineState /\ n.cpu = m.cpu /\ n.queue = m.queue
    BY <1>1, LineFacts DEF MachineState
  <2> HIDE DEF n
  <2>2. n \in Calm
    BY <2>1 DEF Calm
  <2>3. /\ machine' \in Calm /\ SameBut(n, machine', TimerCpu)
        /\ machine'.cpu[TimerCpu].status = n.cpu[TimerCpu].status
    BY <1>5, <2>1, <2>2, LineFacts, DeassertFacts DEF n
  <2> QED
    BY <2>1, <2>3 DEF SameBut
<1>6. ASSUME NEW r \in Requests, r.kind = "irq", machine' = DeassertIRQ(m, r.cpu, r.line)
      PROVE  Fine
  <2>1. r.cpu \in Cpus
    BY LineFacts DEF Event
  <2>2. /\ machine' \in Calm /\ SameBut(m, machine', r.cpu)
        /\ machine'.cpu[r.cpu].status = m.cpu[r.cpu].status
    BY <1>1, <1>6, <2>1, DeassertFacts
  <2> QED
    BY <2>2 DEF SameBut
<1>7. ASSUME NEW r \in Requests, r.kind = "irq", machine' = AssertIRQ(m, r.cpu, r.line)
      PROVE  Fine
  <2>1. machine' = RunEvent(m, r) /\ r.kind # "reset"
    BY <1>7 DEF RunEvent
  <2>2. /\ machine' \in Calm /\ machine'.queue = m.queue
        /\ \A d \in Cpus : m.cpu[d].status = "HALTED" => machine'.cpu[d].status = "HALTED"
    BY <2>1, RunEventFacts
  <2> QED
    BY <2>2
<1>8. ASSUME NEW r \in Requests, NEW d \in Delays, NEW i \in 1..(Len(m.queue) + 1),
             Place(m.queue, i, d), machine' = Schedule(m, r, d, i)
      PROVE  Fine
  <2> DEFINE n == Schedule(m, r, d, i)
  <2>1. n \in Calm /\ InOrder(n.queue) /\ n.cpu = m.cpu
    BY <1>8, ScheduleFacts
  <2> HIDE DEF n
  <2> QED
    BY <1>8, <2>1 DEF n
<1>9. ASSUME machine' = m
      PROVE  Fine
  BY <1>9
<1> HIDE DEF Fine
<1>10. pauseRequested' = pauseRequested
  BY DEF Execute
<1>11. Fine
  BY <1>2, <1>3, <1>4, <1>5, <1>6, <1>7, <1>8, <1>9 DEF Execute
<1> QED
  BY <1>10, <1>11 DEF Fine

-----------------------------------------------------------------------------
(* Skipping *)

(* Nothing happens to m in n cycles: neither timer of those that matter
   underflows, no event is due and no core executes. *)
Sleeping(p, n) == /\ p.status # "RUNNING"
                  /\ p.status = "IDLE" /\ p.mtie => n <= p.time
Idles(m, n) ==
    /\ n <= m.timer
    /\ m.queue # <<>> => n < m.queue[1].left
    /\ \A c \in Cpus : Sleeping(m.cpu[c], n)

LEMMA MinFacts ==
    ASSUME NEW T, T \subseteq Nat, T # {}
    PROVE  Min(T) \in T /\ \A x \in T : Min(T) <= x
BY LeastNat DEF Min

LEMMA BusIdleCyclesFacts ==
    ASSUME NEW m \in MachineState
    PROVE  LET n == BusIdleCycles(m)
           IN  /\ n \in 0..(W - 1) /\ n <= m.timer
               /\ n > 0 /\ m.queue # <<>> => n < m.queue[1].left
<1>1. m.timer \in 0..(W - 1) /\ m.queue \in Seq(Entry) /\ W \in Nat
  BY MachineAssumption DEF MachineState, MachineAssumption
<1>2. CASE m.queue = <<>>
  BY <1>1, <1>2 DEF BusIdleCycles
<1>3. CASE m.queue # <<>>
  <2> DEFINE l == m.queue[1].left
             T == {m.timer, BeforeDeadline(l)}
  <2>1. l \in Nat
    <3>1. m.queue[1] \in Entry
      BY <1>1, <1>3
    <3> QED
      BY <3>1 DEF Entry
  <2>2. BusIdleCycles(m) = IF l > 0 THEN Min(T) ELSE 0
    BY <1>3 DEF BusIdleCycles
  <2> HIDE DEF l
  <2>3. CASE l > 0
    <3>1. T \subseteq Nat /\ T # {} /\ BeforeDeadline(l) = l - 1
      BY <1>1, <2>1, <2>3 DEF BeforeDeadline
    <3>2. Min(T) \in T /\ Min(T) <= m.timer /\ Min(T) <= BeforeDeadline(l)
      <4>1. m.timer \in T /\ BeforeDeadline(l) \in T
        OBVIOUS
      <4> HIDE DEF T
      <4> QED
        BY <3>1, <4>1, MinFacts
    <3>3. Min(T) \in Nat
      BY <3>1, <3>2
    <3> HIDE DEF T
    <3>4. Min(T) \in 0..(W - 1) /\ Min(T) <= m.timer /\ Min(T) < l
      BY <1>1, <2>1, <2>3, <3>1, <3>2, <3>3
    <3> QED
      BY <2>2, <2>3, <3>4 DEF l
  <2>4. CASE ~(l > 0)
    <3>1. BusIdleCycles(m) = 0
      BY <2>2, <2>4
    <3> QED
      BY <1>1, <3>1
  <2> QED
    BY <2>3, <2>4
<1> QED
  BY <1>2, <1>3

LEMMA IdleCyclesFacts ==
    ASSUME NEW m \in MachineState
    PROVE  LET n == IdleCycles(m)
           IN  n \in 0..(W - 1) /\ (n > 0 => Idles(m, n))
<1> DEFINE T == {BusIdleCycles(m)} \cup {CpuIdleCycles(m.cpu[c]) : c \in Cpus}
           n == IdleCycles(m)
<1>1. BusIdleCycles(m) \in 0..(W - 1)
  BY BusIdleCyclesFacts
<1>2. W - 1 \in 0..(W - 1) /\ 0 \in 0..(W - 1) /\ W \in Nat
  BY LineFacts, MachineAssumption DEF MachineAssumption
<1>3. ASSUME NEW c \in Cpus
      PROVE  CpuIdleCycles(m.cpu[c]) \in 0..(W - 1)
  <2>1. m.cpu[c] \in Core
    BY DEF MachineState
  <2> QED
    BY <1>2, <2>1 DEF CpuIdleCycles, Core
<1>4. T \subseteq Nat /\ T # {}
  BY <1>1, <1>2, <1>3
<1>5. n = Min(T)
  BY DEF IdleCycles
<1>6. BusIdleCycles(m) \in T /\ \A c \in Cpus : CpuIdleCycles(m.cpu[c]) \in T
  OBVIOUS
<1> HIDE DEF T, n
<1>7. n \in T /\ \A x \in T : n <= x
  BY <1>4, <1>5, MinFacts
<1>8. n \in 0..(W - 1)
  BY <1>1, <1>2, <1>4, <1>6, <1>7
<1>9. ASSUME n > 0, NEW c \in Cpus
      PROVE  Sleeping(m.cpu[c], n)
  <2>1. m.cpu[c] \in Core /\ n <= CpuIdleCycles(m.cpu[c])
    BY <1>6, <1>7 DEF MachineState
  <2> QED
    BY <1>8, <1>9, <2>1 DEF Sleeping, CpuIdleCycles, Core
<1>10. n > 0 => n <= m.timer /\ (m.queue # <<>> => n < m.queue[1].left)
  <2> DEFINE b == BusIdleCycles(m)
  <2>1. /\ b \in 0..(W - 1) /\ b <= m.timer /\ n <= b
        /\ b > 0 /\ m.queue # <<>> => b < m.queue[1].left
    BY <1>6, <1>7, BusIdleCyclesFacts
  <2>2. m.timer \in 0..(W - 1) /\ (m.queue # <<>> => m.queue[1] \in Entry)
    BY DEF MachineState
  <2> HIDE DEF b
  <2> QED
    BY <1>8, <2>1, <2>2 DEF Entry
<1> QED
  BY <1>8, <1>9, <1>10 DEF Idles, n

(* A core and an event after some cycles have been skipped. *)
LEMMA SkippedCoreFacts ==
    ASSUME NEW p \in Core, NEW s \in Nat
    PROVE  LET r == SkippedCore(p, s)
           IN  /\ r \in Core /\ r.status = p.status /\ r.mip = p.mip
               /\ r.mtie = p.mtie /\ r.atWfi = p.atWfi
               /\ r.time = IF p.status # "HALTED" /\ p.mtie THEN (p.time - s) % W ELSE p.time
<1> DEFINE t == (p.time - s) % W
<1>1. t \in 0..(W - 1)
  <2>1. p.time - s \in Int
    BY MachineAssumption DEF Core, MachineAssumption
  <2> QED
    BY <2>1, TimerWraps
<1>2. SkippedCore(p, s) = IF p.status # "HALTED" /\ p.mtie THEN [p EXCEPT !.time = t] ELSE p
  BY DEF SkippedCore
<1> HIDE DEF t
<1>3. /\ [p EXCEPT !.time = t] \in Core /\ [p EXCEPT !.time = t].time = t
      /\ [p EXCEPT !.time = t].status = p.status /\ [p EXCEPT !.time = t].mip = p.mip
      /\ [p EXCEPT !.time = t].mtie = p.mtie /\ [p EXCEPT !.time = t].atWfi = p.atWfi
  BY <1>1 DEF Core
<1> QED
  BY <1>2, <1>3 DEF t

LEMMA SkippedEventFacts ==
    ASSUME NEW e \in Entry, NEW s \in Nat
    PROVE  LET r == SkippedEvent(e, s)
           IN  /\ r \in Entry /\ r.event = e.event
               /\ r.left = IF e.left < s THEN 0 ELSE e.left - s
BY DEF SkippedEvent, Entry

(* The fields of the machine after a skip. *)
LEMMA SkipFacts ==
    ASSUME NEW m \in MachineState, NEW s \in Nat
    PROVE  LET n == Skip(m, s)
           IN  /\ n \in MachineState
               /\ n.timer = (m.timer - s) % W /\ n.halted = m.halted
               /\ Len(n.queue) = Len(m.queue)
               /\ \A i \in 1..Len(m.queue) : /\ m.queue[i] \in Entry
                                             /\ n.queue[i] = SkippedEvent(m.queue[i], s)
               /\ \A c \in Cpus : /\ m.cpu[c] \in Core
                                  /\ n.cpu[c] = SkippedCore(m.cpu[c], s)
<1> DEFINE t == (m.timer - s) % W
           q == [i \in DOMAIN m.queue |-> SkippedEvent(m.queue[i], s)]
           p == [c \in Cpus |-> SkippedCore(m.cpu[c], s)]
           n == Skip(m, s)
<1>1. t \in 0..(W - 1)
  <2>1. m.timer - s \in Int
    BY MachineAssumption DEF MachineState, MachineAssumption
  <2> QED
    BY <2>1, TimerWraps
<1>2. m.queue \in Seq(Entry) /\ \A i \in 1..Len(m.queue) : m.queue[i] \in Entry
  BY DEF MachineState
<1>3. q \in Seq(Entry) /\ Len(q) = Len(m.queue)
  <2>1. \A i \in 1..Len(m.queue) : SkippedEvent(m.queue[i], s) \in Entry
    BY <1>2, SkippedEventFacts
  <2> QED
    BY <1>2, <2>1
<1>4. \A c \in Cpus : m.cpu[c] \in Core
  BY DEF MachineState
<1>5. p \in [Cpus -> Core]
  BY <1>4, SkippedCoreFacts
<1>6. n = [m EXCEPT !.timer = t, !.queue = q, !.cpu = p]
  BY DEF Skip, MachineState
<1>7. /\ \A i \in 1..Len(m.queue) : q[i] = SkippedEvent(m.queue[i], s)
      /\ \A c \in Cpus : p[c] = SkippedCore(m.cpu[c], s)
  BY <1>2
<1> HIDE DEF t, q, p, n
<1>8. /\ n \in MachineState /\ n.timer = t /\ n.queue = q /\ n.cpu = p
      /\ n.halted = m.halted
  BY <1>1, <1>3, <1>5, <1>6 DEF MachineState
<1> QED
  BY <1>2, <1>3, <1>4, <1>7, <1>8 DEF n, t

(* A skip wakes no core, starts none, and leaves the queue in order. *)
LEMMA SkipIsCalm ==
    ASSUME NEW m \in Calm, InOrder(m.queue), NEW s \in Nat
    PROVE  LET n == Skip(m, s)
           IN  /\ n \in Calm /\ InOrder(n.queue)
               /\ \A c \in Cpus : n.cpu[c].status = m.cpu[c].status
<1> DEFINE n == Skip(m, s)
<1>1. m \in MachineState
  BY DEF Calm
<1>2. /\ n \in MachineState /\ Len(n.queue) = Len(m.queue)
      /\ \A i \in 1..Len(m.queue) : /\ m.queue[i] \in Entry
                                    /\ n.queue[i] = SkippedEvent(m.queue[i], s)
      /\ \A c \in Cpus : m.cpu[c] \in Core /\ n.cpu[c] = SkippedCore(m.cpu[c], s)
  BY <1>1, SkipFacts
<1> HIDE DEF n
<1>3. \A c \in Cpus : n.cpu[c].status = m.cpu[c].status /\ n.cpu[c].mip = m.cpu[c].mip
  BY <1>2, SkippedCoreFacts
<1>4. n \in Calm
  BY <1>2, <1>3 DEF Calm
<1>5. ASSUME NEW i \in 1..Len(n.queue), NEW j \in 1..Len(n.queue), i <= j
      PROVE  n.queue[i].left <= n.queue[j].left
  <2>1. m.queue[i] \in Entry /\ m.queue[j] \in Entry /\ m.queue[i].left <= m.queue[j].left
    BY <1>2, <1>5 DEF InOrder
  <2>2. /\ n.queue[i].left = IF m.queue[i].left < s THEN 0 ELSE m.queue[i].left - s
        /\ n.queue[j].left = IF m.queue[j].left < s THEN 0 ELSE m.queue[j].left - s
    <3>1. \A e \in Entry : SkippedEvent(e, s).left = IF e.left < s THEN 0 ELSE e.left - s
      BY SkippedEventFacts
    <3>2. /\ n.queue[i] = SkippedEvent(m.queue[i], s)
          /\ n.queue[j] = SkippedEvent(m.queue[j], s)
      BY <1>2
    <3> QED
      BY <2>1, <3>1, <3>2
  <2>3. m.queue[i].left \in Nat /\ m.queue[j].left \in Nat
    BY <2>1 DEF Entry
  <2> QED
    BY <2>1, <2>2, <2>3, SMTT(40)
<1> QED
  BY <1>3, <1>4, <1>5 DEF InOrder, n

(* What can still be skipped after a part has been. *)
LEMMA SkipIdles ==
    ASSUME NEW m \in MachineState, NEW n \in Nat, NEW s \in 0..n, Idles(m, n)
    PROVE  Idles(Skip(m, s), n - s)
<1> DEFINE r == Skip(m, s)
<1>1. s \in Nat /\ m.timer \in 0..(W - 1) /\ W \in Nat
  BY MachineAssumption DEF MachineState, MachineAssumption
<1>2. /\ r \in MachineState /\ r.timer = (m.timer - s) % W
      /\ Len(r.queue) = Len(m.queue)
      /\ \A i \in 1..Len(m.queue) : /\ m.queue[i] \in Entry
                                    /\ r.queue[i] = SkippedEvent(m.queue[i], s)
      /\ \A c \in Cpus : m.cpu[c] \in Core /\ r.cpu[c] = SkippedCore(m.cpu[c], s)
  BY <1>1, SkipFacts
<1> HIDE DEF r
<1>3. n - s <= r.timer
  <2>1. n <= m.timer
    BY DEF Idles
  <2>2. m.timer - s \in Int /\ m.timer - s \in 0..(W - 1)
    BY <1>1, <2>1
  <2>3. r.timer = m.timer - s
    BY <1>2, <2>2, TimerWraps
  <2> QED
    BY <1>1, <2>1, <2>3
<1>4. ASSUME r.queue # <<>>
      PROVE  n - s < r.queue[1].left
  <2>1. r.queue \in Seq(Entry) /\ m.queue \in Seq(Entry)
    BY <1>2 DEF MachineState
  <2>2. m.queue # <<>> /\ 1 \in 1..Len(m.queue)
    BY <1>2, <1>4, <2>1
  <2>3. n < m.queue[1].left /\ m.queue[1] \in Entry
    BY <1>2, <2>2 DEF Idles
  <2>4. r.queue[1].left = IF m.queue[1].left < s THEN 0 ELSE m.queue[1].left - s
    BY <1>1, <1>2, <2>2, SkippedEventFacts
  <2>5. m.queue[1].left \in Nat
    BY <2>3 DEF Entry
  <2> QED
    BY <1>1, <2>3, <2>4, <2>5
<1>5. ASSUME NEW c \in Cpus
      PROVE  Sleeping(r.cpu[c], n - s)
  <2> DEFINE p == m.cpu[c]
             u == r.cpu[c]
  <2>1. Sleeping(p, n) /\ p \in Core /\ u = SkippedCore(p, s)
    BY <1>2 DEF Idles
  <2> HIDE DEF p, u
  <2>2. /\ u.status = p.status /\ u.mtie = p.mtie
        /\ u.time = IF p.status # "HALTED" /\ p.mtie THEN (p.time - s) % W ELSE p.time
    BY <1>1, <2>1, SkippedCoreFacts
  <2>3. CASE p.status = "IDLE" /\ p.mtie
    <3>1. n <= p.time /\ p.time \in 0..(W - 1)
      BY <2>1, <2>3 DEF Sleeping, Core
    <3>2. p.time - s \in Int /\ p.time - s \in 0..(W - 1)
      BY <1>1, <3>1
    <3>3. u.time = p.time - s
      BY <2>2, <2>3, <3>2, TimerWraps
    <3>4. n - s <= u.time
      BY <1>1, <3>1, <3>3
    <3> QED
      BY <2>1, <2>2, <2>3, <3>4 DEF Sleeping, u
  <2>4. CASE ~(p.status = "IDLE" /\ p.mtie)
    BY <2>1, <2>2, <2>4 DEF Sleeping, u
  <2> QED
    BY <2>3, <2>4
<1> QED
  BY <1>3, <1>4, <1>5 DEF Idles, r

(* Two machines with the same fields are the same. *)
LEMMA SameMachine ==
    ASSUME NEW x \in MachineState, NEW y \in MachineState,
           x.timer = y.timer, x.halted = y.halted,
           Len(x.queue) = Len(y.queue),
           \A i \in 1..Len(x.queue) : x.queue[i] = y.queue[i],
           \A c \in Cpus : x.cpu[c] = y.cpu[c]
    PROVE  x = y
<1>1. x.queue \in Seq(Entry) /\ y.queue \in Seq(Entry)
  BY DEF MachineState
<1>2. x.queue = y.queue
  BY <1>1
<1>3. x.cpu = y.cpu
  BY DEF MachineState
<1> QED
  BY <1>2, <1>3 DEF MachineState

LEMMA SameCore ==
    ASSUME NEW x \in Core, NEW y \in Core, x.status = y.status, x.mtie = y.mtie,
           x.time = y.time, x.mip = y.mip, x.atWfi = y.atWfi
    PROVE  x = y
BY DEF Core

(* Skipping one cycle more is skipping one cycle of what is left. *)
LEMMA SkipOneMore ==
    ASSUME NEW m \in MachineState, NEW k \in Nat, Idles(m, k + 1)
    PROVE  Skip(Skip(m, k), 1) = Skip(m, k + 1)
<1> DEFINE x == Skip(m, k)
           y == Skip(x, 1)
           z == Skip(m, k + 1)
<1>0. W \in Nat /\ m.timer \in 0..(W - 1) /\ k + 1 <= m.timer /\ k + 1 \in Nat
  BY MachineAssumption DEF MachineAssumption, MachineState, Idles
<1>1. /\ x \in MachineState /\ x.timer = (m.timer - k) % W /\ x.halted = m.halted
      /\ Len(x.queue) = Len(m.queue)
      /\ \A i \in 1..Len(m.queue) : /\ m.queue[i] \in Entry
                                    /\ x.queue[i] = SkippedEvent(m.queue[i], k)
      /\ \A c \in Cpus : m.cpu[c] \in Core /\ x.cpu[c] = SkippedCore(m.cpu[c], k)
  BY SkipFacts
<1>2. /\ z \in MachineState /\ z.timer = (m.timer - (k + 1)) % W /\ z.halted = m.halted
      /\ Len(z.queue) = Len(m.queue)
      /\ \A i \in 1..Len(m.queue) : z.queue[i] = SkippedEvent(m.queue[i], k + 1)
      /\ \A c \in Cpus : z.cpu[c] = SkippedCore(m.cpu[c], k + 1)
  BY SkipFacts
<1> HIDE DEF x, z
<1>3. /\ y \in MachineState /\ y.timer = (x.timer - 1) % W /\ y.halted = x.halted
      /\ Len(y.queue) = Len(x.queue)
      /\ \A i \in 1..Len(x.queue) : y.queue[i] = SkippedEvent(x.queue[i], 1)
      /\ \A c \in Cpus : y.cpu[c] = SkippedCore(x.cpu[c], 1)
  BY <1>1, SkipFacts
<1> HIDE DEF y
<1>4. y.timer = z.timer
  <2>1. m.timer - k \in 0..(W - 1) /\ m.timer - k \in Int
    BY <1>0
  <2>2. x.timer = m.timer - k
    BY <1>1, <2>1, TimerWraps
  <2>3. (m.timer - k) - 1 = m.timer - (k + 1)
    BY <1>0
  <2> QED
    BY <1>2, <1>3, <2>2, <2>3
<1>5. ASSUME NEW i \in 1..Len(m.queue)
      PROVE  y.queue[i] = z.queue[i]
  <2> DEFINE e == m.queue[i]
             f == SkippedEvent(e, k)
             g == SkippedEvent(f, 1)
             h == SkippedEvent(e, k + 1)
  <2>1. e \in Entry /\ y.queue[i] = g /\ z.queue[i] = h
    BY <1>1, <1>2, <1>3
  <2>2. f \in Entry /\ f.event = e.event /\ f.left = IF e.left < k THEN 0 ELSE e.left - k
    BY <2>1, SkippedEventFacts
  <2>3. /\ h \in Entry /\ h.event = e.event
        /\ h.left = IF e.left < k + 1 THEN 0 ELSE e.left - (k + 1)
    BY <1>0, <2>1, SkippedEventFacts
  <2> HIDE DEF e, f, h
  <2>4. g \in Entry /\ g.event = f.event /\ g.left = IF f.left < 1 THEN 0 ELSE f.left - 1
    BY <2>2, SkippedEventFacts
  <2> HIDE DEF g
  <2>5. e.left \in Nat
    BY <2>1 DEF Entry
  <2>6. g.left = h.left
    BY <2>2, <2>3, <2>4, <2>5
  <2>7. g = h
    BY <2>2, <2>3, <2>4, <2>6 DEF Entry
  <2> QED
    BY <2>1, <2>7
<1>6. ASSUME NEW c \in Cpus
      PROVE  y.cpu[c] = z.cpu[c]
  <2> DEFINE p == m.cpu[c]
             u == SkippedCore(p, k)
             v == SkippedCore(u, 1)
             w == SkippedCore(p, k + 1)
  <2>1. p \in Core /\ y.cpu[c] = v /\ z.cpu[c] = w /\ Sleeping(p, k + 1)
    BY <1>1, <1>2, <1>3 DEF Idles
  <2>2. /\ u \in Core /\ u.status = p.status /\ u.mip = p.mip
        /\ u.mtie = p.mtie /\ u.atWfi = p.atWfi
        /\ u.time = IF p.status # "HALTED" /\ p.mtie THEN (p.time - k) % W ELSE p.time
    BY <2>1, SkippedCoreFacts
  <2>3. /\ w \in Core /\ w.status = p.status /\ w.mip = p.mip
        /\ w.mtie = p.mtie /\ w.atWfi = p.atWfi
        /\ w.time = IF p.status # "HALTED" /\ p.mtie THEN (p.time - (k + 1)) % W ELSE p.time
    BY <1>0, <2>1, SkippedCoreFacts
  <2> HIDE DEF p, u, w
  <2>4. /\ v \in Core /\ v.status = u.status /\ v.mip = u.mip
        /\ v.mtie = u.mtie /\ v.atWfi = u.atWfi
        /\ v.time = IF u.status # "HALTED" /\ u.mtie THEN (u.time - 1) % W ELSE u.time
    BY <2>2, SkippedCoreFacts
  <2> HIDE DEF v
  <2>5. v.time = w.time
    <3>1. CASE p.status # "HALTED" /\ p.mtie
      <4>1. p.status = "IDLE" /\ k + 1 <= p.time /\ p.time \in 0..(W - 1)
        BY <2>1, <3>1 DEF Sleeping, Core
      <4>2. p.time - k \in 0..(W - 1) /\ p.time - k \in Int
        BY <1>0, <4>1
      <4>3. u.time = p.time - k
        BY <2>2, <3>1, <4>2, TimerWraps
      <4>4. (p.time - k) - 1 = p.time - (k + 1)
        BY <1>0, <4>1
      <4> QED
        BY <2>2, <2>3, <2>4, <3>1, <4>3, <4>4
    <3>2. CASE ~(p.status # "HALTED" /\ p.mtie)
      BY <2>2, <2>3, <2>4, <3>2
    <3> QED
      BY <3>1, <3>2
  <2>6. v = w
    BY <2>2, <2>3, <2>4, <2>5, SameCore
  <2> QED
    BY <2>1, <2>6
<1>7. y = z
  BY <1>1, <1>2, <1>3, <1>4, <1>5, <1>6, SameMachine
<1> QED
  BY <1>7 DEF x, y, z

(* A skip of nothing. *)
LEMMA SkipNothing ==
    ASSUME NEW m \in MachineState
    PROVE  Skip(m, 0) = m
<1> DEFINE n == Skip(m, 0)
<1>1. /\ n \in MachineState /\ n.timer = (m.timer - 0) % W /\ n.halted = m.halted
      /\ Len(n.queue) = Len(m.queue)
      /\ \A i \in 1..Len(m.queue) : /\ m.queue[i] \in Entry
                                    /\ n.queue[i] = SkippedEvent(m.queue[i], 0)
      /\ \A c \in Cpus : m.cpu[c] \in Core /\ n.cpu[c] = SkippedCore(m.cpu[c], 0)
  BY SkipFacts
<1> HIDE DEF n
<1>2. W \in Nat /\ \A x \in 0..(W - 1) : x - 0 = x /\ x \in Int
  BY MachineAssumption DEF MachineAssumption
<1>3. n.timer = m.timer
  BY <1>1, <1>2, TimerWraps DEF MachineState
<1>4. ASSUME NEW i \in 1..Len(m.queue)
      PROVE  n.queue[i] = m.queue[i]
  <2> DEFINE e == m.queue[i]
             f == SkippedEvent(e, 0)
  <2>1. e \in Entry
    BY <1>1
  <2>2. f \in Entry /\ f.event = e.event /\ f.left = IF e.left < 0 THEN 0 ELSE e.left - 0
    BY <2>1, SkippedEventFacts
  <2> HIDE DEF e, f
  <2>3. f = e
    BY <2>1, <2>2 DEF Entry
  <2> QED
    BY <1>1, <2>3 DEF e, f
<1>5. ASSUME NEW c \in Cpus
      PROVE  n.cpu[c] = m.cpu[c]
  <2> DEFINE p == m.cpu[c]
             u == SkippedCore(p, 0)
  <2>1. p \in Core
    BY <1>1
  <2>2. /\ u \in Core /\ u.status = p.status /\ u.mip = p.mip
        /\ u.mtie = p.mtie /\ u.atWfi = p.atWfi
        /\ u.time = IF p.status # "HALTED" /\ p.mtie THEN (p.time - 0) % W ELSE p.time
    BY <2>1, SkippedCoreFacts
  <2> HIDE DEF p, u
  <2>3. u.time = p.time
    BY <1>2, <2>1, <2>2, TimerWraps DEF Core
  <2>4. u = p
    BY <2>1, <2>2, <2>3, SameCore
  <2> QED
    BY <1>1, <2>4 DEF p, u
<1>6. n = m
  BY <1>1, <1>3, <1>4, <1>5, SameMachine
<1> QED
  BY <1>6 DEF n

-----------------------------------------------------------------------------
(* Waiting *)

(* The tick of a bus whose next event is more than a cycle away runs no
   event. *)
LEMMA QuietClockTick ==
    ASSUME NEW m \in Calm, InOrder(m.queue), Idles(m, 1)
    PROVE  LET n == ClockTick(m)
           IN  /\ n \in Calm
               /\ n.timer = (m.timer - 1) % W /\ n.halted = m.halted /\ n.cpu = m.cpu
               /\ Len(n.queue) = Len(m.queue)
               /\ \A i \in 1..Len(m.queue) : n.queue[i] = SkippedEvent(m.queue[i], 1)
<1> DEFINE q == m.queue
           k == DueEvents(q)
           t == Timed(m)
           r == AfterEvents(t, q, k)
           n == ClockTick(m)
<1>0. m \in MachineState /\ q \in Seq(Entry) /\ Len(q) \in Nat
  BY DEF Calm, MachineState
<1>1. \A i \in 1..Len(q) : q[i] \in Entry /\ q[i].left > 1
  <2>1. ASSUME NEW i \in 1..Len(q)
        PROVE  q[i] \in Entry /\ q[i].left > 1
    <3>1. 1 \in 1..Len(q) /\ q # <<>> /\ q[i] \in Entry /\ q[1] \in Entry
      BY <1>0
    <3>2. 1 < q[1].left /\ q[1].left <= q[i].left
      BY <1>0, <3>1 DEF Idles, InOrder
    <3> QED
      BY <3>1, <3>2 DEF Entry
  <2> QED
    BY <2>1
<1>2. k = 0
  <2>1. k \in 0..Len(q) /\ \A i \in 1..k : q[i].left <= 1
    BY <1>0, DueEventsFacts
  <2> HIDE DEF k, q
  <2>2. k # 0 => 1 \in 1..k /\ 1 \in 1..Len(q)
    BY <1>0, <2>1
  <2>3. k # 0 => q[1] \in Entry /\ q[1].left > 1 /\ q[1].left <= 1
    BY <1>1, <2>1, <2>2
  <2> QED
    BY <2>3 DEF Entry
<1>3. /\ t \in Calm /\ t.timer = (m.timer - 1) % W
      /\ t.halted = m.halted /\ t.cpu = m.cpu
  <2>1. m.timer # 0
    BY <1>0 DEF Idles, MachineState
  <2> QED
    BY <2>1, TimedFacts DEF Decremented
<1>4. n = [r EXCEPT !.queue = Advanced(q, k)]
  BY DEF ClockTick
<1> HIDE DEF t
<1>5. r = t
  <2> HIDE DEF q, k
  <2>1. k \in 0..Len(q)
    BY <1>0, <1>2
  <2> QED
    BY <1>0, <1>2, <1>3, <2>1, AfterEventsFacts
<1>6. n \in Calm
  BY ClockTickFacts
<1> HIDE DEF r, n, k
<1>7. Advanced(q, k) = [i \in 1..Len(q) |-> [q[i] EXCEPT !.left = @ - 1]]
  <2>1. Len(q) - 0 = Len(q) /\ \A i \in 1..Len(q) : i + 0 = i
    BY <1>0
  <2> QED
    BY <1>2, <2>1 DEF Advanced
<1>8. \A i \in 1..Len(q) : [q[i] EXCEPT !.left = @ - 1] = SkippedEvent(q[i], 1)
  <2>1. \A e \in Entry : e.left > 1 => [e EXCEPT !.left = @ - 1] = SkippedEvent(e, 1)
    BY DEF SkippedEvent, Entry
  <2> QED
    BY <1>1, <2>1
<1>9. /\ n.timer = t.timer /\ n.halted = t.halted /\ n.cpu = t.cpu
      /\ n.queue = Advanced(q, k)
  BY <1>3, <1>4, <1>5 DEF Calm, MachineState
<1>10. /\ Len(Advanced(q, k)) = Len(q)
       /\ \A i \in 1..Len(q) : Advanced(q, k)[i] = SkippedEvent(q[i], 1)
  BY <1>0, <1>7, <1>8
<1> QED
  BY <1>3, <1>6, <1>9, <1>10 DEF n

(* A core that sleeps while one cycle goes by is as if one had been skipped. *)
LEMMA QuietCpuTick ==
    ASSUME NEW m \in Calm, NEW c \in Cpus, Sleeping(m.cpu[c], 1)
    PROVE  LET n == CpuTick(m, c)
           IN  n \in Calm /\ SameBut(m, n, c) /\ n.cpu[c] = SkippedCore(m.cpu[c], 1)
<1> DEFINE n == CpuTick(m, c)
           p == m.cpu[c]
<1>1. n \in Calm /\ SameBut(m, n, c) /\ m \in MachineState /\ p \in Core
  BY CpuTickFacts DEF Calm, MachineState
<1>2. CASE p.status = "HALTED"
  BY <1>1, <1>2 DEF CpuTick, SkippedCore
<1>3. CASE p.status = "IDLE" /\ p.mtie
  <2> DEFINE u == [p EXCEPT !.time = Decremented(@)]
  <2>1. p.time \in 0..(W - 1) /\ 1 <= p.time
    BY <1>1, <1>3 DEF Sleeping, Core
  <2>2. p.time # 0
    BY <2>1
  <2>3. n = [m EXCEPT !.cpu[c].time = Decremented(@)]
    BY <1>3, <2>2 DEF CpuTick
  <2>4. n.cpu[c] = u
    BY <1>1, <2>3 DEF MachineState
  <2>5. u = SkippedCore(p, 1)
    BY <1>1, <1>3 DEF SkippedCore, Decremented, Core
  <2> HIDE DEF n, p, u
  <2> QED
    BY <1>1, <2>4, <2>5 DEF n, p
<1>4. CASE p.status = "IDLE" /\ ~p.mtie
  <2>1. n = DeassertIRQ(m, c, IL_CPUTIMER) /\ p.mip = {}
    BY <1>4 DEF CpuTick, Calm
  <2>2. n.cpu[c] = [p EXCEPT !.mip = @ \ {IL_CPUTIMER}]
    BY <1>1, <2>1, DeassertFacts
  <2>3. [p EXCEPT !.mip = @ \ {IL_CPUTIMER}] = p
    BY <1>1, <2>1 DEF Core
  <2>4. SkippedCore(p, 1) = p
    BY <1>4 DEF SkippedCore
  <2> HIDE DEF n, p
  <2> QED
    BY <1>1, <2>2, <2>3, <2>4 DEF n, p
<1>5. p.status \in {"HALTED", "IDLE"}
  BY <1>1 DEF Sleeping, Core
<1> QED
  BY <1>1, <1>2, <1>3, <1>4, <1>5

(* The cycles of all cores, which sleep: induction over the cores. *)
LEMMA QuietCpuTicks ==
    ASSUME NEW m \in Calm, \A c \in Cpus : Sleeping(m.cpu[c], 1)
    PROVE  LET n == CpuTicks(m)
           IN  /\ n \in Calm
               /\ n.timer = m.timer /\ n.queue = m.queue /\ n.halted = m.halted
               /\ \A c \in Cpus : n.cpu[c] = SkippedCore(m.cpu[c], 1)
<1>0. /\ NCpus \in Nat /\ \A c \in Cpus : c \in Nat /\ c < NCpus
      /\ \A k \in 1..NCpus : k - 1 \in Cpus
  BY MachineAssumption DEF MachineAssumption, Cpus
<1>1. PICK F \in [1..NCpus -> [Calm -> Calm]] :
          \A k \in 1..NCpus, x \in Calm : F[k][x] = CpuTick(x, k - 1)
  <2>1. \A k \in 1..NCpus, x \in Calm : CpuTick(x, k - 1) \in Calm
    BY <1>0, CpuTickFacts
  <2> DEFINE G == [k \in 1..NCpus |-> [x \in Calm |-> CpuTick(x, k - 1)]]
  <2>2. /\ G \in [1..NCpus -> [Calm -> Calm]]
        /\ \A k \in 1..NCpus, x \in Calm : G[k][x] = CpuTick(x, k - 1)
    BY <2>1
  <2> HIDE DEF G
  <2> QED
    BY <2>2
<1>2. PICK f \in [0..NCpus -> Calm] : f[0] = m /\ \A k \in 1..NCpus : f[k] = F[k][f[k - 1]]
  BY <1>0, RecursionExists
<1>3. \A k \in 0..NCpus : f[k] = IF k = 0 THEN m ELSE CpuTick(f[k - 1], k - 1)
  <2>1. \A k \in 0..NCpus : k # 0 => /\ k \in 1..NCpus /\ k - 1 \in 0..NCpus
                                     /\ f[k - 1] \in Calm
                                     /\ F[k][f[k - 1]] = CpuTick(f[k - 1], k - 1)
    BY <1>0, <1>1
  <2> QED
    BY <1>2, <2>1
<1> DEFINE ticked == CHOOSE g : g = [c \in 0..NCpus |->
                                        IF c = 0 THEN m ELSE CpuTick(g[c - 1], c - 1)]
<1>4. f = [c \in 0..NCpus |-> IF c = 0 THEN m ELSE CpuTick(f[c - 1], c - 1)]
  BY <1>2, <1>3
<1>5. ticked = [c \in 0..NCpus |-> IF c = 0 THEN m ELSE CpuTick(ticked[c - 1], c - 1)]
  BY <1>4
<1>6. CpuTicks(m) = ticked[NCpus]
  BY DEF CpuTicks
<1> HIDE DEF ticked
<1> DEFINE Right(k) ==
              /\ ticked[k] \in Calm /\ ticked[k].timer = m.timer
              /\ ticked[k].queue = m.queue /\ ticked[k].halted = m.halted
              /\ \A c \in Cpus : ticked[k].cpu[c] = IF c < k THEN SkippedCore(m.cpu[c], 1)
                                                    ELSE m.cpu[c]
           S == {k \in Nat : k <= NCpus => Right(k)}
<1>7. 0 \in S
  <2>1. ticked[0] = m
    BY <1>0, <1>5
  <2> QED
    BY <1>0, <2>1
<1>8. ASSUME NEW k \in Nat, k \in S
      PROVE  k + 1 \in S
  <2> SUFFICES ASSUME k + 1 <= NCpus PROVE Right(k + 1)
    OBVIOUS
  <2>1. Right(k)
    BY <1>0, <1>8
  <2>2. k + 1 \in 0..NCpus /\ k + 1 # 0 /\ (k + 1) - 1 = k /\ k \in Cpus
    BY <1>0 DEF Cpus
  <2> DEFINE x == ticked[k]
             y == CpuTick(x, k)
  <2>3. ticked[k + 1] = y
    BY <1>5, <2>2
  <2>4. /\ x \in Calm /\ x.timer = m.timer /\ x.queue = m.queue /\ x.halted = m.halted
        /\ x.cpu[k] = m.cpu[k]
    BY <2>1, <2>2
  <2> HIDE DEF x
  <2>5. y \in Calm /\ SameBut(x, y, k) /\ y.cpu[k] = SkippedCore(x.cpu[k], 1)
    BY <2>2, <2>4, QuietCpuTick
  <2> HIDE DEF y
  <2>6. \A c \in Cpus : y.cpu[c] = IF c < k + 1 THEN SkippedCore(m.cpu[c], 1) ELSE m.cpu[c]
    <3>1. \A c \in Cpus : x.cpu[c] = IF c < k THEN SkippedCore(m.cpu[c], 1) ELSE m.cpu[c]
      BY <2>1 DEF x
    <3>2. \A c \in Cpus : c # k => y.cpu[c] = x.cpu[c] /\ (c < k + 1 <=> c < k)
      BY <1>0, <2>5 DEF SameBut
    <3> QED
      BY <2>2, <2>4, <2>5, <3>1, <3>2
  <2> QED
    BY <2>3, <2>4, <2>5, <2>6 DEF SameBut
<1> HIDE DEF Right
<1>9. NCpus \in S
  <2> HIDE DEF S
  <2> QED
    BY <1>0, <1>7, <1>8, Induction
<1>10. Right(NCpus)
  BY <1>0, <1>9
<1> QED
  BY <1>0, <1>6, <1>10 DEF Right

(* One cycle in which nothing can happen is one that may be skipped. *)
LEMMA QuietCycle ==
    ASSUME NEW m \in Calm, InOrder(m.queue), Idles(m, 1)
    PROVE  CpuTicks(ClockTick(m)) = Skip(m, 1)
<1> DEFINE x == ClockTick(m)
           y == CpuTicks(x)
           z == Skip(m, 1)
<1>1. /\ x \in Calm
      /\ x.timer = (m.timer - 1) % W /\ x.halted = m.halted /\ x.cpu = m.cpu
      /\ Len(x.queue) = Len(m.queue)
      /\ \A i \in 1..Len(m.queue) : x.queue[i] = SkippedEvent(m.queue[i], 1)
  BY QuietClockTick
<1> HIDE DEF x
<1>2. \A c \in Cpus : Sleeping(x.cpu[c], 1)
  BY <1>1 DEF Idles
<1>3. /\ y \in Calm
      /\ y.timer = x.timer /\ y.queue = x.queue /\ y.halted = x.halted
      /\ \A c \in Cpus : y.cpu[c] = SkippedCore(x.cpu[c], 1)
  BY <1>1, <1>2, QuietCpuTicks
<1>4. /\ z \in MachineState /\ z.timer = (m.timer - 1) % W /\ z.halted = m.halted
      /\ Len(z.queue) = Len(m.queue)
      /\ \A i \in 1..Len(m.queue) : z.queue[i] = SkippedEvent(m.queue[i], 1)
      /\ \A c \in Cpus : z.cpu[c] = SkippedCore(m.cpu[c], 1)
  <2>1. m \in MachineState /\ 1 \in Nat
    BY DEF Calm
  <2> QED
    BY <2>1, SkipFacts
<1> HIDE DEF y, z
<1>5. y \in MachineState
  BY <1>3 DEF Calm
<1>6. y = z
  BY <1>1, <1>3, <1>4, <1>5, SameMachine
<1> QED
  BY <1>6 DEF x, y, z

(* As many cycles of waiting as nothing can happen in are as many skipped. *)
LEMMA WaitingIsSkipping ==
    ASSUME machine \in Calm, InOrder(machine.queue), NEW n \in Nat, Idles(machine, n)
    PROVE  Waited(n) = Skip(machine, n)
<1> DEFINE after == CHOOSE g : g = [k \in 0..n |->
                       IF k = 0 THEN machine ELSE CpuTicks(ClockTick(g[k - 1]))]
           m == machine
<1>0. m \in Calm /\ m \in MachineState /\ InOrder(m.queue) /\ Idles(m, n)
  BY DEF Calm
<1>1. ASSUME NEW k \in Nat, k + 1 <= n
      PROVE  CpuTicks(ClockTick(Skip(m, k))) = Skip(m, k + 1)
  <2>1. Idles(m, k + 1)
    <3>1. m.timer \in Nat /\ \A c \in Cpus : m.cpu[c] \in Core
      BY <1>0, MachineAssumption DEF MachineState, MachineAssumption
    <3>2. m.queue # <<>> => m.queue[1].left \in Nat
      <4>1. m.queue \in Seq(Entry)
        BY <1>0 DEF MachineState
      <4>2. m.queue # <<>> => m.queue[1] \in Entry
        BY <4>1
      <4> QED
        BY <4>2 DEF Entry
    <3>3. \A c \in Cpus : m.cpu[c].time \in Nat
      BY <3>1, MachineAssumption DEF Core, MachineAssumption
    <3> HIDE DEF m
    <3> QED
      BY <1>0, <1>1, <3>1, <3>2, <3>3 DEF Idles, Sleeping
  <2>2. Idles(Skip(m, k), 1)
    <3>1. k + 1 \in Nat /\ k \in 0..(k + 1) /\ (k + 1) - k = 1
      OBVIOUS
    <3> QED
      BY <1>0, <2>1, <3>1, SkipIdles
  <2>3. Skip(m, k) \in Calm /\ InOrder(Skip(m, k).queue)
    BY <1>0, SkipIsCalm
  <2>4. CpuTicks(ClockTick(Skip(m, k))) = Skip(Skip(m, k), 1)
    BY <2>2, <2>3, QuietCycle
  <2>5. Skip(Skip(m, k), 1) = Skip(m, k + 1)
    BY <1>0, <2>1, SkipOneMore
  <2> QED
    BY <2>4, <2>5
<1>2. Skip(m, 0) = m
  BY <1>0, SkipNothing
<1> HIDE DEF m
<1> DEFINE f == [k \in 0..n |-> Skip(m, k)]
<1>3. f = [k \in 0..n |-> IF k = 0 THEN m ELSE CpuTicks(ClockTick(f[k - 1]))]
  <2>1. ASSUME NEW k \in 0..n, k # 0
        PROVE  Skip(m, k) = CpuTicks(ClockTick(f[k - 1]))
    <3>1. k - 1 \in Nat /\ k - 1 \in 0..n /\ (k - 1) + 1 = k /\ (k - 1) + 1 <= n
      BY <2>1
    <3>2. f[k - 1] = Skip(m, k - 1)
      BY <3>1
    <3> HIDE DEF f
    <3> QED
      BY <1>1, <3>1, <3>2
  <2> QED
    BY <1>2, <2>1
<1> HIDE DEF f
<1>4. after = [k \in 0..n |-> IF k = 0 THEN m ELSE CpuTicks(ClockTick(after[k - 1]))]
  BY <1>3 DEF m
<1>5. Waited(n) = after[n]
  BY DEF Waited
<1> HIDE DEF after
<1> DEFINE S == {k \in Nat : k <= n => after[k] = Skip(m, k)}
<1>6. 0 \in S
  BY <1>2, <1>4
<1>7. ASSUME NEW k \in Nat, k \in S
      PROVE  k + 1 \in S
  <2> SUFFICES ASSUME k + 1 <= n PROVE after[k + 1] = Skip(m, k + 1)
    OBVIOUS
  <2>1. after[k] = Skip(m, k)
    BY <1>7
  <2>2. k + 1 \in 0..n /\ k + 1 # 0 /\ (k + 1) - 1 = k
    OBVIOUS
  <2>3. after[k + 1] = CpuTicks(ClockTick(after[k]))
    BY <1>4, <2>2
  <2> QED
    BY <1>1, <2>1, <2>3
<1>8. n \in S
  <2> HIDE DEF S
  <2> QED
    BY <1>6, <1>7, Induction
<1> QED
  BY <1>5, <1>8 DEF m

-----------------------------------------------------------------------------
(* The invariants *)

(* Machine::step only runs for a session that runs and does not skip, and the
   user asked for one cycle only if it runs. *)
LoopInv == /\ inStep => status = "running" /\ ~idleOn
           /\ stepping => inStep

MachineInv ==
    /\ TypeOK
    /\ NoLostWakeUp
    /\ InOrder(machine.queue)
    /\ OneDriver
    /\ LoopInv

(* While cycles are being skipped, nothing can happen in those that are left. *)
IdleInv == idleOn => 0 < idleSteps /\ Idles(machine, idleSteps)

(* What a step may do to a halted core. *)
StaysHalted ==
    \A c \in Cpus :
        machine.cpu[c].status = "HALTED" /\ machine'.cpu[c].status # "HALTED"
            => ResetIsDue(c) \/ machine' = PoweredOn

(* The variables of the session and of the loop. *)
SessionOK ==
    /\ status \in {"off", "stopped", "running"}
    /\ timerOn \in BOOLEAN /\ idleOn \in BOOLEAN
    /\ idleSteps \in 0..(W - 1)
    /\ stepping \in BOOLEAN
    /\ inStep \in BOOLEAN
    /\ turn \in 0..NCpus
    /\ steps \in 0..IterCycles
    /\ stopRequested \in BOOLEAN /\ pauseRequested \in BOOLEAN

LEMMA TypeOKParts ==
    TypeOK /\ NoLostWakeUp <=> machine \in Calm /\ SessionOK
BY DEF TypeOK, NoLostWakeUp, Calm, SessionOK

LEMMA PoweredOnFacts ==
    PoweredOn \in Calm /\ InOrder(PoweredOn.queue)
<1>1. PoweredOn.queue = <<>> /\ Len(<<>>) = 0
  BY DEF PoweredOn
<1> QED
  BY <1>1, PoweredOnCalm DEF InOrder

LEMMA ConstantFacts ==
    /\ NCpus \in Nat \ {0} /\ W \in Nat \ {0}
    /\ IterCycles \in Nat \ {0} /\ kMaxSkipped \in Nat \ {0}
    /\ Cpus = 0..(NCpus - 1)
BY MachineAssumption DEF MachineAssumption, Cpus

LEMMA InitFacts ==
    ASSUME Init
    PROVE  MachineInv /\ IdleInv
<1>1. machine \in Calm /\ InOrder(machine.queue)
  BY PoweredOnFacts DEF Init
<1>2. SessionOK
  <2>1. 0 \in 0..(W - 1) /\ NCpus \in 0..NCpus /\ 0 \in 0..IterCycles
    BY ConstantFacts
  <2> QED
    BY <2>1 DEF Init, SessionOK
<1>3. OneDriver /\ LoopInv /\ IdleInv
  BY DEF Init, OneDriver, LoopInv, IdleInv
<1> QED
  BY <1>1, <1>2, <1>3, TypeOKParts DEF MachineInv

(* What every step has to be shown to keep. *)
Keeps == MachineInv' /\ (IdleInv => IdleInv') /\ StaysHalted

LEMMA Kept ==
    ASSUME machine' \in Calm, InOrder(machine'.queue), SessionOK', OneDriver', LoopInv',
           IdleInv => IdleInv', StaysHalted
    PROVE  Keeps
<1>1. (TypeOK /\ NoLostWakeUp)'
  BY DEF TypeOK, NoLostWakeUp, Calm, SessionOK
<1> QED
  BY <1>1 DEF Keeps, MachineInv

LEMMA BeginCycleStep ==
    ASSUME MachineInv, BeginCycle
    PROVE  Keeps
<1>1. machine \in Calm /\ InOrder(machine.queue) /\ SessionOK
  BY TypeOKParts DEF MachineInv
<1>2. /\ machine' = ClockTick(machine) /\ turn' = 0 /\ steps' = steps - 1 /\ steps > 0
      /\ inStep
      /\ UNCHANGED <<sessionVars, inStep, stopRequested, pauseRequested>>
  BY DEF BeginCycle
<1> DEFINE n == ClockTick(machine)
<1>3. /\ n \in Calm /\ InOrder(n.queue)
      /\ \A c \in Cpus :
            machine.cpu[c].status = "HALTED" /\ n.cpu[c].status # "HALTED"
               => \E i \in 1..Len(machine.queue) :
                     /\ machine.queue[i].left <= 1
                     /\ machine.queue[i].event.kind = "reset"
                     /\ machine.queue[i].event.cpu = c
  BY <1>1, ClockTickFacts
<1> HIDE DEF n
<1>4. machine' \in Calm /\ InOrder(machine'.queue) /\ StaysHalted
  BY <1>2, <1>3 DEF StaysHalted, ResetIsDue, n
<1>5. SessionOK'
  BY <1>1, <1>2, ConstantFacts DEF SessionOK, sessionVars
<1>6. OneDriver' /\ LoopInv'
  BY <1>2 DEF MachineInv, OneDriver, LoopInv, sessionVars
<1>7. IdleInv => IdleInv'
  BY <1>2 DEF MachineInv, LoopInv, IdleInv, sessionVars
<1> QED
  BY <1>4, <1>5, <1>6, <1>7, Kept

LEMMA CycleStep ==
    ASSUME MachineInv, NEW c \in Cpus, Cycle(c)
    PROVE  Keeps
<1> DEFINE m == CpuTick(machine, c)
<1>1. machine \in Calm /\ InOrder(machine.queue) /\ SessionOK
  BY TypeOKParts DEF MachineInv
<1>2. /\ m \in Calm /\ m.queue = machine.queue
      /\ \A d \in Cpus : machine.cpu[d].status = "HALTED" => m.cpu[d].status = "HALTED"
  BY <1>1, CpuTickFacts DEF SameBut
<1>3. /\ inStep /\ turn' = c + 1 /\ UNCHANGED <<sessionVars, inStep, steps>>
      /\ \/ machine' = m /\ UNCHANGED <<stopRequested, pauseRequested>>
         \/ /\ m.cpu[c].status = "RUNNING"
            /\ Suspend(m, c) \/ Execute(m, c)
            /\ stopRequested' \in {stopRequested, TRUE}
  BY DEF Cycle
<1> HIDE DEF m
<1>4. /\ machine' \in Calm /\ InOrder(machine'.queue)
      /\ \A d \in Cpus : m.cpu[d].status = "HALTED" => machine'.cpu[d].status = "HALTED"
      /\ stopRequested' \in BOOLEAN /\ pauseRequested' \in BOOLEAN
  <2>1. CASE machine' = m /\ UNCHANGED <<stopRequested, pauseRequested>>
    BY <1>1, <1>2, <2>1 DEF SessionOK
  <2>2. ASSUME m.cpu[c].status = "RUNNING", Suspend(m, c)
        PROVE  /\ machine' \in Calm /\ machine'.queue = m.queue
               /\ \A d \in Cpus : m.cpu[d].status = "HALTED"
                                    => machine'.cpu[d].status = "HALTED"
               /\ pauseRequested' \in BOOLEAN
    BY <1>1, <1>2, <2>2, SuspendFacts DEF SessionOK
  <2>3. ASSUME m.cpu[c].status = "RUNNING", Execute(m, c)
        PROVE  /\ machine' \in Calm /\ InOrder(machine'.queue)
               /\ \A d \in Cpus : m.cpu[d].status = "HALTED"
                                    => machine'.cpu[d].status = "HALTED"
               /\ pauseRequested' \in BOOLEAN
    BY <1>1, <1>2, <2>3, ExecuteFacts DEF SessionOK
  <2>4. CASE /\ m.cpu[c].status = "RUNNING"
             /\ Suspend(m, c) \/ Execute(m, c)
             /\ stopRequested' \in {stopRequested, TRUE}
    <3>1. stopRequested' \in BOOLEAN
      BY <1>1, <2>4 DEF SessionOK
    <3>2. CASE Suspend(m, c)
      BY <1>1, <1>2, <2>2, <2>4, <3>1, <3>2
    <3>3. CASE Execute(m, c)
      BY <2>3, <2>4, <3>1, <3>3
    <3> QED
      BY <2>4, <3>2, <3>3
  <2> QED
    BY <1>3, <2>1, <2>4
<1>5. StaysHalted
  BY <1>2, <1>4 DEF StaysHalted
<1>6. SessionOK'
  <2>1. c + 1 \in 0..NCpus
    BY ConstantFacts
  <2> QED
    BY <1>1, <1>3, <1>4, <2>1 DEF SessionOK, sessionVars
<1>7. OneDriver' /\ LoopInv'
  BY <1>3 DEF MachineInv, OneDriver, LoopInv, sessionVars
<1>8. IdleInv => IdleInv'
  BY <1>3 DEF MachineInv, LoopInv, IdleInv, sessionVars
<1> QED
  BY <1>4, <1>5, <1>6, <1>7, <1>8, Kept

LEMMA EndStepStep ==
    ASSUME MachineInv, EndStep
    PROVE  Keeps
<1>1. machine \in Calm /\ InOrder(machine.queue) /\ SessionOK
  BY TypeOKParts DEF MachineInv
<1>2. /\ inStep /\ inStep' = FALSE /\ steps' = 0
      /\ stopRequested' = FALSE /\ pauseRequested' = FALSE /\ stepping' = FALSE
      /\ UNCHANGED <<idleOn, idleSteps, turn>>
      /\ IF machine.halted
         THEN status' = "off" /\ timerOn' = FALSE /\ machine' = PoweredOn
         ELSE /\ IF stepping \/ stopRequested
                 THEN status' = "stopped" /\ timerOn' = FALSE
                 ELSE UNCHANGED <<status, timerOn>>
              /\ UNCHANGED machine
  BY DEF EndStep
<1>3. machine' \in Calm /\ InOrder(machine'.queue) /\ StaysHalted
  BY <1>1, <1>2, PoweredOnFacts DEF StaysHalted
<1>4. SessionOK'
  <2>1. 0 \in 0..IterCycles
    BY ConstantFacts
  <2> QED
    BY <1>1, <1>2, <2>1 DEF SessionOK
<1>5. OneDriver' /\ LoopInv'
  BY <1>1, <1>2 DEF SessionOK, MachineInv, OneDriver, LoopInv
<1>6. IdleInv => IdleInv'
  BY <1>2 DEF MachineInv, LoopInv, IdleInv
<1> QED
  BY <1>3, <1>4, <1>5, <1>6, Kept

LEMMA RunIterationStep ==
    ASSUME MachineInv, RunIteration
    PROVE  Keeps
<1>1. machine \in Calm /\ machine \in MachineState /\ InOrder(machine.queue) /\ SessionOK
  BY TypeOKParts DEF MachineInv, Calm
<1>2. /\ ~inStep /\ timerOn /\ UNCHANGED <<machine, status, stepping>>
      /\ idleSteps' = IdleCycles(machine)
      /\ IF idleSteps' > 0
         THEN timerOn' = FALSE /\ idleOn' = TRUE /\ UNCHANGED loopVars
         ELSE Enter(IterCycles) /\ UNCHANGED <<timerOn, idleOn>>
  BY DEF RunIteration
<1>3. status = "running" /\ ~idleOn /\ ~stepping
  BY <1>1, <1>2 DEF SessionOK, MachineInv, OneDriver, LoopInv
<1>4. idleSteps' \in 0..(W - 1) /\ (idleSteps' > 0 => Idles(machine, idleSteps'))
  BY <1>1, <1>2, IdleCyclesFacts
<1>5. StaysHalted /\ machine' = machine
  BY <1>2 DEF StaysHalted
<1>6. CASE idleSteps' > 0
  <2>1. timerOn' = FALSE /\ idleOn' = TRUE /\ UNCHANGED loopVars
    BY <1>2, <1>6
  <2>2. SessionOK'
    BY <1>1, <1>2, <1>4, <2>1 DEF SessionOK, loopVars
  <2>3. OneDriver' /\ LoopInv'
    BY <1>2, <1>3, <2>1 DEF OneDriver, LoopInv, loopVars
  <2>4. IdleInv'
    BY <1>4, <1>5, <1>6 DEF IdleInv
  <2> QED
    BY <1>1, <1>5, <2>2, <2>3, <2>4, Kept
<1>7. CASE ~(idleSteps' > 0)
  <2>1. /\ inStep' = TRUE /\ turn' = NCpus /\ steps' = IterCycles
        /\ UNCHANGED <<stopRequested, pauseRequested, timerOn, idleOn>>
    BY <1>2, <1>7 DEF Enter
  <2>2. SessionOK'
    <3>1. NCpus \in 0..NCpus /\ IterCycles \in 0..IterCycles
      BY ConstantFacts
    <3> QED
      BY <1>1, <1>2, <1>4, <2>1, <3>1 DEF SessionOK
  <2>3. OneDriver' /\ LoopInv' /\ IdleInv'
    BY <1>2, <1>3, <2>1 DEF OneDriver, LoopInv, IdleInv
  <2> QED
    BY <1>1, <1>5, <2>2, <2>3, Kept
<1> QED
  BY <1>6, <1>7

LEMMA SkipIdleStep ==
    ASSUME MachineInv, SkipIdle
    PROVE  Keeps
<1> DEFINE s == Min({idleSteps, kMaxSkipped})
<1>1. machine \in Calm /\ machine \in MachineState /\ InOrder(machine.queue) /\ SessionOK
  BY TypeOKParts DEF MachineInv, Calm
<1>2. /\ ~inStep /\ idleOn /\ UNCHANGED <<status, stepping, loopVars>>
      /\ machine' = Skip(machine, s)
      /\ idleSteps' = idleSteps - s
      /\ idleOn' = (idleSteps - s > 0)
      /\ timerOn' = (timerOn \/ idleSteps - s = 0)
  BY DEF SkipIdle, Restarts
<1>3. idleSteps \in Nat /\ s \in 0..idleSteps /\ s \in Nat
  <2>1. idleSteps \in Nat /\ kMaxSkipped \in Nat
    BY <1>1, ConstantFacts DEF SessionOK
  <2> DEFINE T == {idleSteps, kMaxSkipped}
  <2>2. T \subseteq Nat /\ T # {} /\ idleSteps \in T
    BY <2>1
  <2> HIDE DEF T
  <2>3. Min(T) \in T /\ Min(T) <= idleSteps
    BY <2>2, MinFacts
  <2>4. Min(T) \in Nat
    BY <2>2, <2>3
  <2> QED
    BY <2>1, <2>3, <2>4 DEF T
<1> HIDE DEF s
<1>4. /\ machine' \in Calm /\ InOrder(machine'.queue)
      /\ \A c \in Cpus : machine'.cpu[c].status = machine.cpu[c].status
  BY <1>1, <1>2, <1>3, SkipIsCalm
<1>5. StaysHalted
  BY <1>4 DEF StaysHalted
<1>6. SessionOK'
  <2>1. idleSteps' \in 0..(W - 1)
    BY <1>1, <1>2, <1>3, ConstantFacts DEF SessionOK
  <2> QED
    BY <1>1, <1>2, <2>1 DEF SessionOK, loopVars
<1>7. status = "running" /\ ~timerOn /\ ~stepping
  BY <1>1, <1>2 DEF SessionOK, MachineInv, OneDriver, LoopInv
<1>8. OneDriver' /\ LoopInv'
  <2>1. timerOn' # idleOn'
    BY <1>2, <1>3, <1>7
  <2> QED
    BY <1>2, <1>7, <2>1 DEF OneDriver, LoopInv, loopVars
<1>9. ASSUME IdleInv, idleOn'
      PROVE  0 < idleSteps' /\ Idles(machine', idleSteps')
  <2>1. Idles(machine, idleSteps)
    BY <1>2, <1>9 DEF IdleInv
  <2>2. Idles(Skip(machine, s), idleSteps - s)
    BY <1>1, <1>3, <2>1, SkipIdles
  <2> QED
    BY <1>2, <1>3, <1>9, <2>2
<1> QED
  BY <1>4, <1>5, <1>6, <1>8, <1>9, Kept DEF IdleInv

(* The user starts, halts or resets the machine. *)
LEMMA PowerStep ==
    ASSUME MachineInv, StartMachine \/ HaltMachine \/ ResetMachine
    PROVE  Keeps
<1>1. machine \in Calm /\ SessionOK /\ 0 \in 0..(W - 1)
  BY TypeOKParts, LineFacts DEF MachineInv
<1>2. /\ ~inStep /\ machine' = PoweredOn /\ UNCHANGED <<stepping, loopVars>>
      /\ status' \in {"stopped", "off"}
      /\ \/ /\ timerOn' = FALSE /\ idleOn' = FALSE /\ idleSteps' = 0
         \/ status # "running" /\ UNCHANGED <<timerOn, idleOn, idleSteps>>
  BY DEF StartMachine, HaltMachine, ResetMachine, StopTimers, SkippingStops
<1>3. machine' \in Calm /\ InOrder(machine'.queue) /\ StaysHalted
  BY <1>2, PoweredOnFacts DEF StaysHalted
<1>4. timerOn' = FALSE /\ idleOn' = FALSE
  BY <1>1, <1>2 DEF SessionOK, MachineInv, OneDriver
<1>5. SessionOK'
  BY <1>1, <1>2, <1>4 DEF SessionOK, loopVars
<1>6. OneDriver' /\ LoopInv' /\ IdleInv'
  BY <1>2, <1>4 DEF MachineInv, OneDriver, LoopInv, IdleInv, loopVars
<1> QED
  BY <1>3, <1>5, <1>6, Kept

(* The user continues, steps or stops. *)
LEMMA DriveStep ==
    ASSUME MachineInv, OnContinue \/ OnStep \/ Stop
    PROVE  Keeps
<1>1. machine \in Calm /\ InOrder(machine.queue) /\ SessionOK /\ 0 \in 0..(W - 1)
  BY TypeOKParts, LineFacts DEF MachineInv
<1>2. machine' = machine /\ ~inStep
  BY DEF OnContinue, OnStep, Stop
<1>3. StaysHalted /\ machine' \in Calm /\ InOrder(machine'.queue)
  BY <1>1, <1>2 DEF StaysHalted
<1>4. SessionOK' /\ OneDriver' /\ LoopInv' /\ (IdleInv => IdleInv')
  <2>1. CASE OnContinue
    <3>1. /\ status = "stopped" /\ status' = "running" /\ stepping' = FALSE
          /\ timerOn' = TRUE /\ UNCHANGED <<machine, idleOn, idleSteps, loopVars>>
      BY <2>1 DEF OnContinue
    <3>2. ~timerOn /\ ~idleOn
      BY <1>1, <1>2, <3>1 DEF SessionOK, MachineInv, OneDriver
    <3> QED
      BY <1>1, <1>2, <3>1, <3>2 DEF SessionOK, OneDriver, LoopInv, IdleInv, loopVars
  <2>2. CASE OnStep
    <3>1. /\ status = "stopped" /\ status' = "running" /\ stepping' = TRUE
          /\ inStep' = TRUE /\ turn' = NCpus /\ steps' = 1
          /\ UNCHANGED <<stopRequested, pauseRequested, timerOn, idleOn, idleSteps>>
      BY <2>2 DEF OnStep, Enter
    <3>2. ~timerOn /\ ~idleOn
      BY <1>1, <1>2, <3>1 DEF SessionOK, MachineInv, OneDriver
    <3>3. NCpus \in 0..NCpus /\ 1 \in 0..IterCycles
      BY ConstantFacts
    <3> QED
      BY <1>1, <3>1, <3>2, <3>3 DEF SessionOK, OneDriver, LoopInv, IdleInv
  <2>3. CASE Stop
    <3>1. /\ status' = "stopped" /\ timerOn' = FALSE /\ idleOn' = FALSE /\ idleSteps' = 0
          /\ UNCHANGED <<stepping, loopVars>>
      BY <2>3 DEF Stop, StopTimers, SkippingStops
    <3> QED
      BY <1>1, <1>2, <3>1 DEF SessionOK, MachineInv, OneDriver, LoopInv, IdleInv, loopVars
  <2> QED
    BY <2>1, <2>2, <2>3
<1> QED
  BY <1>3, <1>4, Kept

(* An edit of a register: what is being skipped is only right while the
   views do not write into a machine that runs. *)
LEMMA EditStep ==
    ASSUME MachineInv, EditRegister
    PROVE  MachineInv' /\ (~LiveEdits /\ IdleInv => IdleInv') /\ StaysHalted
<1>1. machine \in Calm /\ machine \in MachineState /\ InOrder(machine.queue) /\ SessionOK
  BY TypeOKParts DEF MachineInv, Calm
<1>2. /\ ~inStep /\ UNCHANGED <<sessionVars, loopVars>>
      /\ status = "stopped" \/ (status = "running" /\ LiveEdits)
  BY DEF EditRegister
<1>3. machine' \in Calm /\ machine'.queue = machine.queue
      /\ \A c \in Cpus : machine'.cpu[c].status = machine.cpu[c].status
  <2>1. ASSUME NEW t \in TimerValues, machine' = [machine EXCEPT !.timer = t]
        PROVE  /\ machine' \in Calm /\ machine'.queue = machine.queue
               /\ machine'.cpu = machine.cpu
    <3>1. machine' \in MachineState /\ machine'.queue = machine.queue
          /\ machine'.cpu = machine.cpu
      BY <1>1, <2>1, LineFacts DEF MachineState
    <3> QED
      BY <1>1, <3>1 DEF Calm
  <2>2. ASSUME NEW c \in Cpus, NEW p \in Core, machine' = [machine EXCEPT !.cpu[c] = p],
               p.status = machine.cpu[c].status, p.mip = machine.cpu[c].mip
        PROVE  /\ machine' \in Calm /\ machine'.queue = machine.queue
               /\ \A d \in Cpus : machine'.cpu[d].status = machine.cpu[d].status
    <3>1. p.status = "IDLE" => p.mip = {}
      BY <1>1, <2>2 DEF Calm
    <3> DEFINE n == [machine EXCEPT !.cpu[c] = p]
    <3>2. n \in Calm /\ SameBut(machine, n, c) /\ n.cpu[c] = p
      BY <1>1, <3>1, SetCore
    <3> HIDE DEF n
    <3> QED
      BY <2>2, <3>2 DEF SameBut, n
  <2>3. ASSUME NEW c \in Cpus, NEW t \in TimerValues,
               machine' = [machine EXCEPT !.cpu[c].time = t]
        PROVE  /\ machine' \in Calm /\ machine'.queue = machine.queue
               /\ \A d \in Cpus : machine'.cpu[d].status = machine.cpu[d].status
    <3> DEFINE p == [machine.cpu[c] EXCEPT !.time = t]
    <3>1. machine.cpu[c] \in Core
      BY <1>1 DEF MachineState
    <3>2. p \in Core /\ p.status = machine.cpu[c].status /\ p.mip = machine.cpu[c].mip
      BY <3>1, LineFacts DEF Core
    <3>3. machine' = [machine EXCEPT !.cpu[c] = p]
      BY <1>1, <2>3 DEF MachineState
    <3> HIDE DEF p
    <3> QED
      BY <2>2, <3>2, <3>3
  <2>4. ASSUME NEW c \in Cpus, NEW b \in BOOLEAN,
               machine' = [machine EXCEPT !.cpu[c].mtie = b]
        PROVE  /\ machine' \in Calm /\ machine'.queue = machine.queue
               /\ \A d \in Cpus : machine'.cpu[d].status = machine.cpu[d].status
    <3> DEFINE p == [machine.cpu[c] EXCEPT !.mtie = b]
    <3>1. machine.cpu[c] \in Core
      BY <1>1 DEF MachineState
    <3>2. p \in Core /\ p.status = machine.cpu[c].status /\ p.mip = machine.cpu[c].mip
      BY <3>1 DEF Core
    <3>3. machine' = [machine EXCEPT !.cpu[c] = p]
      BY <1>1, <2>4 DEF MachineState
    <3> HIDE DEF p
    <3> QED
      BY <2>2, <3>2, <3>3
  <2> QED
    BY <2>1, <2>3, <2>4 DEF EditRegister
<1>4. StaysHalted /\ InOrder(machine'.queue)
  BY <1>1, <1>3 DEF StaysHalted
<1>5. SessionOK'
  BY <1>1, <1>2 DEF SessionOK, sessionVars, loopVars
<1>6. OneDriver' /\ LoopInv'
  BY <1>2 DEF MachineInv, OneDriver, LoopInv, sessionVars, loopVars
<1>7. ~LiveEdits => IdleInv'
  BY <1>1, <1>2 DEF SessionOK, MachineInv, OneDriver, IdleInv, sessionVars
<1>8. (TypeOK /\ NoLostWakeUp)'
  BY <1>3, <1>5 DEF TypeOK, NoLostWakeUp, Calm, SessionOK
<1> QED
  BY <1>4, <1>6, <1>7, <1>8 DEF MachineInv

LEMMA StepInv ==
    ASSUME MachineInv, [Next]_vars
    PROVE  MachineInv' /\ (~LiveEdits /\ IdleInv => IdleInv') /\ (StaysHalted \/ UNCHANGED vars)
<1>1. CASE BeginCycle
  BY <1>1, BeginCycleStep DEF Keeps
<1>2. ASSUME NEW c \in Cpus, Cycle(c)
      PROVE  Keeps
  BY <1>2, CycleStep
<1>3. CASE EndStep
  BY <1>3, EndStepStep DEF Keeps
<1>4. CASE RunIteration
  BY <1>4, RunIterationStep DEF Keeps
<1>5. CASE SkipIdle
  BY <1>5, SkipIdleStep DEF Keeps
<1>6. CASE StartMachine \/ HaltMachine \/ ResetMachine
  BY <1>6, PowerStep DEF Keeps
<1>7. CASE OnContinue \/ OnStep \/ Stop
  BY <1>7, DriveStep DEF Keeps
<1>8. CASE EditRegister
  BY <1>8, EditStep
<1>9. CASE UNCHANGED vars
  <2>1. /\ UNCHANGED <<machine, status, timerOn, idleOn, idleSteps, stepping>>
        /\ UNCHANGED <<inStep, turn, steps, stopRequested, pauseRequested>>
    BY <1>9 DEF vars, sessionVars, loopVars
  <2> QED
    BY <1>9, <2>1 DEF MachineInv, TypeOK, NoLostWakeUp, OneDriver, LoopInv, IdleInv
<1> QED
  BY <1>1, <1>2, <1>3, <1>4, <1>5, <1>6, <1>7, <1>8, <1>9 DEF Keeps, Next, Drive, User

-----------------------------------------------------------------------------
(* The theorems *)

(* The inductive invariant: whatever the order of stops, continues, steps,
   resets, skips and edits. *)
THEOREM MachineInvariant == Spec => []MachineInv
BY InitFacts, StepInv, PTL DEF Spec

(* Machine::step, runContIteration, skip and the user's commands: no core
   sleeps with an interrupt pending, and a session that runs is driven by
   exactly one of the two timers of the event loop, however many cores there
   are and whatever is edited. *)
THEOREM AlwaysDriven == Spec => []DrivingInv
<1>1. MachineInv => DrivingInv
  BY DEF MachineInv, DrivingInv
<1> QED
  BY <1>1, MachineInvariant, PTL

(* A halted core starts again only by a reset that is due, or with a new
   machine (AssertIRQ, Processor::Cycle, MPController::Write). *)
THEOREM HaltedStaysHalted == Spec => HaltedUntilReset
<1>1. ASSUME MachineInv, [Next]_vars
      PROVE  [StaysHalted]_vars
  BY <1>1, StepInv
<1> QED
  BY <1>1, MachineInvariant, PTL DEF Spec, HaltedUntilReset, StaysHalted

(* What is left to skip is always safe to skip, and skipping it does what
   simulating would: the part of MachineInv that makes it so is the order of
   the queue and that every core which waits has no interrupt pending. *)
LEMMA IdleIsRight ==
    ASSUME MachineInv, IdleInv
    PROVE  SkippingInv
<1>1. machine \in Calm /\ machine \in MachineState /\ InOrder(machine.queue) /\ SessionOK
  BY TypeOKParts DEF MachineInv, Calm
<1>2. ASSUME idleOn
      PROVE  /\ idleSteps > 0 /\ idleSteps \in 0..(W - 1) /\ W \in Nat
             /\ Idles(machine, idleSteps)
  BY <1>1, <1>2, ConstantFacts DEF IdleInv, SessionOK
<1>3. ASSUME idleOn, NEW c \in Cpus, machine.cpu[c].status # "HALTED"
      PROVE  /\ machine.cpu[c].status = "IDLE"
             /\ idleSteps <= CpuIdleCycles(machine.cpu[c])
  <2> DEFINE p == machine.cpu[c]
  <2>1. Sleeping(p, idleSteps) /\ p \in Core
    BY <1>1, <1>2, <1>3 DEF Idles, MachineState
  <2> HIDE DEF p
  <2>2. p.status = "IDLE"
    BY <1>3, <2>1 DEF Sleeping, Core, p
  <2>3. idleSteps <= CpuIdleCycles(p)
    BY <1>2, <1>3, <2>1, <2>2 DEF Sleeping, CpuIdleCycles, Core
  <2> QED
    BY <2>2, <2>3 DEF p
<1>4. ASSUME idleOn, NEW n \in 1..idleSteps
      PROVE  Skip(machine, n) = Waited(n)
  <2>1. n \in Nat /\ n <= idleSteps /\ idleSteps \in Nat
    BY <1>2, <1>4
  <2>2. Idles(machine, n)
    <3>1. machine.timer \in Nat /\ \A c \in Cpus : machine.cpu[c].time \in Nat
      BY <1>1, ConstantFacts DEF MachineState, Core
    <3>2. machine.queue # <<>> => machine.queue[1].left \in Nat
      <4>1. machine.queue # <<>> => machine.queue[1] \in Entry
        BY <1>1 DEF MachineState
      <4> QED
        BY <4>1 DEF Entry
    <3> QED
      BY <1>2, <1>4, <2>1, <3>1, <3>2 DEF Idles, Sleeping
  <2> QED
    BY <1>1, <2>1, <2>2, WaitingIsSkipping
<1>5. SkipIsAllowed
  BY <1>2, <1>3 DEF SkipIsAllowed
<1>6. SkippingIsWaiting
  BY <1>4 DEF SkippingIsWaiting
<1> QED
  BY <1>5, <1>6 DEF SkippingInv

(* Machine::skip may be called whenever the debugger is going to call it, and
   leaves the machine that as many calls of Machine::step would have left -
   unless the user edits the registers of a running machine, which
   LiveEdits stands for and the run machine_edit shows to break it. *)
THEOREM SkippingIsRight == ~LiveEdits => (Spec => []SkippingInv)
<1> SUFFICES ASSUME ~LiveEdits
             PROVE  Spec => []SkippingInv
  OBVIOUS
<1>1. Init => MachineInv /\ IdleInv
  BY InitFacts
<1>2. (MachineInv /\ IdleInv) /\ [Next]_vars => (MachineInv /\ IdleInv)'
  BY StepInv
<1>3. MachineInv /\ IdleInv => SkippingInv
  BY IdleIsRight
<1> QED
  BY <1>1, <1>2, <1>3, PTL DEF Spec
=============================================================================
