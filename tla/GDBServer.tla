------------------------------- MODULE GDBServer -------------------------------
(***************************************************************************)
(* The GDB server (gdb/gdb.cc): two threads.  The server reads the packets *)
(* of the debugger, answers them and reports that the program has stopped; *)
(* the stepping thread waits for a signal and then executes instructions   *)
(* until the program counter is on a breakpoint or it has been asked to    *)
(* stop.  They share the list of breakpoints, the flag stopped and, with   *)
(* no lock, the registers of the core.                                     *)
(*                                                                         *)
(* The program is a loop over the addresses.  A debugger sends a packet    *)
(* once the one before has been answered, except for the interrupt         *)
(* character, which it sends at any time while the program runs.           *)
(***************************************************************************)
EXTENDS Integers, SequencesExt

CONSTANTS Addrs,        \* bound: the program has the addresses 0..Addrs-1
          MaxList,      \* bound: elements of the list of breakpoints
          MaxInbox      \* bound: messages on their way to the server

VARIABLES
    pc,             \* of processor 0
    breakpoints,    \* the vector
    stopped,        \* ask for a stop, or a stop to be reported
    stepper,        \* where the stepping thread is
    s,              \* its local variable
    server,         \* where the server's loop is
    inbox,          \* the socket, towards the server
    debugger,       \* what the debugger believes of the program
    disturbed,      \* history: it has sent an interrupt character, or the
                    \* stepping thread has woken up unasked
    wanted,         \* history: the breakpoints it has set and not removed
    fresh           \* history: addresses set, or jumped to, since the last look

vars == <<pc, breakpoints, stopped, stepper, s, server, inbox, debugger, disturbed,
          wanted, fresh>>

Address == 0..(Addrs - 1)
Packets == {<<"c">>, <<"k">>, <<"g">>, <<"+">>, <<"int">>}
            \cup {<<op, a>> : op \in {"Z", "z", "P"}, a \in Address}

TypeOK ==
    /\ pc \in Address
    /\ breakpoints \in Seq(Address) /\ Len(breakpoints) <= MaxList
    /\ stopped \in BOOLEAN /\ s \in BOOLEAN /\ disturbed \in BOOLEAN
    /\ stepper \in {"enter", "wait", "first", "step", "look", "check", "stop"}
    /\ server \in {"accept", "poll", "report", "closing", "terminated"}
    /\ inbox \in Seq(Packets) /\ Len(inbox) <= MaxInbox
    /\ debugger \in {"away", "stopped", "running"}
    /\ wanted \subseteq Address /\ fresh \subseteq Address

Init ==
    /\ pc = 0
    /\ breakpoints = <<>>
    /\ stopped = FALSE
    /\ stepper = "enter"
    /\ s = FALSE
    /\ server = "accept"
    /\ inbox = <<>>
    /\ debugger = "away"
    /\ disturbed = FALSE
    /\ wanted = {} /\ fresh = {}

-----------------------------------------------------------------------------
(* The debugger *)

Send(p) == /\ Len(inbox) < MaxInbox
           /\ inbox' = Append(inbox, p)

Connect ==
    /\ server = "accept" /\ debugger = "away"
    /\ debugger' = "stopped"
    /\ server' = "poll"
    /\ UNCHANGED <<pc, breakpoints, stopped, stepper, s, inbox, disturbed,
                   wanted, fresh>>

(* A request, with the program stopped and the last request answered. *)
Request(p) ==
    /\ debugger = "stopped" /\ inbox = <<>>
    /\ p[1] # "int" /\ p[1] # "+"
    /\ Send(p)
    /\ debugger' = IF p[1] = "c" THEN "running" ELSE debugger
    /\ UNCHANGED <<pc, breakpoints, stopped, stepper, s, server, disturbed,
                   wanted, fresh>>

Interrupt ==
    /\ debugger = "running"
    /\ Send(<<"int">>)
    /\ disturbed' = TRUE
    /\ UNCHANGED <<pc, breakpoints, stopped, stepper, s, server, debugger,
                   wanted, fresh>>

-----------------------------------------------------------------------------
(* The server *)

(* What is kept when a is removed. *)
Without(list, a) ==
    LET kept[n \in 0..Len(list)] ==
            IF n = 0 THEN <<>>
            ELSE IF list[n] = a THEN kept[n - 1] ELSE Append(kept[n - 1], list[n])
    IN  kept[Len(list)]

(* A plausible bug: the elements behind the one removed are not moved, so
   that the last of the list is lost. *)
Truncated(list, a) == SubSeq(list, 1, Len(Without(list, a)))
(* std::remove with no erase: what is kept moves to the front, and the list
   is as long as before. *)
Removed(list, a) ==
    LET kept == Without(list, a)
    IN  kept \o SubSeq(list, Len(kept) + 1, Len(list))

(* A plausible bug: every packet sets the flag anew. *)
AskedAnew(flag, p) == p[1] = "int"
Asked(flag, p) == flag \/ p[1] = "int"

(* One packet.  Every answer is acknowledged by the debugger. *)
Handle(p) ==
    /\ stopped' = Asked(stopped, p)
    /\ CASE p[1] = "Z" ->
              /\ breakpoints' = IF Contains(breakpoints, p[2]) THEN breakpoints
                                ELSE Append(breakpoints, p[2])
              /\ wanted' = wanted \cup {p[2]}
              /\ fresh' = fresh \cup {p[2]}
              /\ UNCHANGED <<pc, stepper>>
         [] p[1] = "z" ->
              /\ breakpoints' = Removed(breakpoints, p[2])
              /\ wanted' = wanted \ {p[2]}
              /\ UNCHANGED <<pc, stepper, fresh>>
         [] p[1] = "P" ->    \* setPC
              /\ pc' = p[2]
              /\ fresh' = fresh \cup {p[2]}
              /\ UNCHANGED <<breakpoints, stepper, wanted>>
         [] p[1] = "c" ->    \* a signal that nobody waits for is lost
              /\ stepper' = IF stepper = "wait" THEN "first" ELSE stepper
              /\ UNCHANGED <<pc, breakpoints, wanted, fresh>>
         [] OTHER -> UNCHANGED <<pc, breakpoints, stepper, wanted, fresh>>

(* A read takes all that has come: an interrupt character in front hides what
   is behind it, behind a packet it is not seen, and after an acknowledgement
   neither is. *)
Meaning(buffer) ==
    LET requests == {i \in DOMAIN buffer : buffer[i] \notin {<<"+">>, <<"int">>}}
    IN  IF buffer[1] = <<"int">> THEN <<"int">>
        ELSE IF requests = {} THEN <<"+">>
        ELSE buffer[CHOOSE i \in requests : \A j \in requests : j <= i]

Poll ==
    /\ server = "poll"
    /\ \/ inbox = <<>>
          /\ server' = "report"
          /\ UNCHANGED <<pc, breakpoints, stopped, stepper, inbox, wanted, fresh>>
       \/ \E n \in DOMAIN inbox :
            LET p == Meaning(SubSeq(inbox, 1, n))
            IN  /\ MaxList > Len(breakpoints) \/ p[1] # "Z"     \* bound
                /\ Handle(p)
                /\ server' = IF p[1] = "k" THEN "closing" ELSE "report"
                /\ inbox' = SubSeq(inbox, n + 1, Len(inbox))
                               \o (IF p[1] = "+" THEN <<>> ELSE <<<<"+">>>>)
    /\ UNCHANGED <<s, debugger, disturbed>>

(* The end of an iteration: a stop is reported once. *)
Report ==
    /\ server \in {"report", "closing"}
    /\ stopped' = FALSE
    /\ debugger' = IF stopped THEN "stopped" ELSE debugger
    /\ server' = IF server = "closing" THEN "terminated" ELSE "poll"
    /\ UNCHANGED <<pc, breakpoints, stepper, s, inbox, disturbed, wanted, fresh>>

-----------------------------------------------------------------------------
(* The stepping thread; once the server has killed it the emulator is gone *)

Alive == server # "terminated"

Enter ==
    /\ Alive /\ stepper = "enter"
    /\ stepper' = "wait"
    /\ UNCHANGED <<pc, breakpoints, stopped, s, server, inbox, debugger, disturbed,
                   wanted, fresh>>

(* pthread_cond_wait may return with no signal, and nothing is looked at
   before the program is stepped. *)
Wake ==
    /\ Alive /\ stepper = "wait"
    /\ stepper' = "first"
    /\ disturbed' = TRUE
    /\ UNCHANGED <<pc, breakpoints, stopped, s, server, inbox, debugger,
                   wanted, fresh>>

Step ==
    /\ Alive /\ stepper \in {"first", "step"}
    /\ pc' = (pc + 1) % Addrs
    /\ s' = IF stepper = "first" THEN FALSE ELSE s
    /\ stepper' = "look"
    /\ UNCHANGED <<breakpoints, stopped, server, inbox, debugger, disturbed,
                   wanted, fresh>>

Look ==
    /\ Alive /\ stepper = "look"
    /\ s' = stopped
    /\ stepper' = "check"
    /\ UNCHANGED <<pc, breakpoints, stopped, server, inbox, debugger, disturbed,
                   wanted, fresh>>

Check ==
    /\ Alive /\ stepper = "check"
    /\ stepper' = IF Contains(breakpoints, pc) \/ s
                  THEN IF s THEN "enter" ELSE "stop"
                  ELSE "step"
    /\ fresh' = {}
    /\ UNCHANGED <<pc, breakpoints, stopped, s, server, inbox, debugger,
                   disturbed, wanted>>

Stop ==
    /\ Alive /\ stepper = "stop"
    /\ stopped' = TRUE
    /\ stepper' = "enter"
    /\ UNCHANGED <<pc, breakpoints, s, server, inbox, debugger, disturbed,
                   wanted, fresh>>

Server  == Poll \/ Report
Stepper == Enter \/ Step \/ Look \/ Check \/ Stop

Next ==
    \/ Connect
    \/ \E p \in Packets : Request(p)
    \/ Interrupt
    \/ Server \/ Stepper
    \/ Wake

(* Both threads are scheduled; the debugger need not do anything, and nobody
   need wake up unasked. *)
Fairness == WF_vars(Server) /\ WF_vars(Stepper)

Spec == Init /\ [][Next]_vars /\ Fairness

-----------------------------------------------------------------------------

(* removeBreakpoint leaves stale elements in the list, but it never takes
   one away that the debugger still wants. *)
WantedAreListed == wanted \subseteq ToSet(breakpoints)

(* In a session without interrupt characters, and as long as the stepping
   thread wakes up only when it is signalled, a stop that is reported has
   taken place: the program does not run while the debugger holds it. *)
ReportsAreTrue ==
    debugger = "stopped" /\ ~disturbed => stepper \in {"enter", "wait"}

SessionInv == TypeOK /\ WantedAreListed /\ ReportsAreTrue

(* The program does not run over a breakpoint that was there when the
   stepping thread last looked: it executes the instruction at a breakpoint
   only as the first one after it was told to continue, or woke up unasked. *)
StopsAtBreakpoints ==
    [][Step /\ stepper = "step" => pc \notin wanted \ fresh]_vars

(* A breakpoint that was hit is reported to the debugger, whatever the two
   threads are doing. *)
HitIsReported == stepper = "stop" ~> debugger = "stopped" \/ ~Alive
=============================================================================
