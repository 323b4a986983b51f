------------------------- MODULE MCInterruptController -------------------------
(***************************************************************************)
(* InterruptController for TLC.  A behaviour looks either at the routing   *)
(* of the devices' and the timer's requests, or at messages next to the    *)
(* timer.  History variables remember the last core chosen by a dynamic    *)
(* route, for the property about the rotation, and whether a source has    *)
(* raised before it was acknowledged.                                      *)
(***************************************************************************)
EXTENDS InterruptController

VARIABLES
    scenario,
    previous,        \* the last core a dynamic route chose, NoCpu at first
    raisedAgain

history == <<previous, raisedAgain>>
mcVars  == <<vars, scenario, history>>

Fixed(d)   == [policy |-> "FIXED", dest |-> d]
Dynamic(d) == [policy |-> "DYNAMIC", dest |-> d]

\* A core that does not exist, the other core, every core, no core.
MCRoutes == {Fixed(7), Fixed(1), Dynamic(3), Dynamic(0)}

ASSUME RoutesAssumption == Fixed(1) \in Routes

IsRotation(s) == route[s].policy = "DYNAMIC" /\ Eligible(s) # {}

Request(s) ==
    /\ StartIRQ(s)
    /\ previous' = IF IsRotation(s) THEN lastTarget'[s] ELSE previous
    /\ raisedAgain' = (raisedAgain \/ lastTarget[s] # NoCpu)

RoutingScenario ==
    \/ \E s \in Sources : Request(s)
    \/ /\ \/ \E s \in Sources : EndIRQ(s)
          \/ \E s \in Sources, r \in Routes \ {Fixed(1)} : WriteIRT(s, r)
          \/ \E c \in Cpus, p \in Priorities : WriteTaskPriority(c, p)
       /\ UNCHANGED history

MessageScenario ==
    \/ lastTarget[Timer] = NoCpu /\ Request(Timer)
    \/ /\ \/ EndIRQ(Timer)
          \/ WriteIRT(Timer, Fixed(1))
          \/ \E c \in Cpus, i \in {0, 1}, w \in Words : WriteBiosReserved(c, i, w)
          \/ \E c \in Cpus, rs \in SUBSET Cpus, m \in Msgs : WriteOutbox(c, rs, m)
          \/ \E c \in Cpus : WriteInbox(c)
          \/ \E c \in Cpus : DeliverIPI(c)
       /\ UNCHANGED history

MCInit ==
    /\ Init
    /\ scenario \in {"routing", "messages"}
    /\ previous = NoCpu /\ raisedAgain = FALSE

MCNext ==
    /\ \/ scenario = "routing" /\ RoutingScenario
       \/ scenario = "messages" /\ MessageScenario
    /\ UNCHANGED scenario

MCSpec == MCInit /\ [][MCNext]_mcVars

(* The arbiter breaks ties: no core is chosen twice in a row by dynamic
   routes while another core of the destination is just as available (the
   comment of mpic.h on the rotating index). *)
NoCoreTwiceInARow ==
    [][\A s \in Sources :
         (StartIRQ(s) /\ IsRotation(s) /\ lastTarget'[s] = previous)
           => \A d \in Eligible(s) \ {previous} :
                taskPriority[d] < taskPriority[previous]]_mcVars

(* As long as every source waits for its acknowledgement before it raises
   again, no request is left behind at a core that nothing will clear,
   however the routing table is rewritten meanwhile (lastTarget, mpic.h). *)
LeftBehindOnlyIfRaisedAgain == ~raisedAgain => NoRequestLeftBehind
=============================================================================
