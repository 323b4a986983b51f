------------------------------- MODULE MCDevices -------------------------------
(***************************************************************************)
(* For TLC: a behaviour of a terminal with its interrupt controller, of an *)
(* Ethernet interface, or of the queue their events wait in.  What the     *)
(* behaviour is not about stays as it is.                                  *)
(***************************************************************************)
EXTENDS TerminalDevice, EventQueue

CONSTANTS Scenarios,            \* of "terminal", "ethernet", "queue"
          MAXNETQUEUE, MaxWire  \* see EthDevice

VARIABLES
    scenario,
    netStatus, readPending, netCommand, data0, data1, polling, interrupts,
    netEvents, netQueue, wire, netRequest, netWorking

ethVars == <<netStatus, readPending, netCommand, data0, data1, polling, interrupts,
             netEvents, netQueue, wire, netRequest, netWorking>>
mcVars  == <<vars, ethVars, queueVars, scenario>>

Eth == INSTANCE EthDevice WITH
           status <- netStatus, command <- netCommand, events <- netEvents,
           queue <- netQueue, request <- netRequest, isWorking <- netWorking

ASSUME EthAssumption == Eth!NetAssumption

Fixed(d)   == [policy |-> "FIXED", dest |-> d]
Dynamic(d) == [policy |-> "DYNAMIC", dest |-> d]

MCFixedRoutes == {Fixed(0), Fixed(1)}
MCDynamicRoutes == {Dynamic(3)}

MCInputLines == {<<>>, <<"a">>, <<"b">>, <<"a", "b">>}

MCInit == scenario \in Scenarios /\ Init /\ Eth!Init /\ QueueInit

TerminalStep(Act) == scenario = "terminal" /\ Act /\ UNCHANGED <<ethVars, queueVars, scenario>>
EthernetStep(Act) == scenario = "ethernet" /\ Act /\ UNCHANGED <<vars, queueVars, scenario>>
QueueStep(Act)    == scenario = "queue" /\ Act /\ UNCHANGED <<vars, ethVars, scenario>>

MCNext == TerminalStep(Next) \/ EthernetStep(Eth!Next) \/ QueueStep(QueueNext)

MCSpec ==
    /\ MCInit /\ [][MCNext]_mcVars
    /\ WF_mcVars(TerminalStep(Elapse))
    /\ WF_mcVars(TerminalStep(CompleteDevOp))
    /\ WF_mcVars(EthernetStep(Eth!CompleteDevOp))
    /\ WF_mcVars(QueueStep(Tick))

(* Of the Ethernet interface: see EthDevice. *)
PollingInv == Eth!PollingInv
ImplementsDeviceOperation == Eth!ImplementsDeviceOperation
OperationEnds == Eth!OperationEnds
=============================================================================
