------------------------------ MODULE MC_Objects ------------------------------
(***************************************************************************)
(* One run over three independent models of objects that are allocated and *)
(* given back: the memory pools (Mempool), the lists of TCP control blocks *)
(* of a flow group (TcpLists) and the ports and tuples of connections      *)
(* (TcpPorts).  A behaviour is one of the model `part' names; the others   *)
(* stay in their initial states.                                           *)
(***************************************************************************)
EXTENDS Mempool

CONSTANTS c1, c2, p1, p2, p3, NONE

VARIABLES part,
          fg, pcb, listen_pcbs, odd, stale, faults,
          local_port, api, ids, port_faults

lists_vars == <<fg, pcb, listen_pcbs, odd, stale, faults>>
ports_vars == <<local_port, api, ids, port_faults>>

Lists == INSTANCE TcpLists WITH
    Pcb <- {p1, p2, p3}, NBuckets <- 2, Port <- {1, 2}, Peer <- {1, 2}, TwTicks <- 1,
    CfgPorts <- {1}

Ports == INSTANCE TcpPorts WITH
    NCpu <- 2, Ranges <- 3, PORTS_PER_CPU <- 2, NObj <- 2, NULL <- NONE,
    faults <- port_faults

MCInit ==
    /\ part \in {"pool", "lists", "ports"}
    /\ Init /\ Lists!Init /\ Ports!Init

PoolStep  == part = "pool"  /\ Next       /\ UNCHANGED <<part, lists_vars, ports_vars>>
ListsStep == part = "lists" /\ Lists!Next /\ UNCHANGED <<part, vars, ports_vars>>
PortsStep == part = "ports" /\ Ports!Next /\ UNCHANGED <<part, vars, lists_vars>>

MCNext == PoolStep \/ ListsStep \/ PortsStep

mc_vars == <<part, vars, lists_vars, ports_vars>>

\* The fairness of Mempool and of TcpLists.
MCSpec ==
    /\ MCInit /\ [][MCNext]_mc_vars
    /\ \A c \in CPUs : WF_vars(PopChunk(c) \/ PopNothing(c) \/ PushChunk(c))
    /\ WF_mc_vars(part = "lists" /\ Lists!Running /\ Lists!tcpip_tcp_timer
                  /\ UNCHANGED <<part, vars, ports_vars>>)

-----------------------------------------------------------------------------
\* A connection in TIME-WAIT is freed.
TwReaped == part # "lists" \/ Lists!TwReaped

\* The lists of a flow group: every pcb is where the timers and the input path
\* look for it.
ListsSafe == Lists!ListsSafe

\* Ports and tuples have one user each.
PortsSafe == Ports!PortsSafe
=============================================================================
