------------------------------ MODULE TcpPorts ------------------------------
(***************************************************************************)
(* How tcp_api.c picks the source port of an outbound connection, so that  *)
(* the answers reach the CPU that connected, and what becomes of the       *)
(* tcpapi_pcb and ip_tuple objects of the connections of a CPU.            *)
(*                                                                         *)
(* A port is wanted that no other CPU uses.  Each CPU counts through its   *)
(* own range, PORTS_PER_CPU ports after cpu_id * PORTS_PER_CPU, and either *)
(* gets a flow director filter for the port or goes on to one whose hash   *)
(* selects a flow group of its own.                                        *)
(***************************************************************************)
EXTENDS Integers, FiniteSets

CONSTANTS NCpu,           \* CPUs that run
          Ranges,         \* 65536 / PORTS_PER_CPU
          PORTS_PER_CPU,
          NObj,           \* elements of pcb_mempool and id_mempool of a CPU
          NULL

VARIABLES local_port,     \* percpu uint16_t
          api,            \* the elements of each CPU's pcb_mempool
          ids,            \* the free elements of each CPU's id_mempool
          faults          \* what went wrong, for the properties

vars == <<local_port, api, ids, faults>>

Cpu == 0..(NCpu - 1)
Obj == 1..NObj
Wrap == Ranges * PORTS_PER_CPU
U16(n) == n % Wrap

\* port: of an outbound connection, 0 for an accepted one
NoApi == [used |-> FALSE, id |-> NULL, port |-> 0]

Outbound(c) == {api[c][o].port : o \in {x \in Obj : api[c][x].used}} \ {0}

\* short of the end, where the loop would have gone back to the start
InRange(c, port) == c * PORTS_PER_CPU < port /\ port < (c + 1) * PORTS_PER_CPU

-----------------------------------------------------------------------------
(* get_local_port_and_set_queue *)

\* Mutant: a CPU that used up its range goes on into the next one.
Again_NoWrap(c, lp) == lp
\* A turn of the loop starts by bringing local_port back into the range.  The
\* comparison is in int: for the last range it never holds.
Again(c, lp) ==
    IF lp >= (c + 1) * PORTS_PER_CPU THEN U16(c * PORTS_PER_CPU + 1) ELSE lp

Counted(c) ==
    U16((IF local_port[c] = 0 THEN U16(c * PORTS_PER_CPU) ELSE local_port[c]) + 1)

\* get_port_with_fdir installed a filter: the range is not looked at.
WithFdir(c) == [port |-> Counted(c), next |-> Counted(c)]

\* The ports tried in turn, the one the call came with and then the counter's,
\* until the Toeplitz hash of one selects a flow group this CPU has now.  Which
\* ones those are is left open; without one the loop never ends.
WithRss(c) ==
    LET walk[k \in 0..(2 * PORTS_PER_CPU)] ==
            IF k = 0 THEN Counted(c) ELSE U16(Again(c, walk[k - 1]) + 1)
    IN  {[port |-> walk[k], next |-> Again(c, walk[k])] : k \in DOMAIN walk}
          \cup {[port |-> NULL, next |-> Counted(c)]}

-----------------------------------------------------------------------------
(* Connections *)

\* bsys_tcp_connect; port 0 makes tcp_bind call tcp_new_port, which asserts.
\* The tcpapi_pcb keeps the id it had in its last use.  tcp_bind refuses a port
\* this CPU has in use: what that failure does to the pcb is in TcpLists.
Connected(c, port) ==
    \/ /\ port \notin Outbound(c)
       /\ \E o \in Obj :
            /\ ~api[c][o].used
            /\ api' = [api EXCEPT ![c][o].used = TRUE, ![c][o].port = port]
            /\ faults' = faults \cup (IF api[c][o].id = NULL THEN {} ELSE {"stale"})
    \/ UNCHANGED <<api, faults>>

bsys_tcp_connect(c) ==
    /\ UNCHANGED ids
    /\ \/ \E g \in WithRss(c) :
            /\ local_port' = [local_port EXCEPT ![c] = g.next]
            /\ \/ /\ g.port \in {0, NULL}
                  /\ faults' = faults \cup {IF g.port = 0 THEN "zero" ELSE "spins"}
                  /\ UNCHANGED api
               \/ g.port \notin {0, NULL} /\ Connected(c, g.port)
       \/ /\ local_port' = [local_port EXCEPT ![c] = WithFdir(c).next]
          /\ \/ InRange(c, WithFdir(c).port) /\ Connected(c, WithFdir(c).port)
             \/ /\ ~InRange(c, WithFdir(c).port)
                /\ faults' = faults \cup {"left"} /\ UNCHANGED api

\* on_accept
on_accept(c) ==
    \E o \in Obj, i \in ids[c] :
        /\ ~api[c][o].used
        /\ api' = [api EXCEPT ![c][o] = [used |-> TRUE, id |-> i, port |-> 0]]
        /\ ids' = [ids EXCEPT ![c] = @ \ {i}]
        /\ UNCHANGED <<local_port, faults>>

\* mempool_free(id_mempool, api->id) by o, when the id is free or another
\* connection's
NotIts(c, o, i) ==
    \/ i \in ids[c]
    \/ \E x \in Obj \ {o} : api[c][x].used /\ api[c][x].port = 0 /\ api[c][x].id = i

FreeId(c, o) ==
    LET i == api[c][o].id
    IN  /\ ids' = [ids EXCEPT ![c] = IF i = NULL THEN @ ELSE @ \cup {i}]
        /\ faults' = IF i # NULL /\ NotIts(c, o, i) THEN faults \cup {"twice"} ELSE faults

bsys_tcp_accept(c, o) ==
    /\ api[c][o].used /\ FreeId(c, o)
    /\ api' = [api EXCEPT ![c][o].id = NULL]
    /\ UNCHANGED local_port

\* bsys_tcp_close frees the tuple of a connection closed unaccepted, and leaves
\* the pointer in the freed element.
bsys_tcp_close(c, o) ==
    /\ api[c][o].used /\ FreeId(c, o)
    /\ api' = [api EXCEPT ![c][o].used = FALSE, ![c][o].port = 0]
    /\ UNCHANGED local_port

-----------------------------------------------------------------------------
Init ==
    /\ local_port = [c \in Cpu |-> 0]
    /\ api = [c \in Cpu |-> [o \in Obj |-> NoApi]]
    /\ ids = [c \in Cpu |-> Obj]
    /\ faults = {}

\* What happens after a port from beyond the range is not followed.
Running == faults \subseteq {"stale"}

Next ==
    /\ Running
    /\ \E c \in Cpu :
          \/ bsys_tcp_connect(c)
          \/ on_accept(c)
          \/ \E o \in Obj : bsys_tcp_accept(c, o) \/ bsys_tcp_close(c, o)

Spec == Init /\ [][Next]_vars
-----------------------------------------------------------------------------
\* Two CPUs never connect from the same port, and no CPU asks for port 0, as
\* long as none runs in the last range and no filter was granted for a port at
\* the end of a range (tcp_api.c:635 returns before the range test, and the
\* test of the next call resets the counter but not the port it tries).
PortsApart ==
    ("left" \notin faults /\ NCpu < Ranges) =>
        /\ "zero" \notin faults
        /\ \A c, d \in Cpu : c # d => Outbound(c) \cap Outbound(d) = {}

\* An ip_tuple is free or belongs to one unaccepted connection, and is not lost,
\* until a connect takes over a tcpapi_pcb that still points at the tuple of a
\* connection closed unaccepted (tcp_api.c:698 does not clear api->id).
TuplesHeldOnce ==
    "stale" \notin faults =>
        /\ "twice" \notin faults
        /\ \A c \in Cpu, i \in Obj :
              Cardinality({o \in Obj : api[c][o].used /\ api[c][o].id = i})
                = (IF i \in ids[c] THEN 0 ELSE 1)

\* Ports and tuples have one user each.
PortsSafe == PortsApart /\ TuplesHeldOnce
=============================================================================
