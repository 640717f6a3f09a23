----------------------------- MODULE MC_Sockets -----------------------------
(***************************************************************************)
(* The echo server and client under four loads: a peer that sends two      *)
(* messages without waiting, which fills the ring of a server that waits   *)
(* to send; two peers whose events share a poll; two peers that compete    *)
(* for buffers; and short messages on a connection that is opened again.   *)
(***************************************************************************)
EXTENDS Sockets

CONSTANTS a, b

MCConns == {a, b}

Load(size, bytes_a, bytes_b, opens_a, opens_b, events) ==
    [msg_size |-> size,
     bytes |-> [c \in MCConns |-> IF c = a THEN bytes_a ELSE bytes_b],
     opens |-> [c \in MCConns |-> IF c = a THEN opens_a ELSE opens_b],
     events |-> events]

MCLoads == {Load(3, 6, 0, 1, 0, 2), Load(3, 3, 1, 1, 1, 3),
            Load(3, 3, 3, 1, 1, 2), Load(2, 4, 0, 2, 0, 2)}
=============================================================================
