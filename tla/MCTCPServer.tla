----------------------------- MODULE MCTCPServer -----------------------------
(* Two clients; one event per epoll_wait(), so that events are left over   *)
(* for the next poll(). The kernel holds one unit in each direction and    *)
(* the socket's buffers two, so that kept data fills the receive buffer    *)
(* step by step and replies pile up when the client does not read.         *)
EXTENDS TCPServer, TLC

MCKernelBuffer == [c \in Conns |-> 1]

Symmetry == Permutations(Conns)
=============================================================================
