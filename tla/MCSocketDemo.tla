---------------------------- MODULE MCSocketDemo ----------------------------
(* A client of the demo and another one, the watched one; one event per    *)
(* epoll_wait(); one poll() after each connect(); a prefix of one unit.    *)
EXTENDS SocketDemo, SequencesExt

MCClients == SetToSeq(Conns \ Watched)

(* The demo's message may travel in one piece or in two, and the replies   *)
(* to it, three or four units long, in two to four.                        *)
MCMessage == [c \in Conns |-> IF c \in Watched THEN 1 ELSE 2]

MCKernelBuffer == MCMessage
=============================================================================
