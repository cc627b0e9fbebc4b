----------------------------- MODULE MCTCPSocket -----------------------------
(* A buffer of three bytes; four bytes sent and three received over two    *)
(* connections, in pieces of any size.                                     *)
EXTENDS TCPSocket
=============================================================================
