------------------------------ MODULE MCLFQueue ------------------------------
(* Three slots and seven items: both indices pass the end of the ring      *)
(* twice, the queue gets full and empty at every position of the ring.     *)
EXTENDS LFQueue
=============================================================================
