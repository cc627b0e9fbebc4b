------------------------------ MODULE MCLogger ------------------------------
(* A queue of three elements and up to five of them logged, so that log()  *)
(* meets a full queue and the ring wraps; the logger may be destroyed at   *)
(* any point.                                                              *)
EXTENDS Logger
=============================================================================
