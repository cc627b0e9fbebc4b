------------------------------ MODULE MCMemPool ------------------------------
(* Pools of four slots, with calls nested up to four deep.               *)
EXTENDS MemPool
=============================================================================
