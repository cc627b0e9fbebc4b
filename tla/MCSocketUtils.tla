---------------------------- MODULE MCSocketUtils ----------------------------
(* Every combination of the parameters, up to three addresses.             *)
EXTENDS SocketUtils
=============================================================================
