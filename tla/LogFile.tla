------------------------------- MODULE LogFile -------------------------------
(***************************************************************************)
(* What the logger promises: the stream is given the elements logged, in   *)
(* order and each once, until it fails; it is closed when it has been      *)
(* given all of them, or has failed.                                       *)
(*                                                                         *)
(* `written' is what the stream has accepted.  It is buffered: the file is *)
(* known to hold all of it only once the stream is closed and `good' still *)
(* holds.                                                                  *)
(***************************************************************************)
EXTENDS Naturals, Sequences

CONSTANT Values

VARIABLES logged, written, good, closed

fileVars == <<logged, written, good, closed>>

FileInit ==
  /\ logged = <<>> /\ written = <<>>
  /\ good = TRUE /\ closed = FALSE

Log ==
  /\ ~closed
  /\ \E v \in Values : logged' = Append(logged, v)
  /\ UNCHANGED <<written, good, closed>>

Write ==
  /\ ~closed /\ good
  /\ Len(written) < Len(logged)
  /\ written' = Append(written, logged[Len(written) + 1])
  /\ UNCHANGED <<logged, good, closed>>

Fail ==
  /\ ~closed
  /\ good' = FALSE
  /\ UNCHANGED <<logged, written, closed>>

(* Closing flushes the buffer, which may fail. *)
Close ==
  /\ good => written = logged
  /\ closed' = TRUE /\ good' \in {good, FALSE}
  /\ UNCHANGED <<logged, written>>

FileSafeSpec == FileInit /\ [][Log \/ Write \/ Fail \/ Close]_fileVars
=============================================================================
