------------------------------- MODULE Filters -------------------------------
(***************************************************************************)
(* The elements of a sequence that are in a given set, in order.  It is    *)
(* what SelectSeq computes, written as a recursive function so that proofs *)
(* can be about it.                                                        *)
(***************************************************************************)
EXTENDS Integers, Sequences

Filter(s, S) ==
  LET kept[n \in 0 .. Len(s)] ==
        IF n = 0 THEN <<>>
        ELSE IF s[n] \in S THEN Append(kept[n - 1], s[n])
        ELSE kept[n - 1]
  IN  kept[Len(s)]
=============================================================================
