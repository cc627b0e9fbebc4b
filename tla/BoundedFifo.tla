----------------------------- MODULE BoundedFifo -----------------------------
(***************************************************************************)
(* What LFQueue promises its two users: a first-in first-out channel that  *)
(* holds at most Capacity published items, loses none, duplicates none and *)
(* delivers each exactly as it was written.                                *)
(*                                                                         *)
(* The channel is given by its two histories.  The items in the channel    *)
(* are the ones of `sent' that are not yet in `received'.                  *)
(***************************************************************************)
EXTENDS Naturals, Sequences

CONSTANTS Values,    \* what an item can be
          Capacity,  \* the number of slots
          MaxItems   \* bound on the number of items ever published

VARIABLES sent,      \* the items published so far, in order
          received   \* the items released so far, in order

fifoVars == <<sent, received>>

Init ==
  /\ sent = <<>>
  /\ received = <<>>

(* The producer publishes v; there is no room for more than Capacity items. *)
Publish(v) ==
  /\ Len(sent) - Len(received) < Capacity
  /\ Len(sent) < MaxItems
  /\ sent' = Append(sent, v)
  /\ UNCHANGED received

(* The consumer is done with the oldest item, having read what was sent. *)
Release ==
  /\ Len(received) < Len(sent)
  /\ received' = Append(received, sent[Len(received) + 1])
  /\ UNCHANGED sent

Next == (\E v \in Values : Publish(v)) \/ Release

SafeSpec == Init /\ [][Next]_fifoVars
=============================================================================
