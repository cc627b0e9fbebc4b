------------------------------- MODULE LFQueue -------------------------------
(***************************************************************************)
(* LFQueue<T> (include/lf_queue.hpp), used by one producer thread and one  *)
(* consumer thread.                                                        *)
(*                                                                         *)
(* Every action makes at most one access to num_elements_, the only atomic *)
(* both threads touch, so all interleavings of the seq_cst accesses are    *)
(* explored.  next_write_index_ is accessed by the producer alone and      *)
(* next_read_index_ by the consumer alone: their accesses are part of the  *)
(* neighbouring step.  A slot of store_ is plain memory: writing it takes  *)
(* two steps, and between them it holds Torn, which is what a racing read  *)
(* would see.                                                              *)
(***************************************************************************)
EXTENDS Integers, Sequences

CONSTANTS Values,    \* the values of T
          Torn,      \* the content of a slot nobody has finished writing
          NumElems,  \* store_.size(), the constructor's num_elems
          MaxItems   \* bound on the number of items the producer publishes

(* The constructor asserts num_elems > 0. *)
ASSUME CapacityAssumption == NumElems \in Nat \ {0}

ASSUME ItemsAssumption == MaxItems \in Nat

ASSUME TornAssumption == Torn \notin Values

VARIABLES store_,             \* the slots
          next_write_index_,
          next_read_index_,
          num_elements_,
          producer,           \* the producer thread: pc, slot it was given, item
          consumer,           \* the consumer thread: pc, slot it was given, item read
          sent,               \* history: items published
          received            \* history: items released, as the consumer read them

queueVars == <<store_, next_write_index_, next_read_index_, num_elements_,
               producer, consumer, sent, received>>

Slots == 0 .. NumElems - 1

Contents == Values \cup {Torn}

(* "full": getNextToWriteTo() returned nullptr; "fill": it returned slot;  *)
(* "filling": *slot is being written; "publish": written, the call of      *)
(* updateWriteIndex() is next; "count": it has moved the index.            *)
ProducerPcs == {"idle", "full", "fill", "filling", "publish", "count"}

(* "empty": getNextToRead() returned nullptr; "use": it returned slot;     *)
(* "release": the item was read, updateReadIndex() is next; "uncount": it  *)
(* has moved the index.                                                    *)
ConsumerPcs == {"idle", "empty", "use", "release", "uncount"}

TypeOK ==
  /\ store_ \in [Slots -> Contents]
  /\ next_write_index_ \in Slots
  /\ next_read_index_ \in Slots
  /\ num_elements_ \in 0 .. NumElems
  /\ producer \in [pc : ProducerPcs, slot : Slots, item : Contents]
  /\ consumer \in [pc : ConsumerPcs, slot : Slots, item : Contents]
  /\ sent \in Seq(Values)
  /\ received \in Seq(Values)

(* The constructor: value-initialised slots, all counters 0. *)
Init ==
  /\ store_ = [s \in Slots |-> Torn]
  /\ next_write_index_ = 0
  /\ next_read_index_ = 0
  /\ num_elements_ = 0
  /\ producer = [pc |-> "idle", slot |-> 0, item |-> Torn]
  /\ consumer = [pc |-> "idle", slot |-> 0, item |-> Torn]
  /\ sent = <<>>
  /\ received = <<>>
-----------------------------------------------------------------------------
BugAdvance(i) == (i + 1) % (NumElems + 1)

(* The next position on the ring. *)
Advance(i) == (i + 1) % NumElems

BugFull == num_elements_ > NumElems

(* getNextToWriteTo() sees every slot in use. *)
Full == num_elements_ = NumElems

BugEmpty == next_read_index_ = next_write_index_

(* getNextToRead() sees no published item. *)
Empty == num_elements_ = 0

(* size() *)
size == num_elements_
-----------------------------------------------------------------------------
(* The producer. *)

(* getNextToWriteTo(); a caller that gets nullptr yields and calls again.  *)
getNextToWriteTo ==
  /\ producer.pc \in {"idle", "full"}
  /\ Len(sent) < MaxItems
  /\ \/ /\ Full
        /\ producer' = [producer EXCEPT !.pc = "full"]
     \/ /\ ~Full
        /\ producer' = [producer EXCEPT !.pc = "fill", !.slot = next_write_index_]
  /\ UNCHANGED <<store_, next_write_index_, next_read_index_, num_elements_,
                 consumer, sent, received>>

(* The caller starts to write v through the pointer it was given ... *)
BeginFill(v) ==
  /\ producer.pc = "fill"
  /\ store_' = [store_ EXCEPT ![producer.slot] = Torn]
  /\ producer' = [producer EXCEPT !.pc = "filling", !.item = v]
  /\ UNCHANGED <<next_write_index_, next_read_index_, num_elements_,
                 consumer, sent, received>>

(* ... and has written all of it. *)
EndFill ==
  /\ producer.pc = "filling"
  /\ store_' = [store_ EXCEPT ![producer.slot] = producer.item]
  /\ producer' = [producer EXCEPT !.pc = "publish"]
  /\ UNCHANGED <<next_write_index_, next_read_index_, num_elements_,
                 consumer, sent, received>>

(* updateWriteIndex(): first the index ... *)
updateWriteIndex_Advance ==
  /\ producer.pc = "publish"
  /\ next_write_index_' = Advance(next_write_index_)
  /\ producer' = [producer EXCEPT !.pc = "count"]
  /\ UNCHANGED <<store_, next_read_index_, num_elements_, consumer, sent, received>>

(* ... then ++num_elements_, which publishes the item. *)
updateWriteIndex_Count ==
  /\ producer.pc = "count"
  /\ num_elements_' = num_elements_ + 1
  /\ sent' = Append(sent, producer.item)
  /\ producer' = [producer EXCEPT !.pc = "idle"]
  /\ UNCHANGED <<store_, next_write_index_, next_read_index_, consumer, received>>
-----------------------------------------------------------------------------
(* The consumer. *)

(* getNextToRead(); a caller that gets nullptr calls again later. *)
getNextToRead ==
  /\ consumer.pc \in {"idle", "empty"}
  /\ \/ /\ Empty
        /\ consumer' = [consumer EXCEPT !.pc = "empty"]
     \/ /\ ~Empty
        /\ consumer' = [consumer EXCEPT !.pc = "use", !.slot = next_read_index_]
  /\ UNCHANGED <<store_, next_write_index_, next_read_index_, num_elements_,
                 producer, sent, received>>

(* The caller reads the item through the pointer it was given. *)
Use ==
  /\ consumer.pc = "use"
  /\ consumer' = [consumer EXCEPT !.pc = "release", !.item = store_[consumer.slot]]
  /\ UNCHANGED <<store_, next_write_index_, next_read_index_, num_elements_,
                 producer, sent, received>>

(* updateReadIndex(): first the index ... *)
updateReadIndex_Advance ==
  /\ consumer.pc = "release"
  /\ next_read_index_' = Advance(next_read_index_)
  /\ consumer' = [consumer EXCEPT !.pc = "uncount"]
  /\ UNCHANGED <<store_, next_write_index_, num_elements_, producer, sent, received>>

(* ... then --num_elements_, which gives the slot back to the producer. *)
updateReadIndex_Uncount ==
  /\ consumer.pc = "uncount"
  /\ num_elements_' = num_elements_ - 1
  /\ received' = Append(received, consumer.item)
  /\ consumer' = [consumer EXCEPT !.pc = "idle"]
  /\ UNCHANGED <<store_, next_write_index_, next_read_index_, producer, sent>>
-----------------------------------------------------------------------------
Produce ==
  \/ getNextToWriteTo
  \/ \E v \in Values : BeginFill(v)
  \/ EndFill
  \/ updateWriteIndex_Advance
  \/ updateWriteIndex_Count

Consume ==
  \/ getNextToRead
  \/ Use
  \/ updateReadIndex_Advance
  \/ updateReadIndex_Uncount

Next == Produce \/ Consume

SafeSpec == Init /\ [][Next]_queueVars

(* Both threads keep running: the producer loops on yield() and the        *)
(* consumer on yield() or a 1 ms sleep, and the scheduler runs both.       *)
Spec == SafeSpec /\ WF_queueVars(Produce) /\ WF_queueVars(Consume)
-----------------------------------------------------------------------------
(* Properties. *)

HoldsFreeSlot == producer.pc \in {"fill", "filling", "publish"}

HoldsItem == consumer.pc \in {"use", "release"}

(* No data race on a slot: while the producer may write through the        *)
(* pointer getNextToWriteTo() gave it, the consumer never holds a pointer  *)
(* from getNextToRead() to the same slot.                                  *)
SlotExclusive == HoldsFreeSlot /\ HoldsItem => producer.slot # consumer.slot

(* The slot k positions after slot i on the ring. *)
RingPos(i, k) == IF i + k < NumElems THEN i + k ELSE i + k - NumElems

(* The slot of the oldest item not yet released, the slot the producer     *)
(* will publish next, and the slot k positions after the oldest.           *)
Oldest == IF consumer.pc = "uncount" THEN consumer.slot ELSE next_read_index_

NextFree == IF producer.pc = "count" THEN producer.slot ELSE next_write_index_

SlotAt(k) == RingPos(Oldest, k)

(* num_elements_ counts exactly the items published and not yet released;  *)
(* they lie on the ring from Oldest on, in order and unchanged since they  *)
(* were written; the write position follows them.                          *)
RingHoldsItems ==
  /\ Len(sent) = Len(received) + num_elements_
  /\ NextFree = SlotAt(num_elements_)
  /\ \A k \in 0 .. num_elements_ - 1 :
       store_[SlotAt(k)] = sent[Len(received) + k + 1]

(* What a thread in the middle of an operation may rely on although the    *)
(* other one keeps running: the free slot it saw is still free and holds   *)
(* what it wrote; the item it saw is still there (so the assertion in      *)
(* updateReadIndex() holds) and is the one it read.                        *)
OperationsStable ==
  /\ producer.pc \in {"fill", "filling", "publish", "count"} =>
       num_elements_ < NumElems /\ Len(sent) < MaxItems
  /\ HoldsFreeSlot => producer.slot = next_write_index_
  /\ producer.pc \in {"filling", "publish", "count"} => producer.item \in Values
  /\ producer.pc \in {"publish", "count"} => store_[producer.slot] = producer.item
  /\ producer.pc = "count" => next_write_index_ = Advance(producer.slot)
  /\ consumer.pc \in {"use", "release", "uncount"} => num_elements_ > 0
  /\ HoldsItem => consumer.slot = next_read_index_
  /\ consumer.pc \in {"release", "uncount"} => consumer.item = store_[consumer.slot]
  /\ consumer.pc = "uncount" => next_read_index_ = Advance(consumer.slot)

(* The queue is a bounded first-in first-out channel, whose items enter    *)
(* with ++num_elements_ and leave with --num_elements_.                    *)
Fifo == INSTANCE BoundedFifo WITH Capacity <- NumElems

FifoSafeSpec == Fifo!SafeSpec

(* Every published item is eventually read and released by the consumer.   *)
EveryItemReleased ==
  \A n \in 1 .. MaxItems : Len(sent) >= n ~> Len(received) >= n

(* A producer that was refused because the queue was full, and keeps       *)
(* retrying as Logger::pushValue does, is eventually given a slot.         *)
RefusedProducerGetsSlot == producer.pc = "full" ~> producer.pc = "fill"
=============================================================================
