------------------------- MODULE LoggerParts_proofs -------------------------
(***************************************************************************)
(* Proofs about the two parts a Logger is made of: LFQueue, for every      *)
(* capacity, every set of values and every number of items, and            *)
(* createAndStartThread(), for every set of core numbers and every         *)
(* CPU_SETSIZE.                                                            *)
(***************************************************************************)
EXTENDS LFQueue, ThreadUtils, TLAPS

(* The inductive invariant: types, the content of the ring, and what each  *)
(* thread relies on in the middle of an operation.                         *)
IInv == TypeOK /\ RingHoldsItems /\ OperationsStable

-----------------------------------------------------------------------------
(* The index arithmetic of updateWriteIndex() and updateReadIndex() stays  *)
(* on the ring and wraps at the last slot only.                            *)
LEMMA AdvanceOnRing ==
  ASSUME NEW i \in Slots
  PROVE  /\ Advance(i) \in Slots
         /\ Advance(i) = IF i + 1 < NumElems THEN i + 1 ELSE 0
  <1>1. CASE i + 1 < NumElems
    BY <1>1, CapacityAssumption DEF Advance, Slots
  <1>2. CASE i + 1 = NumElems
    BY <1>2, CapacityAssumption DEF Advance, Slots
  <1>3. QED
    BY <1>1, <1>2, CapacityAssumption DEF Slots

(* The initial state satisfies the inductive invariant. *)
LEMMA InitIInv == Init => IInv
  BY CapacityAssumption
  DEF Init, IInv, TypeOK, RingHoldsItems, OperationsStable, Slots, Contents,
      ProducerPcs, ConsumerPcs, Oldest, NextFree, SlotAt, HoldsFreeSlot, HoldsItem

(* Positions counted from a slot on are slots of the ring, all distinct    *)
(* within one turn.                                                        *)
LEMMA RingPosDistinct ==
  ASSUME NEW i \in Slots, NEW j \in 0 .. NumElems - 1, NEW k \in 0 .. NumElems - 1
  PROVE  RingPos(i, j) \in Slots /\ (j # k => RingPos(i, j) # RingPos(i, k))
  BY CapacityAssumption DEF Slots, RingPos

(* Counting starts at the slot itself; one more position is one Advance,   *)
(* at either end.                                                          *)
LEMMA RingPosAdvance ==
  ASSUME NEW i \in Slots, NEW k \in 0 .. NumElems - 1
  PROVE  /\ RingPos(i, 0) = i
         /\ Advance(RingPos(i, k)) = RingPos(i, k + 1)
         /\ RingPos(Advance(i), k) = RingPos(i, k + 1)
  <1>1. RingPos(i, k) \in Slots
    BY RingPosDistinct
  <1>2. QED
    BY <1>1, AdvanceOnRing, CapacityAssumption DEF Slots, RingPos

LEMMA OldestIsSlot == TypeOK => Oldest \in Slots
  BY DEF TypeOK, Oldest

(* The slot the producer is working on is none of those the consumer may   *)
(* still read.                                                             *)
LEMMA FreeSlotIsFree ==
  ASSUME IInv, producer.pc \in {"fill", "filling", "publish", "count"}
  PROVE  /\ num_elements_ \in 0 .. NumElems - 1
         /\ producer.slot = SlotAt(num_elements_)
         /\ \A k \in 0 .. num_elements_ - 1 : producer.slot # SlotAt(k)
         /\ consumer.pc \in {"use", "release", "uncount"} => producer.slot # consumer.slot
  <1>1. num_elements_ \in 0 .. NumElems - 1
    BY CapacityAssumption DEF IInv, TypeOK, OperationsStable
  <1>2. producer.slot = SlotAt(num_elements_)
    BY DEF IInv, TypeOK, OperationsStable, HoldsFreeSlot, RingHoldsItems, NextFree
  <1>3. \A k \in 0 .. num_elements_ - 1 : producer.slot # SlotAt(k)
    BY <1>1, <1>2, OldestIsSlot, RingPosDistinct, CapacityAssumption DEF IInv, SlotAt
  <1>4. consumer.pc \in {"use", "release", "uncount"} =>
          num_elements_ > 0 /\ consumer.slot = SlotAt(0)
    BY OldestIsSlot, RingPosAdvance, CapacityAssumption
    DEF IInv, TypeOK, OperationsStable, HoldsItem, Oldest, SlotAt
  <1>5. QED
    BY <1>1, <1>2, <1>3, <1>4

(* The slot the consumer holds is that of the oldest item. *)
LEMMA HeldIsOldest ==
  ASSUME IInv, consumer.pc \in {"use", "release", "uncount"}
  PROVE  num_elements_ > 0 /\ store_[consumer.slot] = sent[Len(received) + 1]
  <1>1. num_elements_ \in Nat \ {0} /\ received \in Seq(Values)
    BY DEF IInv, TypeOK, OperationsStable
  <1>2. Oldest \in Slots /\ consumer.slot = Oldest
    BY OldestIsSlot DEF IInv, Oldest, OperationsStable, HoldsItem
  <1>3. consumer.slot = SlotAt(0)
    <2>1. RingPos(Oldest, 0) = Oldest
      BY <1>2, RingPosAdvance, CapacityAssumption
    <2>2. QED
      BY <1>2, <2>1 DEF SlotAt
  <1>4. store_[SlotAt(0)] = sent[Len(received) + 0 + 1]
    BY <1>1 DEF IInv, RingHoldsItems
  <1>5. QED
    BY <1>1, <1>3, <1>4

(* updateReadIndex() is called with an item in the queue, so its assertion *)
(* holds, and the item it releases is the oldest one.                      *)
LEMMA UncountsOldest ==
  ASSUME IInv, consumer.pc = "uncount"
  PROVE  num_elements_ > 0 /\ consumer.item = sent[Len(received) + 1]
  BY HeldIsOldest DEF IInv, OperationsStable

(* A step that moves no published item leaves the ring as it was. *)
LEMMA RingUnchanged ==
  ASSUME IInv, UNCHANGED <<num_elements_, sent, received>>,
         Oldest' = Oldest, NextFree' = NextFree,
         \A k \in 0 .. num_elements_ - 1 : store_'[SlotAt(k)] = store_[SlotAt(k)]
  PROVE  RingHoldsItems'
  BY DEF IInv, RingHoldsItems, SlotAt

(* Every step of either thread preserves it. *)
LEMMA NextIInv == IInv /\ [Next]_queueVars => IInv'
  <1> SUFFICES ASSUME IInv, [Next]_queueVars
               PROVE  IInv'
    OBVIOUS
  <1> USE CapacityAssumption, ItemsAssumption DEF IInv
  <1>1. CASE getNextToWriteTo
    <2>1. TypeOK'
      BY Zenon, <1>1 DEF getNextToWriteTo, TypeOK, ProducerPcs
    <2>2. RingHoldsItems'
      BY Zenon, <1>1, RingUnchanged DEF getNextToWriteTo, TypeOK, Oldest, NextFree
    <2>3. OperationsStable'
      <3>1. CASE Full
        BY <1>1, <3>1 DEF getNextToWriteTo, Full, TypeOK, OperationsStable, HoldsFreeSlot, HoldsItem
      <3>2. CASE ~Full
        <4>1. num_elements_ < NumElems
          BY <3>2 DEF Full, TypeOK
        <4>2. producer' = [producer EXCEPT !.pc = "fill", !.slot = next_write_index_]
          BY <1>1, <3>2 DEF getNextToWriteTo
        <4>3. producer'.pc = "fill" /\ producer'.slot = next_write_index_
          BY <4>2 DEF TypeOK
        <4>4. QED
          BY <1>1, <4>1, <4>3 DEF getNextToWriteTo, OperationsStable, HoldsFreeSlot, HoldsItem
      <3>3. QED
        BY <3>1, <3>2
    <2>4. QED
      BY <2>1, <2>2, <2>3
  <1>2. ASSUME NEW v \in Values, BeginFill(v)
        PROVE  IInv'
    <2>1. TypeOK'
      BY Zenon, <1>2 DEF BeginFill, TypeOK, ProducerPcs, Contents
    <2>2. RingHoldsItems'
      <3>1. \A k \in 0 .. num_elements_ - 1 : store_'[SlotAt(k)] = store_[SlotAt(k)]
        BY <1>2, FreeSlotIsFree DEF BeginFill, TypeOK
      <3>2. QED
        BY <1>2, <3>1, RingUnchanged DEF BeginFill, TypeOK, Oldest, NextFree
    <2>3. OperationsStable'
      BY <1>2, FreeSlotIsFree DEF BeginFill, TypeOK, OperationsStable, HoldsFreeSlot, HoldsItem
    <2>4. QED
      BY <2>1, <2>2, <2>3
  <1>3. CASE EndFill
    <2>1. TypeOK'
      BY Zenon, <1>3 DEF EndFill, TypeOK, ProducerPcs
    <2>2. RingHoldsItems'
      <3>1. \A k \in 0 .. num_elements_ - 1 : store_'[SlotAt(k)] = store_[SlotAt(k)]
        BY <1>3, FreeSlotIsFree DEF EndFill, TypeOK
      <3>2. QED
        BY <1>3, <3>1, RingUnchanged DEF EndFill, TypeOK, Oldest, NextFree
    <2>3. OperationsStable'
      BY <1>3, FreeSlotIsFree DEF EndFill, TypeOK, OperationsStable, HoldsFreeSlot, HoldsItem
    <2>4. QED
      BY <2>1, <2>2, <2>3
  <1>4. CASE updateWriteIndex_Advance
    <2>1. TypeOK'
      BY Zenon, <1>4, AdvanceOnRing DEF updateWriteIndex_Advance, TypeOK, ProducerPcs
    <2>2. RingHoldsItems'
      BY <1>4, RingUnchanged
      DEF updateWriteIndex_Advance, TypeOK, OperationsStable, HoldsFreeSlot, Oldest, NextFree
    <2>3. OperationsStable'
      BY <1>4 DEF updateWriteIndex_Advance, TypeOK, OperationsStable, HoldsFreeSlot, HoldsItem
    <2>4. QED
      BY <2>1, <2>2, <2>3
  <1>5. CASE updateWriteIndex_Count
    <2>1. TypeOK'
      <3>1. num_elements_' \in 0 .. NumElems
        BY <1>5, FreeSlotIsFree DEF updateWriteIndex_Count
      <3>2. sent' \in Seq(Values)
        BY <1>5 DEF updateWriteIndex_Count, TypeOK, OperationsStable
      <3>3. producer' \in [pc : ProducerPcs, slot : Slots, item : Contents]
        BY Zenon, <1>5 DEF updateWriteIndex_Count, TypeOK, ProducerPcs
      <3>4. QED
        BY <1>5, <3>1, <3>2, <3>3 DEF updateWriteIndex_Count, TypeOK
    <2>2. RingHoldsItems'
      <3>1. Oldest' = Oldest /\ NextFree' = Advance(producer.slot)
        BY <1>5 DEF updateWriteIndex_Count, TypeOK, OperationsStable, Oldest, NextFree
      <3>2. NextFree' = SlotAt(num_elements_ + 1)
        BY <1>5, <3>1, FreeSlotIsFree, OldestIsSlot, RingPosAdvance
        DEF updateWriteIndex_Count, SlotAt
      <3>3. \A k \in 0 .. num_elements_ : store_[SlotAt(k)] = sent'[Len(received) + k + 1]
        <4>1. sent \in Seq(Values) /\ received \in Seq(Values) /\ num_elements_ \in Nat
          BY DEF TypeOK
        <4>2. Len(sent) = Len(received) + num_elements_ /\ sent' = Append(sent, producer.item)
          BY <1>5 DEF updateWriteIndex_Count, RingHoldsItems
        <4>3. store_[SlotAt(num_elements_)] = sent'[Len(received) + num_elements_ + 1]
          <5>1. producer.pc = "count" /\ producer.item \in Values
                /\ store_[producer.slot] = producer.item
            BY Zenon, <1>5 DEF updateWriteIndex_Count, OperationsStable
          <5>2. producer.slot = SlotAt(num_elements_)
            BY Zenon, <5>1, FreeSlotIsFree
          <5>3. sent'[Len(received) + num_elements_ + 1] = producer.item
            <6>1. PICK v \in Values : v = producer.item
              BY Zenon, <5>1
            <6>2. sent' = Append(sent, v)
              BY Zenon, <4>2, <6>1
            <6>3. sent'[Len(sent) + 1] = v
              BY <4>1, <6>2
            <6>4. QED
              BY Zenon, <4>2, <6>1, <6>3
          <5>4. QED
            BY Zenon, <5>1, <5>2, <5>3
        <4>4. ASSUME NEW k \in 0 .. num_elements_ - 1
              PROVE  store_[SlotAt(k)] = sent'[Len(received) + k + 1]
          BY <4>1, <4>2 DEF RingHoldsItems
        <4>5. QED
          BY <4>1, <4>3, <4>4
      <3>4. /\ num_elements_' = num_elements_ + 1 /\ num_elements_ \in Nat
            /\ store_' = store_ /\ received' = received
        BY <1>5 DEF updateWriteIndex_Count, TypeOK
      <3>5. Len(sent') = Len(received') + num_elements_'
        <4>1. Len(sent) = Len(received) + num_elements_ /\ sent' = Append(sent, producer.item)
          BY <1>5 DEF updateWriteIndex_Count, RingHoldsItems
        <4>2. sent \in Seq(Values) /\ received \in Seq(Values)
          BY DEF TypeOK
        <4>3. QED
          BY <3>4, <4>1, <4>2
      <3>6. NextFree' = RingPos(Oldest', num_elements_')
        BY <3>1, <3>2, <3>4 DEF SlotAt
      <3>7. \A k \in 0 .. num_elements_' - 1 :
              store_'[RingPos(Oldest', k)] = sent'[Len(received') + k + 1]
        BY <3>1, <3>3, <3>4 DEF SlotAt
      <3>8. QED
        BY <3>5, <3>6, <3>7 DEF RingHoldsItems, SlotAt
    <2>3. OperationsStable'
      BY <1>5 DEF updateWriteIndex_Count, TypeOK, OperationsStable, HoldsFreeSlot, HoldsItem
    <2>4. QED
      BY <2>1, <2>2, <2>3
  <1>6. CASE getNextToRead
    <2>1. TypeOK'
      BY Zenon, <1>6 DEF getNextToRead, TypeOK, ConsumerPcs
    <2>2. RingHoldsItems'
      BY Zenon, <1>6, RingUnchanged DEF getNextToRead, TypeOK, Oldest, NextFree
    <2>3. OperationsStable'
      <3>1. CASE Empty
        BY <1>6, <3>1 DEF getNextToRead, Empty, TypeOK, OperationsStable, HoldsFreeSlot, HoldsItem
      <3>2. CASE ~Empty
        <4>1. num_elements_ > 0
          BY <3>2 DEF Empty, TypeOK
        <4>2. consumer' = [consumer EXCEPT !.pc = "use", !.slot = next_read_index_]
          BY <1>6, <3>2 DEF getNextToRead
        <4>3. consumer'.pc = "use" /\ consumer'.slot = next_read_index_
          BY <4>2 DEF TypeOK
        <4>4. QED
          BY <1>6, <4>1, <4>3 DEF getNextToRead, OperationsStable, HoldsFreeSlot, HoldsItem
      <3>3. QED
        BY <3>1, <3>2
    <2>4. QED
      BY <2>1, <2>2, <2>3
  <1>7. CASE Use
    <2>1. TypeOK'
      BY Zenon, <1>7 DEF Use, TypeOK, ConsumerPcs
    <2>2. RingHoldsItems'
      BY <1>7, RingUnchanged DEF Use, TypeOK, Oldest, NextFree
    <2>3. OperationsStable'
      BY <1>7 DEF Use, TypeOK, OperationsStable, HoldsFreeSlot, HoldsItem
    <2>4. QED
      BY <2>1, <2>2, <2>3
  <1>8. CASE updateReadIndex_Advance
    <2>1. TypeOK'
      BY Zenon, <1>8, AdvanceOnRing DEF updateReadIndex_Advance, TypeOK, ConsumerPcs
    <2>2. RingHoldsItems'
      BY <1>8, RingUnchanged
      DEF updateReadIndex_Advance, TypeOK, OperationsStable, HoldsItem, Oldest, NextFree
    <2>3. OperationsStable'
      BY <1>8 DEF updateReadIndex_Advance, TypeOK, OperationsStable, HoldsFreeSlot, HoldsItem
    <2>4. QED
      BY <2>1, <2>2, <2>3
  <1>9. CASE updateReadIndex_Uncount
    <2>1. num_elements_ > 0 /\ consumer.item = sent[Len(received) + 1]
      BY <1>9, UncountsOldest DEF updateReadIndex_Uncount
    <2>2. TypeOK'
      <3>1. num_elements_' \in 0 .. NumElems
        BY <1>9, <2>1 DEF updateReadIndex_Uncount, TypeOK
      <3>2. Len(received) + 1 \in 1 .. Len(sent)
        BY <2>1 DEF TypeOK, RingHoldsItems
      <3>3. received' \in Seq(Values)
        BY <1>9, <2>1, <3>2 DEF updateReadIndex_Uncount, TypeOK
      <3>4. consumer' \in [pc : ConsumerPcs, slot : Slots, item : Contents]
        BY Zenon, <1>9 DEF updateReadIndex_Uncount, TypeOK, ConsumerPcs
      <3>5. QED
        BY <1>9, <3>1, <3>3, <3>4 DEF updateReadIndex_Uncount, TypeOK
    <2>3. RingHoldsItems'
      <3>1. \A k \in 0 .. num_elements_ - 1 : RingPos(Oldest', k) = SlotAt(k + 1)
        <4>1. Oldest' = Advance(Oldest)
          BY <1>9 DEF updateReadIndex_Uncount, TypeOK, OperationsStable, Oldest
        <4>2. \A k \in 0 .. NumElems - 1 : RingPos(Advance(Oldest), k) = RingPos(Oldest, k + 1)
          BY OldestIsSlot, RingPosAdvance
        <4>3. QED
          BY <4>1, <4>2 DEF SlotAt, TypeOK
      <3>2. /\ num_elements_ \in Nat \ {0} /\ num_elements_' = num_elements_ - 1
            /\ Len(received) \in Nat /\ Len(received') = Len(received) + 1
            /\ UNCHANGED <<sent, store_>> /\ NextFree' = NextFree
        BY <1>9, <2>1 DEF updateReadIndex_Uncount, TypeOK, NextFree
      <3>3. Len(sent') = Len(received') + num_elements_'
        BY <3>2 DEF RingHoldsItems
      <3>4. NextFree' = RingPos(Oldest', num_elements_')
        <4>1. RingPos(Oldest', num_elements_') = SlotAt(num_elements_)
          BY <3>1, <3>2
        <4>2. QED
          BY <3>2, <4>1 DEF RingHoldsItems, SlotAt
      <3>5. ASSUME NEW k \in 0 .. num_elements_' - 1
            PROVE  store_'[RingPos(Oldest', k)] = sent'[Len(received') + k + 1]
        <4>1. RingPos(Oldest', k) = SlotAt(k + 1) /\ k + 1 \in 0 .. num_elements_ - 1
          BY <3>1, <3>2
        <4>2. store_[SlotAt(k + 1)] = sent[Len(received) + (k + 1) + 1]
          BY <4>1 DEF RingHoldsItems
        <4>3. QED
          BY <3>2, <4>1, <4>2
      <3>6. QED
        BY <3>3, <3>4, <3>5 DEF RingHoldsItems, SlotAt
    <2>4. OperationsStable'
      BY <1>9 DEF updateReadIndex_Uncount, TypeOK, OperationsStable, HoldsFreeSlot, HoldsItem
    <2>5. QED
      BY <2>2, <2>3, <2>4
  <1>10. CASE UNCHANGED queueVars
    BY <1>10
    DEF queueVars, TypeOK, RingHoldsItems, Oldest, NextFree, SlotAt, OperationsStable,
        HoldsFreeSlot, HoldsItem
  <1>11. QED
    BY <1>1, <1>2, <1>3, <1>4, <1>5, <1>6, <1>7, <1>8, <1>9, <1>10
    DEF Next, Produce, Consume
-----------------------------------------------------------------------------
(* The ring and both threads' indices always have their types: no index    *)
(* leaves store_, and num_elements_ neither exceeds the capacity nor wraps *)
(* below 0.                                                                *)
THEOREM TypeCorrect == SafeSpec => []TypeOK
  <1>1. IInv => TypeOK
    BY DEF IInv
  <1>2. QED
    BY <1>1, InitIInv, NextIInv, PTL DEF SafeSpec

(* For every capacity, the slots from next_read_index_ on hold exactly the *)
(* published, unreleased items in order.                                   *)
THEOREM RingCorrect == SafeSpec => []RingHoldsItems
  <1>1. IInv => RingHoldsItems
    BY DEF IInv
  <1>2. QED
    BY <1>1, InitIInv, NextIInv, PTL DEF SafeSpec

(* For every capacity, what getNextToWriteTo() or getNextToRead() returned *)
(* before the other thread ran is still true when it is acted on.          *)
THEOREM PointersStayValid == SafeSpec => []OperationsStable
  <1>1. IInv => OperationsStable
    BY DEF IInv
  <1>2. QED
    BY <1>1, InitIInv, NextIInv, PTL DEF SafeSpec

(* For every capacity, producer and consumer never hold the same slot: the *)
(* accesses to the non-atomic elements of store_ do not race.              *)
THEOREM NoSlotRace == SafeSpec => []SlotExclusive
  <1>1. IInv => SlotExclusive
    BY FreeSlotIsFree DEF SlotExclusive, HoldsFreeSlot, HoldsItem
  <1>2. QED
    BY <1>1, InitIInv, NextIInv, PTL DEF SafeSpec
-----------------------------------------------------------------------------
(* ++num_elements_ publishes one item into a channel with room for it.     *)
LEMMA CountPublishes ==
  ASSUME IInv, updateWriteIndex_Count
  PROVE  \E v \in Values : Fifo!Publish(v)
  <1>1. producer.item \in Values /\ Len(sent) < MaxItems
    BY DEF IInv, updateWriteIndex_Count, OperationsStable
  <1>2. Len(sent) - Len(received) < NumElems
    <2>1. num_elements_ < NumElems
      BY FreeSlotIsFree, CapacityAssumption DEF updateWriteIndex_Count
    <2>2. Len(sent) = Len(received) + num_elements_
      BY DEF IInv, RingHoldsItems
    <2>3. QED
      BY <2>1, <2>2, CapacityAssumption DEF IInv, TypeOK
  <1>3. QED
    BY <1>1, <1>2 DEF Fifo!Publish, updateWriteIndex_Count

(* --num_elements_ releases the oldest item of the channel.                *)
LEMMA UncountReleases ==
  ASSUME IInv, updateReadIndex_Uncount
  PROVE  Fifo!Release
  <1>1. consumer.item = sent[Len(received) + 1] /\ num_elements_ > 0
    BY UncountsOldest DEF updateReadIndex_Uncount
  <1>2. Len(received) < Len(sent)
    BY <1>1 DEF IInv, TypeOK, RingHoldsItems
  <1>3. QED
    BY <1>1, <1>2 DEF Fifo!Release, updateReadIndex_Uncount

(* The queue implements a bounded first-in first-out channel.              *)
THEOREM FifoRefinement == SafeSpec => FifoSafeSpec
  <1>1. Init => Fifo!Init
    BY DEF Init, Fifo!Init
  <1>2. IInv /\ [Next]_queueVars => [Fifo!Next]_(Fifo!fifoVars)
    <2> SUFFICES ASSUME IInv, [Next]_queueVars
                 PROVE  Fifo!Next \/ UNCHANGED <<sent, received>>
      BY DEF Fifo!fifoVars
    <2>1. CASE updateWriteIndex_Count
      BY <2>1, CountPublishes DEF Fifo!Next
    <2>2. CASE updateReadIndex_Uncount
      BY <2>2, UncountReleases DEF Fifo!Next
    <2>3. CASE \/ getNextToWriteTo \/ (\E v \in Values : BeginFill(v)) \/ EndFill
               \/ updateWriteIndex_Advance
      BY Zenon, <2>3 DEF getNextToWriteTo, BeginFill, EndFill, updateWriteIndex_Advance
    <2>4. CASE getNextToRead \/ Use \/ updateReadIndex_Advance
      BY <2>4 DEF getNextToRead, Use, updateReadIndex_Advance
    <2>5. CASE UNCHANGED queueVars
      BY <2>5 DEF queueVars
    <2>6. QED
      BY <2>1, <2>2, <2>3, <2>4, <2>5 DEF Next, Produce, Consume
  <1>3. QED
    BY <1>1, <1>2, InitIInv, NextIInv, PTL DEF SafeSpec, FifoSafeSpec, Fifo!SafeSpec
-----------------------------------------------------------------------------
(* createAndStartThread(): FlagsTellProgress is inductive as it stands. *)
LEMMA InitFlags == ThreadInit => FlagsTellProgress
  BY Zenon DEF ThreadInit, FlagsTellProgress, ThreadTypeOK, CallerPcs, ChildPcs

(* Every access to one of the two atomics preserves the relation.          *)
LEMMA NextFlags == FlagsTellProgress /\ [ThreadNext]_threadVars => FlagsTellProgress'
  <1> SUFFICES ASSUME FlagsTellProgress, [ThreadNext]_threadVars
               PROVE  FlagsTellProgress'
    OBVIOUS
  <1> USE DEF FlagsTellProgress, ThreadTypeOK, CallerPcs, ChildPcs
  <1>1. CASE StartThread
    BY <1>1 DEF StartThread
  <1>2. CASE LoadRunning
    BY <1>2 DEF LoadRunning
  <1>3. CASE LoadFailed
    BY <1>3 DEF LoadFailed
  <1>4. CASE Verdict
    BY <1>4 DEF Verdict
  <1>5. CASE JoinFailed
    BY <1>5 DEF JoinFailed
  <1>6. CASE Setup
    <2>1. CASE core_id < 0
      BY <1>6, <2>1, CoreAssumption DEF Setup
    <2>2. CASE core_id >= 0
      <3>. ~(core_id < 0)
        BY <2>2, CoreAssumption
      <3>1. PICK ok \in setThreadCore(core_id) :
              /\ pinned' = ok
              /\ child' = IF ok THEN "store_running" ELSE "store_failed"
        BY <1>6 DEF Setup
      <3> ok \in BOOLEAN
        BY Zenon DEF setThreadCore
      <3>2. CASE ok
        BY <1>6, <3>1, <3>2 DEF Setup
      <3>3. CASE ~ok
        BY <1>6, <3>1, <3>3 DEF Setup
      <3>4. QED
        BY <3>2, <3>3
    <2>3. QED
      BY <2>1, <2>2, CoreAssumption
  <1>7. CASE StoreFailed
    BY <1>7 DEF StoreFailed
  <1>8. CASE ReturnFailed
    BY <1>8 DEF ReturnFailed
  <1>9. CASE StoreRunning
    BY <1>9 DEF StoreRunning
  <1>10. CASE TaskReturns
    BY <1>10 DEF TaskReturns
  <1>11. CASE UNCHANGED threadVars
    BY <1>11 DEF threadVars
  <1>12. QED
    BY Zenon, <1>1, <1>2, <1>3, <1>4, <1>5, <1>6, <1>7, <1>8, <1>9, <1>10, <1>11
    DEF ThreadNext, Caller, ChildSetup

(* For every core number, the two atomics tell the caller exactly how far  *)
(* the new thread's set-up has got.                                        *)
THEOREM HandshakeCorrect == ThreadSafeSpec => []FlagsTellProgress
  BY InitFlags, NextFlags, PTL DEF ThreadSafeSpec

(* For every core number, the new thread never stores into a flag of       *)
(* createAndStartThread()'s frame after that frame has been left.          *)
THEOREM NoStoreIntoDeadFrame == ThreadSafeSpec => []FlagsOutliveTheirUse
  <1>1. FlagsTellProgress => FlagsOutliveTheirUse
    BY DEF FlagsTellProgress, ThreadTypeOK, CallerPcs, ChildPcs, FlagsOutliveTheirUse
  <1>2. QED
    BY <1>1, HandshakeCorrect, PTL

(* For every core number, createAndStartThread() returns only a thread     *)
(* whose set-up succeeded, and throws only when no thread is left.         *)
THEOREM CallerLearnsOutcome == ThreadSafeSpec => []OutcomeIsSetup
  <1>1. FlagsTellProgress => OutcomeIsSetup
    BY DEF FlagsTellProgress, ThreadTypeOK, CallerPcs, ChildPcs, OutcomeIsSetup
  <1>2. QED
    BY <1>1, HandshakeCorrect, PTL
=============================================================================
