---------------------------- MODULE MemPool_proofs ----------------------------
(***************************************************************************)
(* Proofs about MemPool for every number of slots, every width of size_t   *)
(* that holds it and every depth of nesting.                               *)
(***************************************************************************)
EXTENDS MemPool, Filters_proofs, FiniteSetTheorems

FreeSlots == {s \in Slots : is_free_[s]}

TypeOK ==
  /\ is_free_ \in [Slots -> BOOLEAN]
  /\ next_free_index_ \in Slots
  /\ num_free_ \in Nat
  /\ frames \in Seq([op : {"allocate", "deallocate", "~MemPool"}, slot : Slots])
  /\ sweep \in Int
  /\ objects \in [Slots -> Int]

(* The calls in progress work on different slots, and is_free_ of a slot   *)
(* is what the call found there, for it is not written before T's code is  *)
(* done.                                                                   *)
CallsApart ==
  /\ \A k \in DOMAIN frames : is_free_[frames[k].slot] <=> frames[k].op = "allocate"
  /\ \A j, k \in DOMAIN frames : j # k => frames[j].slot # frames[k].slot

(* The inductive invariant of the free list. *)
FreeInv == TypeOK /\ FreeCountExact /\ NextSlotIsFree /\ CallsApart

(* The slots whose objects ~MemPool() has still to destroy. *)
ToSweep(s) == ~is_free_[s] /\ (s > sweep \/ (s = sweep /\ frames = <<>>))

(* The sweep of ~MemPool(): which calls are in progress, and which objects *)
(* are left; a slot already passed has one only if it was allocated since. *)
SweepInv ==
  /\ Alive => \A k \in DOMAIN frames : frames[k].op # "~MemPool"
  /\ ~Alive =>
       /\ \A k \in DOMAIN frames :
            IF k = 1 THEN frames[k] = [op |-> "~MemPool", slot |-> sweep]
            ELSE frames[k].op = "allocate"
       /\ \A s \in Slots :
            /\ ToSweep(s) \/ s \in InProgress({"allocate"}) => objects[s] = 1
            /\ is_free_[s] /\ s \notin InProgress({"allocate"}) => objects[s] = 0
            /\ objects[s] = 1 =>
                 ToSweep(s) \/ s \in late \/ (s \in InProgress({"allocate"}) /\ s > sweep)
-----------------------------------------------------------------------------
(* size_t does not wrap within the pool's counts. *)
LEMMA NoWrap ==
  ASSUME NEW n \in 0 .. NumElems
  PROVE  n % SizeModulus = n
  BY PoolAssumption

(* The free slots are finitely many, so that they can be counted. *)
LEMMA FreeSlotsFinite ==
  IsFiniteSet(Slots) /\ IsFiniteSet(FreeSlots) /\ Cardinality(FreeSlots) \in 0 .. NumElems
  <1>1. IsFiniteSet(Slots) /\ Cardinality(Slots) = NumElems
    BY PoolAssumption, FS_Interval DEF Slots
  <1>2. FreeSlots \in SUBSET Slots
    BY DEF FreeSlots
  <1>3. IsFiniteSet(FreeSlots) /\ Cardinality(FreeSlots) <= NumElems
    BY <1>1, <1>2, FS_Subset
  <1>4. QED
    BY <1>1, <1>3, FS_CardinalityType, PoolAssumption

(* updateNextFreeIndex() stops at a free slot if there is one. *)
LEMMA NextFreeIsFree ==
  ASSUME NEW start \in Slots, NEW free \in [Slots -> BOOLEAN]
  PROVE  /\ updateNextFreeIndex(start, free) \in Slots
         /\ (\E s \in Slots : free[s]) => free[updateNextFreeIndex(start, free)]
  <1> DEFINE Distance(s) == IF s > start THEN s - start ELSE s - start + NumElems
             candidates == {s \in Slots : free[s]}
  <1>1. CASE candidates = {}
    BY <1>1 DEF updateNextFreeIndex
  <1>2. CASE candidates # {}
    <2> DEFINE T == {Distance(s) : s \in candidates}
    <2>1. T \in SUBSET Nat /\ T # {}
      BY <1>2, PoolAssumption DEF Slots
    <2> HIDE DEF T
    <2>2. PICK d \in T : \A e \in T : d <= e
      BY <2>1, Smallest
    <2>3. \E s \in candidates : \A t \in candidates : Distance(s) <= Distance(t)
      BY <2>2 DEF T
    <2>4. (CHOOSE s \in candidates : \A t \in candidates : Distance(s) <= Distance(t)) \in candidates
      BY <2>3
    <2>5. updateNextFreeIndex(start, free) \in candidates
      BY <1>2, <2>4 DEF updateNextFreeIndex
    <2>6. QED
      BY <2>5
  <1>3. QED
    BY <1>1, <1>2
-----------------------------------------------------------------------------
(* The constructor leaves a free list that is right. *)
LEMMA InitFree == Init => FreeInv
  <1> SUFFICES ASSUME Init
               PROVE  FreeInv
    OBVIOUS
  <1>1. TypeOK /\ CallsApart
    BY PoolAssumption DEF Init, TypeOK, CallsApart, Slots
  <1>2. {s \in Slots : is_free_[s]} = 0 .. NumElems - 1
    BY DEF Init, Slots
  <1>3. FreeCountExact
    <2>1. NumElems - 1 \in Int /\ ~(0 > NumElems - 1) /\ NumElems - 1 - 0 + 1 = NumElems
      BY PoolAssumption
    <2>2. Cardinality(0 .. NumElems - 1) = NumElems
      BY <2>1, FS_Interval
    <2>3. QED
      BY Zenon, <1>2, <2>2 DEF Init, FreeCountExact
  <1>4. NextSlotIsFree
    BY PoolAssumption DEF Init, NextSlotIsFree, Slots
  <1>5. QED
    BY <1>1, <1>3, <1>4 DEF FreeInv

(* Every call in progress works on a slot of the pool. *)
LEMMA FrameSlots ==
  ASSUME TypeOK, NEW k \in DOMAIN frames
  PROVE  frames[k].slot \in Slots /\ frames[k].op \in {"allocate", "deallocate", "~MemPool"}
  <1> DEFINE F == [op : {"allocate", "deallocate", "~MemPool"}, slot : Slots]
  <1>1. frames \in Seq(F)
    BY DEF TypeOK
  <1> HIDE DEF F
  <1>2. frames[k] \in F
    BY <1>1
  <1>3. QED
    BY <1>2 DEF F

(* A call that returns is the innermost one; the others stay as they were. *)
LEMMA Resumed ==
  ASSUME TypeOK, NEW op, NEW s \in Slots, Resume(op, s)
  PROVE  /\ Len(frames) \in DOMAIN frames
         /\ frames[Len(frames)].op = op /\ frames[Len(frames)].slot = s
         /\ frames' \in Seq([op : {"allocate", "deallocate", "~MemPool"}, slot : Slots])
         /\ DOMAIN frames' = DOMAIN frames \ {Len(frames)}
         /\ \A k \in DOMAIN frames' : frames'[k] = frames[k]
  <1> DEFINE F == [op : {"allocate", "deallocate", "~MemPool"}, slot : Slots]
  <1> HIDE DEF F
  <1>1. frames \in Seq(F) /\ frames # <<>>
    BY DEF TypeOK, Resume, F
  <1>2. Len(frames) \in Nat \ {0} /\ DOMAIN frames = 1 .. Len(frames)
    BY <1>1
  <1>3. frames' = SubSeq(frames, 1, Len(frames) - 1)
    BY DEF Resume
  <1>4. frames' \in Seq(F) /\ Len(frames') = Len(frames) - 1
    BY <1>1, <1>2, <1>3
  <1>5. \A k \in 1 .. Len(frames) - 1 : frames'[k] = frames[k]
    BY <1>1, <1>2, <1>3
  <1>6. DOMAIN frames' = 1 .. Len(frames) - 1
    BY <1>2, <1>4
  <1>7. frames[Len(frames)] = [op |-> op, slot |-> s]
    BY DEF Resume
  <1>8. QED
    BY <1>2, <1>4, <1>5, <1>6, <1>7 DEF F

(* A call that begins is added to those in progress. *)
LEMMA Called ==
  ASSUME TypeOK, NEW op \in {"allocate", "deallocate", "~MemPool"}, NEW s \in Slots,
         Call(op, s)
  PROVE  /\ frames' \in Seq([op : {"allocate", "deallocate", "~MemPool"}, slot : Slots])
         /\ DOMAIN frames' = DOMAIN frames \cup {Len(frames) + 1}
         /\ Len(frames) + 1 \notin DOMAIN frames
         /\ frames'[Len(frames) + 1].op = op /\ frames'[Len(frames) + 1].slot = s
         /\ \A k \in DOMAIN frames : frames'[k] = frames[k]
  <1> DEFINE F == [op : {"allocate", "deallocate", "~MemPool"}, slot : Slots]
             e == [op |-> op, slot |-> s]
  <1>1. e \in F /\ e.op = op /\ e.slot = s
    OBVIOUS
  <1>2. frames \in Seq(F) /\ frames' = Append(frames, e)
    BY DEF TypeOK, Call
  <1> HIDE DEF F, e
  <1>3. Len(frames) \in Nat /\ DOMAIN frames = 1 .. Len(frames)
    BY <1>2
  <1>4. frames' \in Seq(F) /\ Len(frames') = Len(frames) + 1
    BY <1>1, <1>2
  <1>5. frames'[Len(frames) + 1] = e /\ \A k \in 1 .. Len(frames) : frames'[k] = frames[k]
    BY <1>2, <1>3
  <1>6. DOMAIN frames' = 1 .. Len(frames) + 1
    BY <1>4
  <1>7. QED
    BY <1>1, <1>3, <1>4, <1>5, <1>6 DEF F

(* A step that writes no member of the pool leaves the free list right, if *)
(* the calls in progress stay apart.                                       *)
LEMMA FreeListUnchanged ==
  ASSUME FreeInv, UNCHANGED <<is_free_, next_free_index_, num_free_>>, TypeOK', CallsApart'
  PROVE  FreeInv'
  BY DEF FreeInv, FreeCountExact, NextSlotIsFree

(* A call that begins on a slot no other call works on, and finds is_free_ *)
(* as its kind requires, stays apart from the others.                      *)
LEMMA CallStaysApart ==
  ASSUME TypeOK, CallsApart, NEW op \in {"allocate", "deallocate", "~MemPool"},
         NEW s \in Slots, Call(op, s), UNCHANGED is_free_,
         is_free_[s] <=> op = "allocate",
         \A k \in DOMAIN frames : frames[k].slot # s
  PROVE  CallsApart'
  BY Called DEF CallsApart

(* A call that returns may change is_free_ of its own slot. *)
LEMMA ReturnStaysApart ==
  ASSUME TypeOK, CallsApart, NEW op, NEW s \in Slots, Resume(op, s),
         NEW v \in BOOLEAN, is_free_' = [is_free_ EXCEPT ![s] = v]
  PROVE  CallsApart'
  <1>1. ASSUME NEW k \in DOMAIN frames'
        PROVE  frames'[k].slot # s /\ frames'[k].slot \in Slots
    <2>1. k \in DOMAIN frames /\ k # Len(frames) /\ frames'[k] = frames[k]
      BY Resumed
    <2>2. frames[k].slot # s
      BY <2>1, Resumed DEF CallsApart
    <2>3. QED
      BY <2>1, <2>2, FrameSlots
  <1>2. \A k \in DOMAIN frames' : is_free_'[frames'[k].slot] = is_free_[frames'[k].slot]
    BY <1>1 DEF TypeOK
  <1>3. QED
    BY <1>2, Resumed DEF CallsApart

(* allocate() takes its slot off the free ones. *)
LEMMA CountAfterTake ==
  ASSUME TypeOK, FreeCountExact, NEW s \in Slots, is_free_[s],
         is_free_' = [is_free_ EXCEPT ![s] = FALSE]
  PROVE  num_free_ \in 1 .. NumElems /\ Cardinality(FreeSlots') = num_free_ - 1
  <1>1. FreeSlots' = FreeSlots \ {s} /\ s \in FreeSlots
    BY DEF TypeOK, FreeSlots
  <1>2. num_free_ = Cardinality(FreeSlots) /\ FreeSlots # {}
    BY <1>1 DEF FreeCountExact, FreeSlots
  <1>3. QED
    BY <1>1, <1>2, FreeSlotsFinite, FS_RemoveElement, FS_EmptySet, PoolAssumption

(* deallocate() adds its slot to the free ones. *)
LEMMA CountAfterRelease ==
  ASSUME TypeOK, FreeCountExact, NEW s \in Slots, ~is_free_[s],
         is_free_' = [is_free_ EXCEPT ![s] = TRUE]
  PROVE  /\ num_free_ + 1 \in 0 .. NumElems
         /\ Cardinality(FreeSlots') = num_free_ + 1
  <1>1. FreeSlots' = FreeSlots \cup {s} /\ s \notin FreeSlots
    BY DEF TypeOK, FreeSlots
  <1>2. num_free_ = Cardinality(FreeSlots)
    BY DEF FreeCountExact, FreeSlots
  <1>3. Cardinality(FreeSlots') = num_free_ + 1
    BY Zenon, <1>1, <1>2, FreeSlotsFinite, FS_AddElement
  <1>4. FreeSlots' \in SUBSET Slots
    BY <1>1 DEF FreeSlots
  <1>5. Cardinality(Slots) = NumElems
    <2>1. NumElems - 1 \in Int /\ ~(0 > NumElems - 1) /\ NumElems - 1 - 0 + 1 = NumElems
      BY PoolAssumption
    <2>2. QED
      BY <2>1, FS_Interval DEF Slots
  <1>6. Cardinality(FreeSlots') <= NumElems
    BY <1>4, <1>5, FreeSlotsFinite, FS_Subset
  <1>7. QED
    BY <1>3, <1>6, PoolAssumption DEF TypeOK

(* Every step preserves the invariant of the free list, provided T's       *)
(* constructor does not allocate from the pool.                            *)
LEMMA NextFreeInv ==
  ASSUME ~CtorAllocates, FreeInv, [Next]_poolVars
  PROVE  FreeInv'
  <1>0. TypeOK /\ FreeCountExact /\ NextSlotIsFree /\ CallsApart
    BY DEF FreeInv
  <1>1. CASE allocate_Begin
    <2>1. is_free_[next_free_index_] /\ next_free_index_ \in Slots
      BY <1>0, <1>1 DEF allocate_Begin, NextSlotIsFree, TypeOK
    <2>2. \A k \in DOMAIN frames : frames[k].op # "allocate"
      BY Zenon, <1>1 DEF allocate_Begin, MayAllocate, InProgress
    <2>3. \A k \in DOMAIN frames : frames[k].slot # next_free_index_
      BY <1>0, <2>1, <2>2 DEF CallsApart
    <2>4. CallsApart'
      BY <1>0, <1>1, <2>1, <2>3, CallStaysApart DEF allocate_Begin
    <2>5. TypeOK'
      BY <1>0, <1>1, <2>1, Called DEF allocate_Begin, TypeOK
    <2>6. QED
      BY <1>1, <2>4, <2>5, FreeListUnchanged DEF allocate_Begin
  <1>2. ASSUME NEW p \in Pointers, deallocate_Begin(p)
        PROVE  FreeInv'
    <2>1. p \in Slots /\ ~is_free_[p]
      BY <1>2 DEF deallocate_Begin, Reject
    <2>2. ASSUME NEW k \in DOMAIN frames
          PROVE  frames[k].slot # p
      <3>1. p \notin InProgress({"deallocate", "~MemPool"})
        BY Zenon, <1>2 DEF deallocate_Begin, MayDeallocate
      <3>2. CASE frames[k].op = "allocate"
        BY Zenon, <1>0, <2>1, <3>2 DEF CallsApart
      <3>3. CASE frames[k].op \in {"deallocate", "~MemPool"}
        BY Zenon, <3>1, <3>3 DEF InProgress
      <3>4. QED
        BY Zenon, <1>0, <3>2, <3>3, FrameSlots
    <2>3. CallsApart'
      BY <1>0, <1>2, <2>1, <2>2, CallStaysApart DEF deallocate_Begin
    <2>4. TypeOK'
      BY <1>0, <1>2, <2>1, Called DEF deallocate_Begin, TypeOK
    <2>5. QED
      BY <1>2, <2>3, <2>4, FreeListUnchanged DEF deallocate_Begin
  <1>3. ASSUME NEW s \in Slots, allocate_Finish(s)
        PROVE  FreeInv'
    <2>1. is_free_[s] /\ Resume("allocate", s)
      BY <1>0, <1>3, Resumed DEF allocate_Finish, CallsApart
    <2>2. is_free_' = [is_free_ EXCEPT ![s] = FALSE] /\ is_free_' \in [Slots -> BOOLEAN]
      BY <1>0, <1>3 DEF allocate_Finish, TypeOK
    <2>3. num_free_ \in 1 .. NumElems /\ Cardinality(FreeSlots') = num_free_ - 1
      BY Zenon, <1>0, <2>1, <2>2, CountAfterTake
    <2>4. num_free_' = num_free_ - 1
      <3>1. num_free_ - 1 \in 0 .. NumElems
        BY <2>3, PoolAssumption
      <3>2. QED
        BY <1>3, <3>1, NoWrap DEF allocate_Finish
    <2>5. FreeCountExact'
      BY <2>3, <2>4 DEF FreeCountExact, FreeSlots
    <2>6. next_free_index_' \in Slots
      BY Zenon, <1>0, <1>3, <2>2, NextFreeIsFree DEF allocate_Finish, TypeOK
    <2>7. NextSlotIsFree'
      <3>1. SUFFICES ASSUME num_free_' > 0
                     PROVE  is_free_'[next_free_index_']
        BY DEF NextSlotIsFree
      <3>2. FreeSlots' # {}
        BY <2>3, <2>4, <3>1, FS_EmptySet
      <3>3. \E t \in Slots : is_free_'[t]
        BY <3>2 DEF FreeSlots
      <3>4. QED
        BY Zenon, <1>0, <1>3, <2>2, <3>1, <3>3, NextFreeIsFree DEF allocate_Finish, TypeOK
    <2>8. CallsApart'
      BY Zenon, <1>0, <2>1, <2>2, ReturnStaysApart
    <2>9. TypeOK'
      BY <1>0, <1>3, <2>1, <2>2, <2>3, <2>4, <2>6, Resumed DEF allocate_Finish, TypeOK
    <2>10. QED
      BY <2>5, <2>7, <2>8, <2>9 DEF FreeInv
  <1>4. ASSUME NEW s \in Slots, deallocate_Finish(s)
        PROVE  FreeInv'
    <2>1. ~is_free_[s] /\ Resume("deallocate", s)
      BY <1>0, <1>4, Resumed DEF deallocate_Finish, CallsApart
    <2>2. is_free_' = [is_free_ EXCEPT ![s] = TRUE] /\ is_free_' \in [Slots -> BOOLEAN]
      BY <1>0, <1>4 DEF deallocate_Finish, TypeOK
    <2>3. num_free_ + 1 \in 0 .. NumElems /\ Cardinality(FreeSlots') = num_free_ + 1
      BY Zenon, <1>0, <2>1, <2>2, CountAfterRelease
    <2>4. num_free_' = num_free_ + 1
      BY <1>4, <2>3, NoWrap DEF deallocate_Finish
    <2>5. FreeCountExact'
      BY <2>3, <2>4 DEF FreeCountExact, FreeSlots
    <2>6. NextSlotIsFree'
      BY <1>0, <1>4, <2>2 DEF deallocate_Finish, NextSlotIsFree, TypeOK
    <2>7. CallsApart'
      BY Zenon, <1>0, <2>1, <2>2, ReturnStaysApart
    <2>8. TypeOK'
      BY <1>0, <1>4, <2>1, <2>2, <2>3, <2>4, Resumed DEF deallocate_Finish, TypeOK
    <2>9. QED
      BY <2>5, <2>6, <2>7, <2>8 DEF FreeInv
  <1>5. ASSUME NEW s \in Slots, allocate_Throw(s) \/ destroy_Next(s)
        PROVE  FreeInv'
    <2>1. PICK op \in {"allocate", "~MemPool"} : Resume(op, s)
      BY <1>5 DEF allocate_Throw, destroy_Next
    <2>2. UNCHANGED <<is_free_, next_free_index_, num_free_>>
      BY <1>5 DEF allocate_Throw, destroy_Next
    <2>3. CallsApart'
      BY <1>0, <2>1, <2>2, Resumed DEF CallsApart
    <2>4. sweep' \in Int /\ objects' \in [Slots -> Int]
      BY <1>0, <1>5 DEF allocate_Throw, destroy_Next, TypeOK
    <2>5. TypeOK'
      BY <1>0, <2>1, <2>2, <2>4, Resumed DEF TypeOK
    <2>6. QED
      BY <2>2, <2>3, <2>5, FreeListUnchanged
  <1>6. CASE destroy_Object
    <2>1. sweep \in Slots /\ ~is_free_[sweep] /\ frames = <<>> /\ Call("~MemPool", sweep)
      BY <1>6 DEF destroy_Object, HoldsObject
    <2>2. CallsApart'
      BY <1>0, <1>6, <2>1, CallStaysApart DEF destroy_Object
    <2>3. TypeOK'
      BY <1>0, <1>6, <2>1, Called DEF destroy_Object, TypeOK
    <2>4. QED
      BY <1>6, <2>2, <2>3, FreeListUnchanged DEF destroy_Object
  <1>7. CASE destroy_Begin \/ destroy_Skip
    <2>1. UNCHANGED <<is_free_, next_free_index_, num_free_, frames, objects>>
      BY <1>7 DEF destroy_Begin, destroy_Skip
    <2>2. sweep' \in Int
      BY <1>7, PoolAssumption DEF destroy_Begin, destroy_Skip, Slots
    <2>3. TypeOK' /\ CallsApart'
      BY <1>0, <2>1, <2>2 DEF TypeOK, CallsApart
    <2>4. QED
      BY <2>1, <2>3, FreeListUnchanged
  <1>8. CASE UNCHANGED poolVars
    BY <1>0, <1>8, FreeListUnchanged DEF poolVars, TypeOK, CallsApart
  <1>9. QED
    BY <1>1, <1>2, <1>3, <1>4, <1>5, <1>6, <1>7, <1>8
    DEF Next, allocate_Full, deallocate_Reject

(* The invariant of the free list holds of every behaviour. *)
LEMMA FreeInvariant ==
  ASSUME ~CtorAllocates
  PROVE  Spec => []FreeInv
  <1>1. Init => FreeInv
    BY InitFree
  <1>2. FreeInv /\ [Next]_poolVars => FreeInv'
    BY NextFreeInv
  <1>3. QED
    BY <1>1, <1>2, PTL DEF Spec

(* num_free_ counts the free slots, whatever T's destructor does with the  *)
(* pool and however its constructor fails, if the constructor does not     *)
(* allocate.                                                               *)
THEOREM FreeListCorrect ==
  ASSUME ~CtorAllocates
  PROVE  Spec => []FreeCountExact
  <1>1. FreeInv => FreeCountExact
    BY DEF FreeInv
  <1>2. QED
    BY <1>1, FreeInvariant, PTL

(* Under the same condition next_free_index_ designates a free slot as     *)
(* long as there is any: allocate() never hands out a slot in use.         *)
THEOREM NextSlotCorrect ==
  ASSUME ~CtorAllocates
  PROVE  Spec => []NextSlotIsFree
  <1>1. FreeInv => NextSlotIsFree
    BY DEF FreeInv
  <1>2. QED
    BY <1>1, FreeInvariant, PTL
-----------------------------------------------------------------------------
(* A call that begins adds its slot to those in progress. *)
LEMMA InProgressCalled ==
  ASSUME TypeOK, NEW op \in {"allocate", "deallocate", "~MemPool"}, NEW s \in Slots,
         Call(op, s), NEW ops
  PROVE  InProgress(ops)' = InProgress(ops) \cup (IF op \in ops THEN {s} ELSE {})
  <1> DEFINE n == Len(frames) + 1
  <1>1. /\ DOMAIN frames' = DOMAIN frames \cup {n}
        /\ frames'[n].op = op /\ frames'[n].slot = s
        /\ \A k \in DOMAIN frames : frames'[k] = frames[k]
    BY Zenon, Called
  <1> HIDE DEF n
  <1>2. QED
    BY <1>1 DEF InProgress

(* A call that returns takes its slot off those in progress. *)
LEMMA InProgressResumed ==
  ASSUME TypeOK, CallsApart, NEW op, NEW s \in Slots, Resume(op, s), NEW ops
  PROVE  /\ InProgress(ops)' = InProgress(ops) \ {s}
         /\ s \in InProgress(ops) <=> op \in ops
  <1> DEFINE n == Len(frames)
  <1>1. /\ n \in DOMAIN frames /\ frames[n].op = op /\ frames[n].slot = s
        /\ DOMAIN frames' = DOMAIN frames \ {n}
        /\ \A k \in DOMAIN frames' : frames'[k] = frames[k]
    BY Zenon, Resumed
  <1> HIDE DEF n
  <1>2. \A k \in DOMAIN frames : k # n => frames[k].slot # s
    BY <1>1 DEF CallsApart
  <1>3. QED
    BY <1>1, <1>2 DEF InProgress

(* A new pool holds no object. *)
LEMMA InitLifetimes == Init => ObjectLifetimes /\ SweepInv
  BY DEF Init, ObjectLifetimes, SweepInv, Alive, InProgress

(* Whether a sequence is empty, in terms of its domain. *)
LEMMA NoFrames ==
  ASSUME NEW F, NEW q \in Seq(F)
  PROVE  /\ q = <<>> <=> DOMAIN q = {}
         /\ q = <<>> <=> 1 \notin DOMAIN q
         /\ q # <<>> => Len(q) + 1 # 1
  OBVIOUS

(* A constructor that ~MemPool()'s sweep has brought about is not the      *)
(* outermost call.                                                         *)
LEMMA SweepReturn ==
  ASSUME FreeInv, SweepInv, NEW op \in {"allocate", "deallocate"}, NEW s \in Slots,
         Resume(op, s), sweep' = sweep
  PROVE  /\ Alive' <=> Alive
         /\ op = "deallocate" => Alive
         /\ Alive => \A k \in DOMAIN frames' : frames'[k].op # "~MemPool"
         /\ ~Alive => /\ frames # <<>> /\ frames' # <<>>
                      /\ \A k \in DOMAIN frames' :
                           IF k = 1 THEN frames'[k] = [op |-> "~MemPool", slot |-> sweep]
                           ELSE frames'[k].op = "allocate"
  <1> DEFINE n == Len(frames)
             F == [op : {"allocate", "deallocate", "~MemPool"}, slot : Slots]
  <1>1. /\ n \in DOMAIN frames /\ frames[n].op = op
        /\ frames' \in Seq(F) /\ frames \in Seq(F)
        /\ DOMAIN frames' = DOMAIN frames \ {n}
        /\ \A k \in DOMAIN frames' : frames'[k] = frames[k]
    BY Zenon, Resumed DEF FreeInv, TypeOK
  <1> HIDE DEF n, F
  <1>2. Alive' <=> Alive
    BY Zenon DEF Alive
  <1>3. Alive => \A k \in DOMAIN frames' : frames'[k].op # "~MemPool"
    BY Zenon, <1>1 DEF SweepInv
  <1>4. ASSUME ~Alive
        PROVE  /\ op # "deallocate" /\ frames # <<>> /\ frames' # <<>>
               /\ \A k \in DOMAIN frames' :
                    IF k = 1 THEN frames'[k] = [op |-> "~MemPool", slot |-> sweep]
                    ELSE frames'[k].op = "allocate"
    <2>1. n # 1
      <3>1. [op |-> "~MemPool", slot |-> sweep].op = "~MemPool"
        BY Zenon
      <3>2. QED
        BY Zenon, <1>1, <1>4, <3>1 DEF SweepInv
    <2>2. op = "allocate"
      BY Zenon, <1>1, <1>4, <2>1 DEF SweepInv
    <2>3. frames # <<>> /\ 1 \in DOMAIN frames
      BY Zenon, <1>1, NoFrames
    <2>4. frames' # <<>>
      BY Zenon, <1>1, <2>1, <2>3, NoFrames
    <2>5. QED
      BY Zenon, <1>1, <1>4, <2>2, <2>3, <2>4 DEF SweepInv
  <1>5. QED
    BY Zenon, <1>2, <1>3, <1>4

(* Every step preserves the objects' lifetimes, provided T's code does not *)
(* use the pool in the two ways that break them.                           *)
LEMMA NextLifetimes ==
  ASSUME ~CtorAllocates, ~SweptDtorDeallocates,
         FreeInv, ObjectLifetimes, SweepInv, [Next]_poolVars
  PROVE  ObjectLifetimes' /\ SweepInv'
  <1>0. TypeOK /\ CallsApart /\ NextSlotIsFree
    BY DEF FreeInv
  <1>1. CASE allocate_Begin
    <2>0. PICK n \in Slots : n = next_free_index_
      BY <1>0 DEF TypeOK
    <2>1. /\ is_free_[n] /\ Call("allocate", n) /\ (Alive' <=> Alive) /\ sweep' = sweep
          /\ Alive \/ frames # <<>>
      BY <1>0, <1>1, <2>0 DEF allocate_Begin, MayAllocate, NextSlotIsFree, TypeOK, Alive
    <2>2. InProgress({"allocate"}) = {}
      BY <1>1 DEF allocate_Begin, MayAllocate
    <2>3. /\ InProgress({"allocate"})' = {n}
          /\ InProgress({"deallocate"})' = InProgress({"deallocate"})
      <3>1. ASSUME NEW ops
            PROVE  InProgress(ops)' = InProgress(ops) \cup (IF "allocate" \in ops THEN {n} ELSE {})
        BY Zenon, <1>0, <2>1, InProgressCalled
      <3>2. /\ InProgress({"allocate"})' = InProgress({"allocate"}) \cup {n}
            /\ InProgress({"deallocate"})' = InProgress({"deallocate"}) \cup {}
        BY Zenon, <3>1
      <3>3. QED
        BY <2>2, <3>2
    <2>4. /\ objects' = [objects EXCEPT ![n] = @ + 1] /\ is_free_' = is_free_
          /\ late \subseteq late' /\ (n <= sweep => n \in late')
      BY <1>1, <2>0 DEF allocate_Begin
    <2>5. objects[n] = 0
      BY Zenon, <2>1, <2>2 DEF ObjectLifetimes, SweepInv
    <2>6. objects'[n] = 1 /\ \A s \in Slots : s # n => objects'[s] = objects[s]
      BY <1>0, <2>4, <2>5 DEF TypeOK
    <2>7. ObjectLifetimes'
      BY ZenonT(30), <2>1, <2>2, <2>3, <2>4, <2>6 DEF ObjectLifetimes
    <2>8. SweepInv'
      <3> DEFINE m == Len(frames) + 1
                 F == [op : {"allocate", "deallocate", "~MemPool"}, slot : Slots]
      <3>1. /\ frames \in Seq(F) /\ frames' \in Seq(F)
            /\ DOMAIN frames' = DOMAIN frames \cup {m} /\ frames'[m].op = "allocate"
            /\ \A k \in DOMAIN frames : frames'[k] = frames[k]
        BY Zenon, <1>0, <2>1, Called DEF TypeOK
      <3>2. frames # <<>> => m # 1
        BY Zenon, <3>1, NoFrames
      <3> HIDE DEF m, F
      <3>3. frames' # <<>>
        BY Zenon, <3>1, NoFrames
      <3>4. CASE Alive
        BY Zenon, <2>1, <3>1, <3>4 DEF SweepInv
      <3>5. CASE ~Alive
        <4>1. ASSUME NEW k \in DOMAIN frames'
              PROVE  IF k = 1 THEN frames'[k] = [op |-> "~MemPool", slot |-> sweep']
                     ELSE frames'[k].op = "allocate"
          BY ZenonT(30), <2>1, <3>1, <3>2, <3>5 DEF SweepInv
        <4>2. \A s \in Slots : ToSweep(s)' <=> ToSweep(s)
          BY Zenon, <2>1, <2>4, <3>3, <3>5 DEF ToSweep
        <4>3. ASSUME NEW s \in Slots
              PROVE  /\ ToSweep(s)' \/ s \in InProgress({"allocate"})' => objects'[s] = 1
                     /\ is_free_'[s] /\ s \notin InProgress({"allocate"})' => objects'[s] = 0
          BY ZenonT(30), <2>1, <2>2, <2>3, <2>4, <2>6, <3>5, <4>2 DEF SweepInv
        <4>4. ASSUME NEW s \in Slots, objects'[s] = 1
              PROVE  ToSweep(s)' \/ s \in late' \/ (s \in InProgress({"allocate"})' /\ s > sweep')
          <5>1. n > sweep \/ n \in late'
            BY <1>0, <2>4 DEF TypeOK, Slots
          <5>2. CASE s = n
            BY Zenon, <2>1, <2>3, <5>1, <5>2
          <5>3. CASE s # n
            BY ZenonT(30), <2>2, <2>4, <2>6, <3>5, <4>2, <4>4, <5>3 DEF SweepInv
          <5>4. QED
            BY Zenon, <5>2, <5>3
        <4>5. QED
          BY Zenon, <2>1, <3>5, <4>1, <4>3, <4>4 DEF SweepInv
      <3>6. QED
        BY Zenon, <3>4, <3>5
    <2>9. QED
      BY <2>7, <2>8
  <1>2. ASSUME NEW p \in Pointers, deallocate_Begin(p)
        PROVE  ObjectLifetimes' /\ SweepInv'
    <2>1. p \in Slots /\ ~is_free_[p] /\ Alive /\ Alive' /\ Call("deallocate", p)
      BY <1>2 DEF deallocate_Begin, Reject, MayDeallocate, Alive
    <2>2. p \notin InProgress({"deallocate"})
      BY <1>2 DEF deallocate_Begin, MayDeallocate, InProgress
    <2>3. /\ InProgress({"deallocate"})' = InProgress({"deallocate"}) \cup {p}
          /\ InProgress({"allocate"})' = InProgress({"allocate"})
      <3>1. ASSUME NEW ops
            PROVE  InProgress(ops)' = InProgress(ops) \cup (IF "deallocate" \in ops THEN {p} ELSE {})
        BY Zenon, <1>0, <2>1, InProgressCalled
      <3>2. /\ InProgress({"deallocate"})' = InProgress({"deallocate"}) \cup {p}
            /\ InProgress({"allocate"})' = InProgress({"allocate"}) \cup {}
        BY Zenon, <3>1
      <3>3. QED
        BY <3>2
    <2>4. objects' = [objects EXCEPT ![p] = @ - 1] /\ is_free_' = is_free_
      BY <1>2 DEF deallocate_Begin
    <2>5. objects[p] = 1 /\ p \notin InProgress({"allocate"})
      BY <1>0, <2>1, <2>2 DEF ObjectLifetimes, CallsApart, InProgress
    <2>6. ObjectLifetimes'
      BY <1>0, <2>1, <2>2, <2>3, <2>4, <2>5 DEF ObjectLifetimes, TypeOK
    <2>7. SweepInv'
      BY <1>0, <2>1, Called DEF SweepInv
    <2>8. QED
      BY <2>6, <2>7
  <1>3. ASSUME NEW s \in Slots, allocate_Finish(s) \/ allocate_Throw(s)
        PROVE  ObjectLifetimes' /\ SweepInv'
    <2>1. Resume("allocate", s) /\ sweep' = sweep
      BY Zenon, <1>3 DEF allocate_Finish, allocate_Throw
    <2>2. /\ Alive' <=> Alive
          /\ Alive => \A k \in DOMAIN frames' : frames'[k].op # "~MemPool"
          /\ ~Alive => /\ frames # <<>> /\ frames' # <<>>
                       /\ \A k \in DOMAIN frames' :
                            IF k = 1 THEN frames'[k] = [op |-> "~MemPool", slot |-> sweep]
                            ELSE frames'[k].op = "allocate"
      BY Zenon, <2>1, SweepReturn
    <2>3. /\ InProgress({"allocate"})' = InProgress({"allocate"}) \ {s}
          /\ InProgress({"deallocate"})' = InProgress({"deallocate"}) \ {s}
          /\ s \in InProgress({"allocate"})
      BY <1>0, <2>1, InProgressResumed
    <2>4. is_free_[s] /\ objects[s] = 1
      <3>1. PICK k \in DOMAIN frames : frames[k].op = "allocate" /\ frames[k].slot = s
        BY Zenon, <1>0, <2>1, Resumed
      <3>2. is_free_[s]
        BY Zenon, <1>0, <3>1 DEF CallsApart
      <3>3. QED
        BY Zenon, <2>3, <3>2 DEF ObjectLifetimes, SweepInv
    <2>5. \/ ~is_free_'[s] /\ objects'[s] = 1
          \/ is_free_'[s] /\ objects'[s] = 0
      BY <1>0, <1>3, <2>4 DEF allocate_Finish, allocate_Throw, TypeOK
    <2>6. \A t \in Slots : t # s => is_free_'[t] = is_free_[t] /\ objects'[t] = objects[t]
      BY Zenon, <1>0, <1>3 DEF allocate_Finish, allocate_Throw, TypeOK
    <2>7. s \notin InProgress({"deallocate"})'
      BY Zenon, <2>3
    <2>8. ObjectLifetimes'
      <3>1. ASSUME NEW t \in Slots
            PROVE  /\ objects'[t] \in {0, 1}
                   /\ Alive' => (objects'[t] = 1 <=>
                        \/ t \in InProgress({"allocate"})'
                        \/ ~is_free_'[t] /\ t \notin InProgress({"deallocate"})')
        <4>1. CASE t = s
          <5>1. t \notin InProgress({"allocate"})'
            BY Zenon, <2>3, <4>1
          <5>2. QED
            BY <2>5, <2>7, <4>1, <5>1
        <4>2. CASE t # s
          BY ZenonT(30), <2>2, <2>3, <2>6, <4>2 DEF ObjectLifetimes
        <4>3. QED
          BY Zenon, <4>1, <4>2
      <3>2. QED
        BY Zenon, <3>1 DEF ObjectLifetimes
    <2>9. SweepInv'
      <3>1. ASSUME ~Alive, NEW t \in Slots
            PROVE  /\ ToSweep(t)' \/ t \in InProgress({"allocate"})' => objects'[t] = 1
                   /\ is_free_'[t] /\ t \notin InProgress({"allocate"})' => objects'[t] = 0
        <4>1. CASE t = s
          BY Zenon, <2>3, <2>5, <4>1 DEF ToSweep
        <4>2. CASE t # s
          <5>1. ToSweep(t)' <=> ToSweep(t)
            BY Zenon, <2>1, <2>2, <2>6, <3>1, <4>2 DEF ToSweep
          <5>2. QED
            BY ZenonT(30), <2>3, <2>6, <3>1, <4>2, <5>1 DEF SweepInv
        <4>3. QED
          BY Zenon, <4>1, <4>2
      <3>2. ASSUME ~Alive, NEW t \in Slots, objects'[t] = 1
            PROVE  ToSweep(t)' \/ t \in late' \/ (t \in InProgress({"allocate"})' /\ t > sweep')
        <4>1. late' = late
          BY Zenon, <1>3 DEF allocate_Finish, allocate_Throw
        <4>2. CASE t = s
          <5>1. ~is_free_'[s]
            <6>1. 0 # 1
              OBVIOUS
            <6>2. QED
              BY Zenon, <2>5, <3>2, <4>2, <6>1
          <5>2. s \in late \/ s > sweep
            BY Zenon, <2>4, <3>2 DEF SweepInv, ToSweep
          <5>3. QED
            BY Zenon, <2>1, <4>1, <4>2, <5>1, <5>2 DEF ToSweep
        <4>3. CASE t # s
          <5>1. ToSweep(t)' <=> ToSweep(t)
            BY Zenon, <2>1, <2>2, <2>6, <3>2, <4>3 DEF ToSweep
          <5>2. QED
            BY ZenonT(30), <2>1, <2>3, <2>6, <3>2, <4>1, <4>3, <5>1 DEF SweepInv
        <4>4. QED
          BY Zenon, <4>2, <4>3
      <3>3. QED
        BY ZenonT(30), <2>1, <2>2, <3>1, <3>2 DEF SweepInv
    <2>10. QED
      BY <2>8, <2>9
  <1>4. ASSUME NEW s \in Slots, deallocate_Finish(s)
        PROVE  ObjectLifetimes' /\ SweepInv'
    <2>1. /\ Resume("deallocate", s) /\ objects' = objects /\ sweep' = sweep
          /\ is_free_' = [is_free_ EXCEPT ![s] = TRUE]
      BY <1>4 DEF deallocate_Finish
    <2>2. Alive /\ Alive' /\ SweepInv'
      BY Zenon, <2>1, SweepReturn DEF SweepInv
    <2>3. /\ InProgress({"allocate"})' = InProgress({"allocate"}) \ {s}
          /\ InProgress({"deallocate"})' = InProgress({"deallocate"}) \ {s}
          /\ s \in InProgress({"deallocate"}) /\ s \notin InProgress({"allocate"})
      BY <1>0, <2>1, InProgressResumed
    <2>4. ObjectLifetimes'
      BY <1>0, <2>1, <2>2, <2>3 DEF ObjectLifetimes, TypeOK
    <2>5. QED
      BY <2>2, <2>4
  <1>5. CASE destroy_Begin
    <2>1. /\ Alive /\ frames = <<>> /\ sweep' = 0
          /\ UNCHANGED <<is_free_, frames, objects>>
      BY <1>5 DEF destroy_Begin
    <2>2. ~Alive' /\ InProgress({"allocate"})' = {} /\ DOMAIN frames' = {}
      BY <2>1 DEF Alive, InProgress
    <2>3. \A s \in Slots : objects[s] = IF ~is_free_[s] THEN 1 ELSE 0
      BY <2>1 DEF ObjectLifetimes, InProgress
    <2>4. ObjectLifetimes'
      BY <2>1, <2>2 DEF ObjectLifetimes
    <2>5. \A s \in Slots : ToSweep(s)' <=> ~is_free_[s]
      BY <2>1, PoolAssumption DEF ToSweep, Slots
    <2>6. SweepInv'
      <3>1. 0 # 1
        OBVIOUS
      <3>2. QED
        BY ZenonT(30), <2>1, <2>2, <2>3, <2>5, <3>1 DEF SweepInv
    <2>7. QED
      BY <2>4, <2>6
  <1>6. CASE destroy_Skip
    <2>1. /\ sweep \in Slots /\ frames = <<>> /\ is_free_[sweep] /\ sweep' = sweep + 1
          /\ UNCHANGED <<is_free_, frames, objects, late>>
      BY <1>6 DEF destroy_Skip, HoldsObject
    <2>2. ~Alive /\ ~Alive' /\ DOMAIN frames' = {}
      BY <2>1, PoolAssumption DEF Alive, Slots
    <2>3. ObjectLifetimes'
      BY <2>1, <2>2 DEF ObjectLifetimes
    <2>4. \A s \in Slots : ToSweep(s)' <=> ToSweep(s)
      BY <2>1, PoolAssumption DEF ToSweep, Slots
    <2>5. InProgress({"allocate"})' = {} /\ InProgress({"allocate"}) = {}
      BY <2>1 DEF InProgress
    <2>6. SweepInv'
      BY ZenonT(30), <2>1, <2>2, <2>4, <2>5 DEF SweepInv
    <2>7. QED
      BY <2>3, <2>6
  <1>7. CASE destroy_Object
    <2>1. /\ sweep \in Slots /\ frames = <<>> /\ ~is_free_[sweep]
          /\ objects' = [objects EXCEPT ![sweep] = @ - 1]
          /\ UNCHANGED <<is_free_, sweep, late>>
      BY <1>7 DEF destroy_Object, HoldsObject
    <2>2. ~Alive /\ ~Alive'
      BY <2>1, PoolAssumption DEF Alive, Slots
    <2>3. objects[sweep] = 1
      BY Zenon, <2>1, <2>2 DEF SweepInv, ToSweep
    <2>4. /\ frames' = <<[op |-> "~MemPool", slot |-> sweep]>> /\ frames' # <<>>
          /\ DOMAIN frames' = {1} /\ frames'[1] = [op |-> "~MemPool", slot |-> sweep]
      BY <1>7, <2>1 DEF destroy_Object, Call
    <2>5. objects'[sweep] = 0 /\ \A s \in Slots : s # sweep => objects'[s] = objects[s]
      BY <1>0, <2>1, <2>3 DEF TypeOK
    <2>6. ObjectLifetimes'
      BY ZenonT(30), <2>1, <2>2, <2>5 DEF ObjectLifetimes
    <2>7. InProgress({"allocate"}) = {} /\ InProgress({"allocate"})' = {}
      <3>1. [op |-> "~MemPool", slot |-> sweep].op # "allocate"
        OBVIOUS
      <3>2. InProgress({"allocate"})' = {}
        BY Zenon, <2>4, <3>1 DEF InProgress
      <3>3. InProgress({"allocate"}) = {}
        BY <2>1 DEF InProgress
      <3>4. QED
        BY Zenon, <3>2, <3>3
    <2>8. ~ToSweep(sweep)' /\ \A s \in Slots : s # sweep => (ToSweep(s)' <=> ToSweep(s))
      <3>1. ~(sweep > sweep)
        BY <2>1, PoolAssumption DEF Slots
      <3>2. QED
        BY Zenon, <2>1, <2>4, <3>1 DEF ToSweep
    <2>9. SweepInv'
      <3>1. ASSUME NEW s \in Slots
            PROVE  /\ ToSweep(s)' => objects'[s] = 1
                   /\ is_free_'[s] => objects'[s] = 0
        BY ZenonT(30), <2>1, <2>2, <2>5, <2>7, <2>8 DEF SweepInv
      <3>2. ASSUME NEW s \in Slots, objects'[s] = 1
            PROVE  ToSweep(s)' \/ s \in late'
        <4>1. s # sweep
          BY <2>5, <3>2
        <4>2. QED
          BY ZenonT(30), <2>1, <2>2, <2>5, <2>7, <2>8, <3>2, <4>1 DEF SweepInv
      <3>3. QED
        BY ZenonT(30), <2>1, <2>2, <2>4, <2>7, <3>1, <3>2 DEF SweepInv
    <2>10. QED
      BY <2>6, <2>9
  <1>8. ASSUME NEW s \in Slots, destroy_Next(s)
         PROVE  ObjectLifetimes' /\ SweepInv'
    <2>1. /\ Resume("~MemPool", s) /\ sweep' = sweep + 1
          /\ UNCHANGED <<is_free_, objects, late>>
      BY <1>8 DEF destroy_Next
    <2> DEFINE n == Len(frames)
               F == [op : {"allocate", "deallocate", "~MemPool"}, slot : Slots]
    <2>2. /\ n \in DOMAIN frames /\ frames[n].op = "~MemPool" /\ frames[n].slot = s
          /\ frames \in Seq(F) /\ frames' \in Seq(F) /\ DOMAIN frames' = DOMAIN frames \ {n}
      BY Zenon, <1>0, <2>1, Resumed DEF TypeOK
    <2>3. ~Alive
      BY Zenon, <2>2 DEF SweepInv
    <2>4. n = 1
      BY Zenon, <2>2, <2>3 DEF SweepInv
    <2>5. frames' = <<>> /\ DOMAIN frames' = {} /\ frames # <<>>
      <3>1. DOMAIN frames = 1 .. n
        BY <2>2
      <3>2. DOMAIN frames' = {}
        BY <2>2, <2>4, <3>1
      <3>3. QED
        BY Zenon, <2>2, <3>2, NoFrames
    <2> HIDE DEF n, F
    <2>6. sweep = s
      <3>1. [op |-> "~MemPool", slot |-> sweep].slot = sweep
        BY Zenon
      <3>2. QED
        BY Zenon, <2>2, <2>3, <2>4, <3>1 DEF SweepInv
    <2>7. ~Alive'
      BY <2>1, <2>6, PoolAssumption DEF Alive, Slots
    <2>8. ObjectLifetimes'
      BY Zenon, <2>1, <2>7 DEF ObjectLifetimes
    <2>9. \A t \in Slots : ToSweep(t)' <=> ToSweep(t)
      BY <2>1, <2>5, <2>6, PoolAssumption DEF ToSweep, Slots
    <2>10. InProgress({"allocate"}) = {} /\ InProgress({"allocate"})' = {}
      <3>1. \A k \in DOMAIN frames : frames[k].op # "allocate"
        <4>1. \A k \in DOMAIN frames : k = n
          BY Zenon, <2>2, <2>5
        <4>2. QED
          BY Zenon, <2>2, <4>1
      <3>2. QED
        BY Zenon, <2>5, <3>1 DEF InProgress
    <2>11. SweepInv'
      BY ZenonT(30), <2>1, <2>3, <2>5, <2>7, <2>9, <2>10 DEF SweepInv
    <2>12. QED
      BY <2>8, <2>11
  <1>9. CASE UNCHANGED poolVars
    BY <1>9 DEF poolVars, ObjectLifetimes, SweepInv, ToSweep, Alive, InProgress
  <1>10. QED
    BY ZenonT(30), <1>1, <1>2, <1>3, <1>4, <1>5, <1>6, <1>7, <1>8, <1>9
    DEF Next, allocate_Full, deallocate_Reject

(* The invariant of the objects holds of every behaviour. *)
LEMMA LifetimesInvariant ==
  ASSUME ~CtorAllocates, ~SweptDtorDeallocates
  PROVE  Spec => [](FreeInv /\ ObjectLifetimes /\ SweepInv)
  <1> DEFINE Inv == FreeInv /\ ObjectLifetimes /\ SweepInv
  <1>1. Init => Inv
    BY InitFree, InitLifetimes
  <1>2. Inv /\ [Next]_poolVars => Inv'
    BY NextFreeInv, NextLifetimes
  <1> HIDE DEF Inv
  <1>3. Spec => []Inv
    BY <1>1, <1>2, PTL DEF Spec
  <1>4. QED
    BY <1>3 DEF Inv

(* No slot ever holds two objects and no object is destroyed twice, if T's *)
(* constructor does not allocate from the pool and T's destructor releases *)
(* nothing while ~MemPool() runs it.                                       *)
THEOREM LifetimesCorrect ==
  ASSUME ~CtorAllocates, ~SweptDtorDeallocates
  PROVE  Spec => []ObjectLifetimes
  BY LifetimesInvariant, PTL

(* In the same uses no object is left when ~MemPool() is done, but for     *)
(* those that the destructors it ran allocated behind it.                  *)
THEOREM SweepCorrect ==
  ASSUME ~CtorAllocates, ~SweptDtorDeallocates
  PROVE  Spec => []NoObjectOutlivesPool
  <1>1. FreeInv /\ ObjectLifetimes /\ SweepInv => NoObjectOutlivesPool
    <2>1. SUFFICES ASSUME ObjectLifetimes, SweepInv, sweep = NumElems,
                          NEW s \in Slots, s \notin late
                   PROVE  objects[s] = 0
      BY DEF NoObjectOutlivesPool
    <2>2. ~Alive /\ ~ToSweep(s) /\ ~(s > sweep)
      BY <2>1, PoolAssumption DEF Alive, Slots, ToSweep
    <2>3. objects[s] # 1
      BY Zenon, <2>1, <2>2 DEF SweepInv
    <2>4. QED
      BY <2>1, <2>3 DEF ObjectLifetimes
  <1>2. QED
    BY <1>1, LifetimesInvariant, PTL
=============================================================================
