------------------------------- MODULE MemPool -------------------------------
(***************************************************************************)
(* MemPool<T> (include/mem_pool.hpp), used by one thread.                  *)
(*                                                                         *)
(* allocate() runs T's constructor, deallocate() and ~MemPool() run its    *)
(* destructor in the middle of their own work, and these are code of the   *)
(* application: a constructor may throw, and both may call the pool again. *)
(* `frames' is the stack of pool calls waiting for one of them to finish.  *)
(***************************************************************************)
EXTENDS Integers, Sequences, FiniteSets

CONSTANTS NumElems,       \* the constructor's num_elems
          SizeModulus,    \* std::size_t arithmetic is modulo this
          MaxDepth,       \* bound on the nesting of pool calls
          CtorAllocates,  \* T's constructor may call allocate() on its own pool
          SweptDtorDeallocates  \* so may T's destructor deallocate() when ~MemPool() runs it

(* The constructor asserts num_elems > 0. *)
ASSUME PoolAssumption ==
  /\ NumElems \in Nat \ {0} /\ SizeModulus \in Nat /\ NumElems < SizeModulus
  /\ MaxDepth \in Nat \ {0}
  /\ CtorAllocates \in BOOLEAN /\ SweptDtorDeallocates \in BOOLEAN

VARIABLES is_free_,          \* ObjectBlock::is_free_ of every slot
          next_free_index_,
          num_free_,
          frames,            \* calls running T's code, innermost last
          sweep,             \* slot ~MemPool() looks at next; -1 before it is called
          objects,           \* history: constructions minus destructions begun in a slot
          late               \* history: slots allocated after ~MemPool() has passed them

poolVars == <<is_free_, next_free_index_, num_free_, frames, sweep, objects, late>>

Slots == 0 .. NumElems - 1

(* What deallocate() can be called with: a slot, nullptr, another address. *)
Pointers == Slots \cup {-1, NumElems}

Init ==
  /\ is_free_ = [s \in Slots |-> TRUE]
  /\ next_free_index_ = 0
  /\ num_free_ = NumElems
  /\ frames = <<>>
  /\ sweep = -1
  /\ objects = [s \in Slots |-> 0]
  /\ late = {}

Alive == sweep = -1

(* The slots that calls of the operations ops in progress work on. *)
InProgress(ops) == {frames[i].slot : i \in {j \in DOMAIN frames : frames[j].op \in ops}}

Call(op, s) == frames' = Append(frames, [op |-> op, slot |-> s])

(* T's code, run by a call of op for slot s, is done. *)
Resume(op, s) ==
  /\ frames # <<>>
  /\ frames[Len(frames)] = [op |-> op, slot |-> s]
  /\ frames' = SubSeq(frames, 1, Len(frames) - 1)
-----------------------------------------------------------------------------
BugNextFreeIndex(start, free) == (start + 1) % NumElems

(* Where updateNextFreeIndex() stops: at the first free slot after start   *)
(* on the way round, start itself coming last; at start if none is free    *)
(* (the assertion at its end).                                             *)
updateNextFreeIndex(start, free) ==
  LET Distance(s) == IF s > start THEN s - start ELSE s - start + NumElems
      candidates == {s \in Slots : free[s]}
  IN  IF candidates = {} THEN start
      ELSE CHOOSE s \in candidates : \A t \in candidates : Distance(s) <= Distance(t)

(* Who calls allocate(): the application or T's code, but T's constructor  *)
(* only if CtorAllocates, and once ~MemPool() has begun only a destructor  *)
(* that it runs.                                                           *)
MayAllocate ==
  /\ Alive \/ frames # <<>>
  /\ Len(frames) < MaxDepth
  /\ CtorAllocates \/ InProgress({"allocate"}) = {}

(* allocate() up to the call of T's constructor. *)
allocate_Begin ==
  /\ MayAllocate
  /\ num_free_ # 0
  /\ Call("allocate", next_free_index_)
  /\ objects' = [objects EXCEPT ![next_free_index_] = @ + 1]
  /\ late' = IF next_free_index_ <= sweep THEN late \cup {next_free_index_} ELSE late
  /\ UNCHANGED <<is_free_, next_free_index_, num_free_, sweep>>

(* allocate() on a full pool returns nullptr. *)
allocate_Full ==
  /\ MayAllocate
  /\ num_free_ = 0
  /\ UNCHANGED poolVars

(* T's constructor returned: the rest of allocate(). *)
allocate_Finish(s) ==
  /\ Resume("allocate", s)
  /\ is_free_' = [is_free_ EXCEPT ![s] = FALSE]
  /\ num_free_' = (num_free_ - 1) % SizeModulus
  /\ next_free_index_' = IF num_free_' > 0
                         THEN updateNextFreeIndex(next_free_index_, is_free_')
                         ELSE next_free_index_
  /\ UNCHANGED <<sweep, objects, late>>

(* T's constructor threw; no member of the pool has been written yet. *)
allocate_Throw(s) ==
  /\ Resume("allocate", s)
  /\ objects' = [objects EXCEPT ![s] = @ - 1]
  /\ UNCHANGED <<is_free_, next_free_index_, num_free_, sweep, late>>
-----------------------------------------------------------------------------
BugReject(p) == p \notin Slots

(* nullptr, a foreign pointer, or a slot already freed. *)
Reject(p) == p \in Slots => is_free_[p]

(* Who calls deallocate(p): the application or T's code, never for an      *)
(* object that is being destroyed already, and once ~MemPool() has begun   *)
(* only a destructor that it runs, if SweptDtorDeallocates.                *)
MayDeallocate(p) ==
  /\ p \notin InProgress({"deallocate", "~MemPool"})
  /\ Len(frames) < MaxDepth
  /\ Alive \/ (SweptDtorDeallocates /\ frames # <<>>)

deallocate_Reject(p) ==
  /\ MayDeallocate(p)
  /\ Reject(p)
  /\ UNCHANGED poolVars

(* deallocate() up to the call of T's destructor. *)
deallocate_Begin(p) ==
  /\ MayDeallocate(p)
  /\ ~Reject(p)
  /\ Call("deallocate", p)
  /\ objects' = [objects EXCEPT ![p] = @ - 1]
  /\ UNCHANGED <<is_free_, next_free_index_, num_free_, sweep, late>>

(* T's destructor returned: the rest of deallocate(). *)
deallocate_Finish(s) ==
  /\ Resume("deallocate", s)
  /\ is_free_' = [is_free_ EXCEPT ![s] = TRUE]
  /\ num_free_' = (num_free_ + 1) % SizeModulus
  /\ next_free_index_' = s
  /\ UNCHANGED <<sweep, objects, late>>
-----------------------------------------------------------------------------
(* ~MemPool(), called when no other call is in progress. *)
destroy_Begin ==
  /\ Alive
  /\ frames = <<>>
  /\ sweep' = 0
  /\ UNCHANGED <<is_free_, next_free_index_, num_free_, frames, objects, late>>

BugHoldsObject(s) == ~is_free_[s] /\ s # next_free_index_

(* The destructor's test for a slot that contains a T. *)
HoldsObject(s) == ~is_free_[s]

destroy_Skip ==
  /\ sweep \in Slots /\ frames = <<>>
  /\ ~HoldsObject(sweep)
  /\ sweep' = sweep + 1
  /\ UNCHANGED <<is_free_, next_free_index_, num_free_, frames, objects, late>>

(* T's destructor is called ... *)
destroy_Object ==
  /\ sweep \in Slots /\ frames = <<>>
  /\ HoldsObject(sweep)
  /\ Call("~MemPool", sweep)
  /\ objects' = [objects EXCEPT ![sweep] = @ - 1]
  /\ UNCHANGED <<is_free_, next_free_index_, num_free_, sweep, late>>

(* ... and returns; the block's members are left alone. *)
destroy_Next(s) ==
  /\ Resume("~MemPool", s)
  /\ sweep' = sweep + 1
  /\ UNCHANGED <<is_free_, next_free_index_, num_free_, objects, late>>
-----------------------------------------------------------------------------
Next ==
  \/ allocate_Begin \/ allocate_Full
  \/ \E p \in Pointers : deallocate_Reject(p) \/ deallocate_Begin(p)
  \/ destroy_Begin \/ destroy_Skip \/ destroy_Object
  \/ \E s \in Slots :
       allocate_Finish(s) \/ allocate_Throw(s) \/ deallocate_Finish(s) \/ destroy_Next(s)

Spec == Init /\ [][Next]_poolVars
-----------------------------------------------------------------------------
(* num_free_ is the number of free slots, whatever calls are in progress,  *)
(* and never wraps: allocate() can trust it to detect a full pool, and     *)
(* updateNextFreeIndex() never runs into its assertion.                    *)
FreeCountExact == num_free_ = Cardinality({s \in Slots : is_free_[s]})

(* As long as a slot is free, next_free_index_ designates one: the         *)
(* assertion in allocate() holds.                                          *)
NextSlotIsFree == num_free_ > 0 => is_free_[next_free_index_]

(* A slot never holds two objects and no object is destroyed twice, and    *)
(* is_free_ together with the calls in progress tells which slots hold one.*)
ObjectLifetimes ==
  \A s \in Slots :
    /\ objects[s] \in {0, 1}
    /\ Alive => (objects[s] = 1 <=>
         \/ s \in InProgress({"allocate"})
         \/ ~is_free_[s] /\ s \notin InProgress({"deallocate"}))

(* "Clean up objects that the caller forgot to deallocate": when           *)
(* ~MemPool() is done, every object has been destroyed, except those that  *)
(* the destructors it ran have allocated in slots it had passed.           *)
NoObjectOutlivesPool == sweep = NumElems => \A s \in Slots \ late : objects[s] = 0
=============================================================================
