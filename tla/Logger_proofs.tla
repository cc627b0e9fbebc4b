---------------------------- MODULE Logger_proofs ----------------------------
(***************************************************************************)
(* Proofs about Logger for every size of the queue, every set of elements  *)
(* and every number of elements logged.                                    *)
(*                                                                         *)
(* What is proved of the queue and of the start of the thread is taken     *)
(* over by instantiating their proof module.                               *)
(***************************************************************************)
EXTENDS Logger, TLAPS

Parts == INSTANCE LoggerParts_proofs WITH CoreIds <- {-1}, CPU_SETSIZE <- 1

(* The application thread's life and the background thread's, and how far  *)
(* one can be while the other is where it is.                              *)
Phases ==
  /\ app \in {"open", "start", "threw", "ready", "drain", "stop", "join", "close", "done"}
  /\ running_ \in BOOLEAN
  /\ file_ \in [open : BOOLEAN, good : BOOLEAN]
  /\ app = "open" => caller = "start"
  /\ app = "start" => caller \notin {"returned", "threw"} /\ file_.open
  /\ app = "threw" => caller \in {"start", "threw"}
  /\ app \in {"ready", "drain", "stop", "join", "close", "done"} => caller = "returned"
  /\ ~failed /\ child \notin {"store_failed", "returning"}
  /\ child # "unborn" /\ app # "done" => file_.open
  /\ child = "ended" => ~running_
  /\ app \in {"close", "done"} => child = "ended"
  /\ ~running_ => app \in {"join", "close", "done"}
  /\ app # "ready" => producer.pc = "idle"
  /\ app \in {"stop", "join", "close", "done"} => num_elements_ = 0

(* What the background thread released, and what the stream accepted, is   *)
(* the beginning of what was logged; until the stream fails, it is ahead   *)
(* of the releases by the element in the thread's hands only.              *)
Prefixes ==
  /\ written \in Seq(Values)
  /\ Len(written) <= Len(sent)
  /\ \A i \in 1 .. Len(received) : received[i] = sent[i]
  /\ \A i \in 1 .. Len(written) : written[i] = sent[i]
  /\ file_.good => Len(written) = IF consumer.pc \in {"release", "uncount"}
                                  THEN Len(received) + 1
                                  ELSE Len(received)

(* The inductive invariant. *)
IInv == Parts!IInv /\ Parts!FlagsTellProgress /\ Phases /\ Prefixes
-----------------------------------------------------------------------------
(* The queue keeps its invariant through the steps the logger makes of it. *)
LEMMA QueueKept ==
  ASSUME Parts!IInv, Queue!Produce \/ Queue!Consume \/ UNCHANGED queueVars
  PROVE  Parts!IInv'
  <1>1. Queue!Produce => Parts!Next
    BY Zenon DEF Queue!Produce, Parts!Next, Parts!Produce,
      Queue!getNextToWriteTo, Parts!getNextToWriteTo, Queue!BeginFill, Parts!BeginFill,
      Queue!EndFill, Parts!EndFill, Queue!updateWriteIndex_Advance,
      Parts!updateWriteIndex_Advance, Queue!updateWriteIndex_Count,
      Parts!updateWriteIndex_Count, Queue!Advance, Parts!Advance, Queue!Full, Parts!Full
  <1>2. Queue!Consume => Parts!Next
    BY DEF Queue!Consume, Parts!Next, Parts!Consume,
      Queue!getNextToRead, Parts!getNextToRead, Queue!Use, Parts!Use,
      Queue!updateReadIndex_Advance, Parts!updateReadIndex_Advance,
      Queue!updateReadIndex_Uncount, Parts!updateReadIndex_Uncount,
      Queue!Advance, Parts!Advance, Queue!Empty, Parts!Empty
  <1>3. UNCHANGED queueVars => UNCHANGED Parts!queueVars
    BY DEF queueVars, Parts!queueVars
  <1>4. [Parts!Next]_(Parts!queueVars)
    BY <1>1, <1>2, <1>3
  <1>5. NumElems \in Nat \ {0} /\ MaxItems \in Nat /\ Torn \notin Values
    BY LoggerAssumption
  <1>6. QED
    BY <1>4, <1>5, Parts!NextIInv

(* So do the two flags of createAndStartThread(). *)
LEMMA ThreadKept ==
  ASSUME Parts!FlagsTellProgress,
         Thread!Caller \/ Thread!ChildSetup \/ Thread!TaskReturns \/ UNCHANGED threadVars
  PROVE  Parts!FlagsTellProgress'
  <1>1. Thread!Caller => Parts!ThreadNext
    BY DEF Thread!Caller, Parts!ThreadNext, Parts!Caller,
      Thread!StartThread, Parts!StartThread, Thread!LoadRunning, Parts!LoadRunning,
      Thread!LoadFailed, Parts!LoadFailed, Thread!Verdict, Parts!Verdict,
      Thread!JoinFailed, Parts!JoinFailed
  <1>2. Thread!ChildSetup => Parts!ThreadNext
    BY Zenon DEF Thread!ChildSetup, Parts!ThreadNext, Parts!ChildSetup,
      Thread!Setup, Parts!Setup, Thread!setThreadCore, Parts!setThreadCore,
      Thread!StoreFailed, Parts!StoreFailed, Thread!ReturnFailed, Parts!ReturnFailed,
      Thread!StoreRunning, Parts!StoreRunning
  <1>3. Thread!TaskReturns => Parts!ThreadNext
    BY DEF Thread!TaskReturns, Parts!ThreadNext, Parts!TaskReturns
  <1>4. UNCHANGED threadVars => UNCHANGED Parts!threadVars
    BY DEF threadVars, Parts!threadVars
  <1>5. QED
    BY <1>1, <1>2, <1>3, <1>4, Parts!NextFlags, LoggerAssumption

LEMMA InitIInv == Init => IInv
  <1> SUFFICES ASSUME Init PROVE IInv
    OBVIOUS
  <1>1. Parts!IInv
    <2>1. Parts!Init
      BY DEF Init, Queue!Init, Parts!Init, Queue!Slots, Parts!Slots
    <2>2. QED
      BY <2>1, Parts!InitIInv, LoggerAssumption
  <1>2. Parts!FlagsTellProgress
    <2>1. Parts!ThreadInit
      BY DEF Init, Thread!ThreadInit, Parts!ThreadInit
    <2>2. QED
      BY <2>1, Parts!InitFlags, LoggerAssumption
  <1>3. Phases
    BY DEF Init, Queue!Init, Thread!ThreadInit, Phases
  <1>4. Prefixes
    BY DEF Init, Queue!Init, Prefixes
  <1>5. QED
    BY <1>1, <1>2, <1>3, <1>4 DEF IInv
-----------------------------------------------------------------------------
(* What the queue's invariant says of the counts. *)
LEMMA QueueFacts ==
  ASSUME Parts!IInv
  PROVE  /\ sent \in Seq(Values) /\ received \in Seq(Values) /\ num_elements_ \in Nat
         /\ Len(sent) = Len(received) + num_elements_
         /\ consumer.pc \in {"idle", "empty", "use", "release", "uncount"}
         /\ consumer.pc \in {"use", "release", "uncount"} => num_elements_ > 0
  BY LoggerAssumption
  DEF Parts!IInv, Parts!TypeOK, Parts!RingHoldsItems, Parts!OperationsStable,
      Parts!ConsumerPcs

(* log() touches neither the consumer's side nor the file. *)
LEMMA ProduceEffect ==
  ASSUME Parts!IInv, Queue!Produce
  PROVE  /\ UNCHANGED <<consumer, received>>
         /\ sent' = sent \/ \E v \in Values : sent' = Append(sent, v)
  <1>1. CASE Queue!updateWriteIndex_Count
    <2>1. producer.item \in Values
      BY <1>1 DEF Queue!updateWriteIndex_Count, Parts!IInv, Parts!OperationsStable
    <2>2. QED
      BY <1>1, <2>1 DEF Queue!updateWriteIndex_Count
  <1>2. CASE ~Queue!updateWriteIndex_Count
    BY Zenon, <1>2
    DEF Queue!Produce, Queue!getNextToWriteTo, Queue!BeginFill, Queue!EndFill,
        Queue!updateWriteIndex_Advance
  <1>3. QED
    BY <1>1, <1>2

(* The background thread touches nothing of the producer's, and counts     *)
(* down only what is there.                                                *)
LEMMA ConsumeEffect ==
  ASSUME Parts!IInv, Queue!Consume
  PROVE  /\ UNCHANGED <<producer, sent>>
         /\ num_elements_ = 0 => num_elements_' = 0
  <1>1. CASE Queue!updateReadIndex_Uncount
    <2>1. num_elements_ > 0 /\ num_elements_ \in Nat
      BY <1>1, QueueFacts DEF Queue!updateReadIndex_Uncount
    <2>2. QED
      BY <1>1, <2>1 DEF Queue!updateReadIndex_Uncount
  <1>2. CASE ~Queue!updateReadIndex_Uncount
    BY SMTT(30), <1>2
    DEF Queue!Consume, Queue!getNextToRead, Queue!Use, Queue!updateReadIndex_Advance
  <1>3. QED
    BY <1>1, <1>2

(* Closing the stream leaves it good only if it was. *)
LEMMA CloseEffect ==
  ASSUME Phases, Close
  PROVE  /\ file_' \in [open : BOOLEAN, good : BOOLEAN]
         /\ file_'.good \in {file_.good, FALSE}
  <1>1. PICK g \in {file_.good, FALSE} : file_' = [open |-> FALSE, good |-> g]
    BY Zenon DEF Close
  <1>2. g \in BOOLEAN
    <2>1. file_.good \in BOOLEAN
      BY Zenon DEF Phases
    <2>2. QED
      BY Zenon, <2>1
  <1>3. file_'.good = g
    BY Zenon, <1>1
  <1>4. file_' \in [open : BOOLEAN, good : BOOLEAN]
    BY Zenon, <1>1, <1>2
  <1>5. QED
    BY Zenon, <1>3, <1>4

(* Every step keeps the two threads' phases in their relation. *)
LEMMA NextPhases ==
  ASSUME IInv, [Next]_loggerVars
  PROVE  Phases'
  <1> USE DEF Phases
  <1>0. Phases /\ Parts!FlagsTellProgress
    BY DEF IInv
  <1>1. CASE Open
    BY Zenon, <1>0, <1>1
    DEF Open, queueVars, threadVars, Parts!FlagsTellProgress
  <1>2. CASE Start
    <2>1. /\ UNCHANGED <<core_id, running, failed, pinned>>
          /\ caller' \in {"running?", "failed?", "verdict", "join", "returned", "threw"}
          /\ child' = child \/ child' = "setup"
          /\ caller' = "threw" => child' = child
          /\ caller = "start" => child = "unborn"
          /\ caller' = "threw" => caller \in {"start", "join"}
          /\ caller # "join"
      BY <1>0, <1>2
      DEF Start, Thread!Caller, Thread!StartThread, Thread!LoadRunning, Thread!LoadFailed,
          Thread!Verdict, Thread!JoinFailed, Parts!FlagsTellProgress
    <2>2. UNCHANGED <<num_elements_, producer, running_>> /\ app = "start"
      BY <1>2 DEF Start, queueVars
    <2>3. running_
      BY <1>0, <2>2
    <2>4. child # "ended"
      BY <1>0, <2>3
    <2>5. file_' = [file_ EXCEPT !.open = (caller' # "threw")]
      BY <1>2 DEF Start
    <2>6. CASE caller' = "returned"
      <3>1. app' = "ready" /\ file_'.open /\ file_'.good = file_.good
        BY <1>0, <1>2, <2>5, <2>6 DEF Start
      <3>2. QED
        BY ZenonT(30), <1>0, <2>1, <2>2, <2>3, <2>4, <2>5, <2>6, <3>1
    <2>7. CASE caller' = "threw"
      <3>1. app' = "threw" /\ caller = "start" /\ child' = "unborn"
        BY <1>2, <2>1, <2>7 DEF Start
      <3>2. QED
        BY ZenonT(30), <1>0, <2>1, <2>2, <2>3, <2>5, <2>7, <3>1
    <2>8. CASE caller' \notin {"returned", "threw"}
      <3>1. app' = "start" /\ file_'.open
        BY <1>0, <1>2, <2>5, <2>8 DEF Start
      <3>2. QED
        BY ZenonT(30), <1>0, <2>1, <2>2, <2>3, <2>4, <2>5, <2>8, <3>1
    <2>9. QED
      BY <2>6, <2>7, <2>8
  <1>3. CASE pushValue
    BY <1>0, <1>3 DEF pushValue, threadVars
  <1>4. CASE BeginDestroy
    BY <1>0, <1>4 DEF BeginDestroy, queueVars, threadVars
  <1>5. CASE Drain
    BY <1>0, <1>5 DEF Drain, Drained, Queue!size, queueVars, threadVars
  <1>6. CASE Stop
    BY Zenon, <1>0, <1>6 DEF Stop, queueVars, threadVars
  <1>7. CASE Join
    BY <1>0, <1>7 DEF Join, queueVars, threadVars
  <1>8. CASE Close
    <2>1. file_' \in [open : BOOLEAN, good : BOOLEAN]
      BY Zenon, <1>0, <1>8, CloseEffect
    <2>2. QED
      BY Zenon, <1>0, <1>8, <2>1 DEF Close, queueVars, threadVars
  <1>9. CASE ThreadSetup
    <2>1. core_id < 0 /\ ~(core_id >= 0)
      BY <1>0 DEF Parts!FlagsTellProgress, Parts!ThreadTypeOK
    <2>2. /\ UNCHANGED <<caller, failed, queueVars, running_, app, file_>>
          /\ child' \in {"store_running", "task"}
          /\ child # "unborn" /\ child # "ended"
      BY <1>0, <1>9, <2>1
      DEF ThreadSetup, Thread!ChildSetup, Thread!Setup, Thread!StoreFailed,
          Thread!ReturnFailed, Thread!StoreRunning
    <2>3. QED
      BY <1>0, <2>2 DEF queueVars
  <1>10. CASE flushQueue_While
    BY <1>0, <1>10 DEF flushQueue_While, Thread!TaskReturns, queueVars, threadVars
  <1>11. CASE flushQueue_Next \/ flushQueue_Release
    <2>1. Queue!Consume /\ UNCHANGED <<threadVars, running_, app, file_>>
      BY <1>11 DEF flushQueue_Next, flushQueue_Release, Queue!Consume
    <2>2. QED
      BY <1>0, <2>1, ConsumeEffect DEF IInv, threadVars
  <1>12. CASE flushQueue_Write
    <2>1. Queue!Consume /\ UNCHANGED <<threadVars, running_, app>>
      BY <1>12 DEF flushQueue_Write, Queue!Consume
    <2>2. file_' \in [open : BOOLEAN, good : BOOLEAN] /\ file_'.open = file_.open
      BY ZenonT(30), <1>0, <1>12 DEF flushQueue_Write
    <2>3. QED
      BY <1>0, <2>1, <2>2, ConsumeEffect DEF IInv, threadVars
  <1>13. CASE flushQueue_Sleep \/ UNCHANGED loggerVars
    BY SMTT(30), <1>0, <1>13 DEF flushQueue_Sleep, loggerVars, queueVars, threadVars
  <1> HIDE DEF Phases
  <1>14. QED
    BY ZenonT(30), <1>1, <1>2, <1>3, <1>4, <1>5, <1>6, <1>7, <1>8, <1>9, <1>10, <1>11, <1>12, <1>13
    DEF Next, Application, Background
-----------------------------------------------------------------------------
(* What the stream accepted and what was released stay the beginning of    *)
(* what was logged.                                                        *)
LEMMA NextPrefixes ==
  ASSUME IInv, [Next]_loggerVars
  PROVE  Prefixes'
  <1> USE DEF Prefixes
  <1>0. /\ Prefixes
        /\ Parts!IInv
        /\ sent \in Seq(Values) /\ received \in Seq(Values) /\ num_elements_ \in Nat
        /\ Len(sent) = Len(received) + num_elements_
        /\ file_ \in [open : BOOLEAN, good : BOOLEAN] /\ Phases
    BY QueueFacts DEF IInv, Phases
  <1>1. CASE UNCHANGED <<queueVars, written>> /\ file_'.good \in {file_.good, FALSE}
    BY <1>0, <1>1 DEF queueVars
  <1>2. CASE pushValue
    <2>1. UNCHANGED <<consumer, received, written, file_>>
      BY <1>0, <1>2, ProduceEffect DEF pushValue
    <2>2. CASE sent' = sent
      BY <1>0, <2>1, <2>2
    <2>3. ASSUME NEW v \in Values, sent' = Append(sent, v)
          PROVE  Prefixes'
      <3>1. Len(sent') = Len(sent) + 1 /\ \A i \in 1 .. Len(sent) : sent'[i] = sent[i]
        <4>1. sent \in Seq(Values)
          BY <1>0
        <4>2. QED
          BY <2>3, <4>1
      <3>2. /\ Len(received) <= Len(sent)
            /\ Len(written) \in Nat /\ Len(received) \in Nat /\ Len(sent) \in Nat
        BY <1>0
      <3>3. QED
        BY <1>0, <2>1, <3>1, <3>2
    <2>4. QED
      BY ZenonT(30), <1>0, <1>2, <2>2, <2>3, ProduceEffect DEF pushValue
  <1>3. CASE flushQueue_Next
    <2>1. /\ UNCHANGED <<sent, received, written, file_>>
          /\ consumer.pc \in {"idle", "empty"}
          /\ consumer'.pc \in {"empty", "use"}
      BY Zenon, <1>0, <1>3
      DEF flushQueue_Next, Queue!getNextToRead, Parts!IInv, Parts!TypeOK
    <2>2. QED
      BY <1>0, <2>1
  <1>4. CASE flushQueue_Write
    <2>1. /\ UNCHANGED <<sent, received>>
          /\ consumer.pc = "use"
          /\ consumer'.pc = "release" /\ consumer'.item = store_[consumer.slot]
      BY <1>0, <1>4
      DEF flushQueue_Write, Queue!Use, Parts!IInv, Parts!TypeOK
    <2>2. num_elements_ > 0 /\ store_[consumer.slot] = sent[Len(received) + 1]
      BY SMTT(30), <1>0, <2>1, Parts!HeldIsOldest, LoggerAssumption
    <2>3. Len(received) + 1 \in 1 .. Len(sent) /\ sent[Len(received) + 1] \in Values
      BY <1>0, <2>2
    <2>4. CASE file_.good /\ written' = Append(written, consumer'.item) /\ UNCHANGED file_
      <3>1. Len(written) = Len(received)
        BY <1>0, <2>1, <2>4
      <3>2. written' = Append(written, sent[Len(received) + 1])
        BY SMTT(30), <2>1, <2>2, <2>4
      <3>3. /\ written' \in Seq(Values) /\ Len(written') = Len(written) + 1
            /\ written'[Len(written) + 1] = sent[Len(received) + 1]
            /\ \A i \in 1 .. Len(written) : written'[i] = written[i]
        BY SMTT(30), <1>0, <2>3, <3>2
      <3>4. \A i \in 1 .. Len(written') : written'[i] = sent[i]
        BY <1>0, <3>1, <3>3
      <3>5. QED
        BY SMTT(30), <1>0, <2>1, <2>3, <3>1, <3>3, <3>4
    <2>5. CASE file_' = [file_ EXCEPT !.good = FALSE] /\ UNCHANGED written
      <3>1. ~file_'.good
        BY <1>0, <2>5
      <3>2. QED
        BY SMTT(30), <1>0, <2>1, <2>5, <3>1
    <2>6. QED
      BY <1>4, <2>4, <2>5 DEF flushQueue_Write
  <1>5. CASE flushQueue_Release
    <2>1. CASE Queue!updateReadIndex_Advance
      <3>1. /\ UNCHANGED <<sent, received, written, file_>>
            /\ consumer.pc = "release" /\ consumer'.pc = "uncount"
        BY SMTT(30), <1>0, <1>5, <2>1
        DEF flushQueue_Release, Queue!updateReadIndex_Advance, Parts!IInv, Parts!TypeOK
      <3>2. QED
        BY <1>0, <3>1
    <2>2. CASE Queue!updateReadIndex_Uncount
      <3>1. /\ UNCHANGED <<sent, written, file_>>
            /\ received' = Append(received, consumer.item)
            /\ consumer.pc = "uncount" /\ consumer'.pc = "idle"
        BY SMTT(30), <1>0, <1>5, <2>2
        DEF flushQueue_Release, Queue!updateReadIndex_Uncount, Parts!IInv, Parts!TypeOK
      <3>2. consumer.item = sent[Len(received) + 1]
        BY SMTT(30), <1>0, <3>1, Parts!UncountsOldest, LoggerAssumption
      <3>3. /\ Len(received') = Len(received) + 1
            /\ received'[Len(received) + 1] = sent[Len(received) + 1]
            /\ \A i \in 1 .. Len(received) : received'[i] = received[i]
        <4> DEFINE item == consumer.item
        <4>1. item = sent[Len(received) + 1] /\ received' = Append(received, item)
          BY <3>1, <3>2
        <4> HIDE DEF item
        <4>2. QED
          BY <1>0, <4>1
      <3>4. \A i \in 1 .. Len(received') : received'[i] = sent[i]
        <4>1. ASSUME NEW k \in 1 .. Len(received')
              PROVE  k \in 1 .. Len(received) \/ k = Len(received) + 1
          BY <1>0, <3>3
        <4>2. QED
          BY Zenon, <1>0, <3>3, <4>1
      <3>5. file_.good => Len(written) = Len(received')
        BY <1>0, <3>1, <3>3
      <3>6. QED
        BY SMTT(30), <1>0, <3>1, <3>4, <3>5
    <2>3. QED
      BY <1>5, <2>1, <2>2 DEF flushQueue_Release
  <1>6. CASE Open \/ Start \/ Close
    <2>1. UNCHANGED <<queueVars, written>> /\ file_'.good \in {file_.good, FALSE}
      <3>1. CASE Close
        BY Zenon, <1>0, <3>1, CloseEffect DEF Close
      <3>2. CASE Open \/ Start
        BY <1>0, <3>2 DEF Open, Start
      <3>3. QED
        BY <1>6, <3>1, <3>2
    <2>2. QED
      BY <1>1, <2>1
  <1>7. CASE \/ BeginDestroy \/ Drain \/ Stop \/ Join \/ ThreadSetup \/ flushQueue_While
             \/ flushQueue_Sleep \/ UNCHANGED loggerVars
    <2>1. UNCHANGED <<queueVars, written, file_>>
      BY <1>7
      DEF BeginDestroy, Drain, Stop, Join, ThreadSetup, flushQueue_While, flushQueue_Sleep,
          loggerVars
    <2>2. QED
      BY SMTT(30), <1>1, <2>1
  <1> HIDE DEF Prefixes
  <1>8. QED
    BY ZenonT(30), <1>2, <1>3, <1>4, <1>5, <1>6, <1>7 DEF Next, Application, Background

(* Every step preserves the inductive invariant. *)
LEMMA NextIInv == IInv /\ [Next]_loggerVars => IInv'
  <1> SUFFICES ASSUME IInv, [Next]_loggerVars
               PROVE  IInv'
    OBVIOUS
  <1>1. Queue!Produce \/ Queue!Consume \/ UNCHANGED queueVars
    BY DEF Next, Application, Background, Open, Start, pushValue, BeginDestroy, Drain, Stop,
      Join, Close, ThreadSetup, flushQueue_While, flushQueue_Next, flushQueue_Write,
      flushQueue_Release, flushQueue_Sleep, loggerVars, Queue!Consume
  <1>2. Thread!Caller \/ Thread!ChildSetup \/ Thread!TaskReturns \/ UNCHANGED threadVars
    BY DEF Next, Application, Background, Open, Start, pushValue, BeginDestroy, Drain, Stop,
      Join, Close, ThreadSetup, flushQueue_While, flushQueue_Next, flushQueue_Write,
      flushQueue_Release, flushQueue_Sleep, loggerVars
  <1>3. QED
    BY SMTT(30), <1>1, <1>2, QueueKept, ThreadKept, NextPhases, NextPrefixes DEF IInv

(* Two sequences of the same length with the same elements are the same. *)
LEMMA SameSequence ==
  ASSUME NEW s \in Seq(Values), NEW t \in Seq(Values), Len(s) = Len(t),
         \A i \in 1 .. Len(s) : s[i] = t[i]
  PROVE  s = t
  OBVIOUS

(* When the queue is empty, everything that was logged has been released   *)
(* and, unless the stream has failed, handed to it.                        *)
LEMMA EmptyQueue ==
  ASSUME IInv, num_elements_ = 0
  PROVE  received = sent /\ (file_.good => written = sent)
  <1>1. /\ sent \in Seq(Values) /\ received \in Seq(Values) /\ written \in Seq(Values)
        /\ Len(sent) = Len(received)
        /\ consumer.pc \notin {"release", "uncount"}
    BY QueueFacts DEF IInv, Prefixes
  <1>2. PICK s \in Seq(Values), r \in Seq(Values), w \in Seq(Values) :
          s = sent /\ r = received /\ w = written
    BY <1>1
  <1>3. r = s
    BY SMTT(30), <1>1, <1>2, SameSequence DEF IInv, Prefixes
  <1>4. ASSUME file_.good PROVE w = s
    BY <1>1, <1>2, <1>4, SameSequence DEF IInv, Prefixes
  <1>5. QED
    BY SMTT(30), <1>2, <1>3, <1>4

(* For every size of the queue: ~Logger() tells the background thread to   *)
(* stop only when the queue is empty and every element that left it has    *)
(* been handed to the stream.                                              *)
THEOREM ShutdownCorrect == SafeSpec => []StopsWhenDrained
  <1>1. IInv => StopsWhenDrained
    <2> SUFFICES ASSUME IInv PROVE StopsWhenDrained
      OBVIOUS
    <2>1. ~running_ => received = sent
      BY EmptyQueue DEF IInv, Phases
    <2>2. file_.good => Len(received) <= Len(written)
      BY QueueFacts DEF IInv, Prefixes
    <2>3. QED
      BY <2>1, <2>2 DEF StopsWhenDrained
  <1>2. QED
    BY <1>1, InitIInv, NextIInv, PTL DEF SafeSpec

(* For every size of the queue: the file is open while the background      *)
(* thread may write and closed when it no longer can.                      *)
THEOREM FileUseCorrect == SafeSpec => []FileHasOneUser
  <1>1. IInv => FileHasOneUser
    BY DEF IInv, Phases, FileHasOneUser
  <1>2. QED
    BY <1>1, InitIInv, NextIInv, PTL DEF SafeSpec
-----------------------------------------------------------------------------
(* Every step of the logger is a step of LogFile, or changes nothing of    *)
(* what LogFile shows.                                                     *)
LEMMA StepRefines ==
  ASSUME IInv, [Next]_loggerVars
  PROVE  \/ File!Log \/ File!Write \/ File!Fail \/ File!Close
         \/ UNCHANGED <<sent, written, file_.good, app = "done">>
  <1>0. /\ Parts!IInv /\ Phases /\ Prefixes
        /\ sent \in Seq(Values) /\ received \in Seq(Values) /\ num_elements_ \in Nat
        /\ Len(sent) = Len(received) + num_elements_
        /\ file_ \in [open : BOOLEAN, good : BOOLEAN]
    BY QueueFacts DEF IInv, Phases
  <1>1. CASE pushValue
    BY <1>0, <1>1, ProduceEffect DEF pushValue, File!Log
  <1>2. CASE flushQueue_Write
    <2>1. app # "done" /\ app' = app /\ UNCHANGED <<sent, received>>
      BY <1>0, <1>2 DEF flushQueue_Write, Queue!Use, Phases
    <2>2. CASE file_.good /\ written' = Append(written, consumer'.item) /\ UNCHANGED file_
      <3>1. consumer.pc = "use" /\ consumer'.item = store_[consumer.slot]
        BY <1>0, <1>2 DEF flushQueue_Write, Queue!Use, Parts!IInv, Parts!TypeOK
      <3>2. num_elements_ > 0 /\ store_[consumer.slot] = sent[Len(received) + 1]
        BY SMTT(30), <1>0, <3>1, Parts!HeldIsOldest, LoggerAssumption
      <3>3. Len(written) = Len(received)
        BY <1>0, <2>2, <3>1 DEF Prefixes
      <3>4. File!Write
        <4>1. Len(written) < Len(sent)
          BY <1>0, <3>2, <3>3
        <4>2. written' = Append(written, sent[Len(written) + 1])
          BY <2>2, <3>1, <3>2, <3>3
        <4>3. QED
          BY Zenon, <2>1, <2>2, <4>1, <4>2 DEF File!Write
      <3>5. QED
        BY <3>4
    <2>3. CASE file_' = [file_ EXCEPT !.good = FALSE] /\ UNCHANGED written
      <3>1. file_'.good = FALSE
        BY <1>0, <2>3
      <3>2. QED
        BY Zenon, <2>1, <2>3, <3>1 DEF File!Fail
    <2>4. QED
      BY <1>2, <2>2, <2>3 DEF flushQueue_Write
  <1>3. CASE Close
    <2>1. file_.good => written = sent
      BY <1>0, <1>3, EmptyQueue DEF Close, Phases
    <2>2. UNCHANGED <<sent, written>> /\ app' = "done" /\ file_'.good \in {file_.good, FALSE}
      BY Zenon, <1>0, <1>3, CloseEffect DEF Close, queueVars
    <2>3. QED
      BY <2>1, <2>2 DEF File!Close
  <1>4. CASE flushQueue_Next \/ flushQueue_Release
    BY <1>4
    DEF flushQueue_Next, flushQueue_Release, Queue!getNextToRead,
        Queue!updateReadIndex_Advance, Queue!updateReadIndex_Uncount
  <1>5. CASE Open \/ Start
    <2>1. UNCHANGED <<sent, written>> /\ app # "done" /\ app' # "done" /\ file_'.good = file_.good
      BY <1>0, <1>5 DEF Open, Start, queueVars
    <2>2. QED
      BY <2>1
  <1>6. CASE \/ BeginDestroy \/ Drain \/ Stop \/ Join \/ ThreadSetup \/ flushQueue_While
             \/ flushQueue_Sleep \/ UNCHANGED loggerVars
    <2>1. UNCHANGED <<sent, written, file_>> /\ (app = "done" <=> app' = "done")
      BY <1>6
      DEF BeginDestroy, Drain, Stop, Join, ThreadSetup, flushQueue_While, flushQueue_Sleep,
          loggerVars, queueVars
    <2>2. QED
      BY ZenonT(30), <2>1
  <1>7. QED
    BY ZenonT(30), <1>1, <1>2, <1>3, <1>4, <1>5, <1>6 DEF Next, Application, Background

(* The logger implements LogFile: through the queue, the background thread *)
(* and the shutdown, the stream is given what was logged, in order and     *)
(* each element once, and all of it before it is closed, unless it failed. *)
THEOREM LogFileRefinement == SafeSpec => FileSafeSpec
  <1>1. Init => File!FileInit
    BY DEF Init, Queue!Init, File!FileInit
  <1>2. IInv /\ [Next]_loggerVars =>
          [File!Log \/ File!Write \/ File!Fail \/ File!Close]_(File!fileVars)
    BY StepRefines DEF File!fileVars
  <1>3. QED
    BY <1>1, <1>2, InitIInv, NextIInv, PTL DEF SafeSpec, FileSafeSpec, File!FileSafeSpec
=============================================================================
